----------------------- MODULE SubshellLifecycleProofs -----------------------
(***************************************************************************)
(* What holds of SubshellLifecycle for every set of tasks and every bound: *)
(* its variables keep their types, no key outlives its row, a stopped row  *)
(* has no live pane, a live pane holds its row's key, and a death is       *)
(* stamped on a dead pane only.                                            *)
(*                                                                         *)
(* The types are proved in three parts: what the tasks and the lease hold, *)
(* what the host side holds and what the database holds.                   *)
(* NoKeyOutlivesItsRow is not inductive: between a stop's write and its    *)
(* revoke the key does outlive the row.  What is inductive is that         *)
(* somebody then still owes a revoke.                                      *)
(* The other three rest on LifeInv, whose first part, Apart, says that but *)
(* for an exposed meeting one task at a time may spawn, and that the       *)
(* evidence a task carries is of the pane that is there.  From it follow   *)
(* StrayInv (a live pane under an ended row is still somebody's to kill)   *)
(* and Accepted (the pane's key is the row's, or somebody is changing it). *)
(* A step's proof first says what becomes of its task (the lemmas named    *)
(* ...Is), then cites the frame lemma of the invariant (...Kept, ...Still),*)
(* unless the step is one the invariant is about.                          *)
(***************************************************************************)
EXTENDS SubshellLifecycle, TLAPS

TaskRec == [op: Ops, pc: Pcs, status: Statuses, alive: BOOLEAN,
            backoff: Nat, next: Nat, key: Keys \cup {NoKey}]

TaskOK ==
  /\ lease \in Tasks \cup {None}
  /\ task \in [Tasks -> TaskRec]
  /\ \A t \in Tasks : InItsProgram(task[t]) /\ (lease = t <=> task[t].op = "restart")

HostOK ==
  /\ place \in Places /\ optIn \in BOOLEAN
  /\ pane \in [is: {"none", "live", "dead"}, key: Keys \cup {NoKey}]
  /\ online \in BOOLEAN
  /\ drops \in 0..MaxDrops
  /\ hooks \subseteq Keys \cup {NoKey}
  /\ exposed \in BOOLEAN

DbOK ==
  /\ row \in [status: Statuses, alive: BOOLEAN, backoff: Nat,
              waiting: BOOLEAN, link: Keys \cup {NoKey}]
  /\ minted \in 0..MaxKeys
  /\ enabled \subseteq 1..minted

\* One task's entry changes to one its operation allows, and the lease follows.
LEMMA EntryStep ==
  ASSUME TaskOK, NEW t \in Tasks, NEW r \in TaskRec, InItsProgram(r),
         task' = [task EXCEPT ![t] = r],
         \/ lease' = lease /\ (r.op = "restart" <=> task[t].op = "restart")
         \/ lease' = t /\ lease \in {t, None} /\ r.op = "restart"
         \/ lease' = None /\ lease \in {t, None} /\ r.op # "restart"
  PROVE  TaskOK'
  <1>1. task' \in [Tasks -> TaskRec] /\ lease' \in Tasks \cup {None}
    BY DEF TaskOK
  <1>2. ASSUME NEW u \in Tasks
        PROVE  InItsProgram(task'[u]) /\ (lease' = u <=> task'[u].op = "restart")
    <2>1. CASE u = t BY <2>1, NoneAssumption DEF TaskOK
    <2>2. CASE u # t BY <2>2, NoneAssumption DEF TaskOK
    <2> QED BY <2>1, <2>2
  <1> QED BY <1>1, <1>2 DEF TaskOK

\* An idle task is well typed and holds no lease.
LEMMA IdleEntry == Idle \in TaskRec /\ InItsProgram(Idle) /\ Idle.op # "restart"
  BY DEF TaskRec, Idle, InItsProgram, NoKey, Keys, Ops, Pcs, Statuses

\* An operation that holds no lease may end.
LEMMA EndsStep ==
  ASSUME TaskOK, NEW t \in Tasks, Ends(t), lease' = lease, task[t].op # "restart"
  PROVE  TaskOK'
  BY EntryStep, IdleEntry DEF Ends

\* An operation may end and give up its lease.
LEMMA FinishesStep == ASSUME TaskOK, NEW t \in Tasks, Finishes(t) PROVE TaskOK'
  <1>1. CASE lease = t BY <1>1, EntryStep, IdleEntry DEF Ends, Finishes
  <1>2. CASE lease # t
    <2>1. task[t].op # "restart" /\ lease' = lease BY <1>2 DEF TaskOK, Finishes
    <2> QED BY <2>1, EndsStep DEF Finishes
  <1> QED BY <1>1, <1>2

\* An operation moves to another of its own steps.
LEMMA GotoStep ==
  ASSUME TaskOK, NEW t \in Tasks, NEW pc \in Pcs, Goto(t, pc), lease' = lease,
         InItsProgram([op |-> task[t].op, pc |-> pc])
  PROVE  TaskOK'
  <1> DEFINE r == [task[t] EXCEPT !.pc = pc]
  <1>1. r \in TaskRec /\ r.op = task[t].op /\ r.pc = pc BY DEF TaskRec, TaskOK
  <1>2. InItsProgram(r) BY <1>1 DEF InItsProgram
  <1>3. task' = [task EXCEPT ![t] = r] BY DEF Goto, TaskOK
  <1> QED BY <1>1, <1>2, <1>3, EntryStep

\* A task starts an operation afresh.
LEMMA BeginsStep ==
  ASSUME TaskOK, NEW t \in Tasks, NEW op \in Ops, NEW pc \in Pcs, Begins(t, op, pc), lease' = lease,
         op = "restart" <=> task[t].op = "restart", InItsProgram([op |-> op, pc |-> pc])
  PROVE  TaskOK'
  <1> DEFINE r == [Idle EXCEPT !.op = op, !.pc = pc]
  <1>1. r \in TaskRec /\ r.op = op /\ r.pc = pc BY IdleEntry DEF TaskRec
  <1>2. InItsProgram(r) BY <1>1 DEF InItsProgram
  <1> QED BY <1>1, <1>2, EntryStep DEF Begins

\* The type invariant is the three parts together.
LEMMA Parts == TypeOK <=> TaskOK /\ HostOK /\ DbOK
  BY DEF TypeOK, TaskOK, HostOK, DbOK, TaskRec

\* No step of any operation leaves the types of the pane, the hooks and the link.
LEMMA HostStep == ASSUME TypeOK, [Next]_vars PROVE HostOK'
<1> USE BoundsAssumption DEF HostOK, At, AtAs, NoPane, Spawns, Exposes, dbVars, hostVars,
                             fixed, Keys, NoKey
<1>0. HostOK /\ task \in [Tasks -> TaskRec] BY Parts DEF TaskOK
<1>k. \A t \in Tasks : task[t].key \in Keys \cup {NoKey} BY <1>0 DEF TaskRec
<1>1. ASSUME NEW t \in Tasks, Create(t) PROVE HostOK'
  BY <1>0, <1>k, <1>1 DEF Create
<1>2. ASSUME NEW t \in Tasks, Restart(t) PROVE HostOK'
  BY <1>0, <1>k, <1>2 DEF Restart
<1>3. ASSUME NEW t \in Tasks, Stop(t) PROVE HostOK'
  BY <1>0, <1>k, <1>3 DEF Stop
<1>4. ASSUME NEW t \in Tasks, Delete(t) PROVE HostOK'
  BY <1>0, <1>k, <1>4 DEF Delete
<1>5. ASSUME NEW t \in Tasks, Sweep(t) PROVE HostOK'
  BY <1>0, <1>k, <1>5 DEF Sweep
<1>6. ASSUME NEW t \in Tasks, Report(t) PROVE HostOK'
  BY <1>0, <1>k, <1>6 DEF Report
<1>7. ASSUME NEW t \in Tasks, NodeReports(t) PROVE HostOK'
  BY <1>0, <1>k, <1>7 DEF NodeReports
<1>8. ASSUME NEW t \in Tasks, LinkReturns(t) PROVE HostOK'
  BY <1>0, <1>k, <1>8 DEF LinkReturns
<1>9. ASSUME NEW t \in Tasks, Mint(t) PROVE HostOK'
  BY <1>0, <1>k, <1>9 DEF Mint
<1>10. ASSUME NEW t \in Tasks, Link(t) PROVE HostOK'
  BY <1>0, <1>k, <1>10 DEF Link
<1>11. ASSUME NEW t \in Tasks, LaunchSucceeds(t) PROVE HostOK'
  BY <1>0, <1>k, <1>11 DEF LaunchSucceeds
<1>12. ASSUME NEW t \in Tasks, LaunchRefused(t) PROVE HostOK'
  BY <1>0, <1>k, <1>12 DEF LaunchRefused
<1>13. ASSUME NEW t \in Tasks, LaunchBreaks(t) PROVE HostOK'
  BY <1>0, <1>k, <1>13 DEF LaunchBreaks
<1>14. ASSUME NEW t \in Tasks, Settle(t) PROVE HostOK'
  BY <1>0, <1>k, <1>14 DEF Settle
<1>15. ASSUME NEW t \in Tasks, UnwindCreate(t) PROVE HostOK'
  BY <1>0, <1>k, <1>15 DEF UnwindCreate
<1>16. ASSUME NEW t \in Tasks, Mark(t) PROVE HostOK'
  BY <1>0, <1>k, <1>16 DEF Mark
<1>17. ASSUME NEW t \in Tasks, Retire(t) PROVE HostOK'
  BY <1>0, <1>k, <1>17 DEF Retire
<1>18. ASSUME NEW t \in Tasks, KillOld(t) PROVE HostOK'
  BY <1>0, <1>k, <1>18 DEF KillOld
<1>19. ASSUME NEW t \in Tasks, Park(t) PROVE HostOK'
  BY <1>0, <1>k, <1>19 DEF Park
<1>20. ASSUME NEW t \in Tasks, UnwindRestart(t) PROVE HostOK'
  BY <1>0, <1>k, <1>20 DEF UnwindRestart
<1>21. ASSUME NEW t \in Tasks, CannotCompose(t) PROVE HostOK'
  BY <1>0, <1>k, <1>21 DEF CannotCompose
<1>22. ASSUME NEW t \in Tasks, RotateKey(t) PROVE HostOK'
  BY <1>0, <1>k, <1>22 DEF RotateKey
<1>23. ASSUME NEW t \in Tasks, Look(t) PROVE HostOK'
  BY <1>0, <1>k, <1>23 DEF Look
<1>24. ASSUME NEW t \in Tasks, Revive(t) PROVE HostOK'
  BY <1>0, <1>k, <1>24 DEF Revive
<1>25. ASSUME NEW t \in Tasks, KillOrphan(t) PROVE HostOK'
  BY <1>0, <1>k, <1>25 DEF KillOrphan
<1>26. ASSUME NEW t \in Tasks, StopKills(t) PROVE HostOK'
  BY <1>0, <1>k, <1>26 DEF StopKills
<1>27. ASSUME NEW t \in Tasks, KillFails(t) PROVE HostOK'
  BY <1>0, <1>k, <1>27 DEF KillFails
<1>28. ASSUME NEW t \in Tasks, StopClaims(t) PROVE HostOK'
  BY <1>0, <1>k, <1>28 DEF StopClaims
<1>29. ASSUME NEW t \in Tasks, DeleteKills(t) PROVE HostOK'
  BY <1>0, <1>k, <1>29 DEF DeleteKills
<1>30. ASSUME NEW t \in Tasks, DeleteRevokes(t) PROVE HostOK'
  BY <1>0, <1>k, <1>30 DEF DeleteRevokes
<1>31. ASSUME NEW t \in Tasks, DeleteRow(t) PROVE HostOK'
  BY <1>0, <1>k, <1>31 DEF DeleteRow
<1>32. ASSUME NEW t \in Tasks, SweepRow(t) PROVE HostOK'
  BY <1>0, <1>k, <1>32 DEF SweepRow
<1>33. ASSUME NEW t \in Tasks, Probe(t) PROVE HostOK'
  BY <1>0, <1>k, <1>33 DEF Probe
<1>34. ASSUME NEW t \in Tasks, PatchAlive(t) PROVE HostOK'
  BY <1>0, <1>k, <1>34 DEF PatchAlive
<1>35. ASSUME NEW t \in Tasks, FoldAlive(t) PROVE HostOK'
  BY <1>0, <1>k, <1>35 DEF FoldAlive
<1>36. ASSUME NEW t \in Tasks, BestEffortKill(t) PROVE HostOK'
  BY <1>0, <1>k, <1>36 DEF BestEffortKill
<1>37. ASSUME NEW t \in Tasks, CheckLease(t) PROVE HostOK'
  BY <1>0, <1>k, <1>37 DEF CheckLease
<1>38. ASSUME NEW t \in Tasks, FreshRow(t) PROVE HostOK'
  BY <1>0, <1>k, <1>38 DEF FreshRow
<1>39. ASSUME NEW t \in Tasks, ClaimDeath(t) PROVE HostOK'
  BY <1>0, <1>k, <1>39 DEF ClaimDeath
<1>40. ASSUME NEW t \in Tasks, Schedule(t) PROVE HostOK'
  BY <1>0, <1>k, <1>40 DEF Schedule
<1>41. ASSUME NEW t \in Tasks, Defer(t) PROVE HostOK'
  BY <1>0, <1>k, <1>41 DEF Defer
<1>42. ASSUME NEW t \in Tasks, AutoRestart(t) PROVE HostOK'
  BY <1>0, <1>k, <1>42 DEF AutoRestart
<1>43. ASSUME NEW t \in Tasks, UnwindAuto(t) PROVE HostOK'
  BY <1>0, <1>k, <1>43 DEF UnwindAuto
<1>44. ASSUME NEW t \in Tasks, Bury(t) PROVE HostOK'
  BY <1>0, <1>k, <1>44 DEF Bury
<1>45. ASSUME NEW t \in Tasks, Reap(t) PROVE HostOK'
  BY <1>0, <1>k, <1>45 DEF Reap
<1>46. ASSUME PaneDies PROVE HostOK'
  <2>1. pane.key \in Keys \cup {NoKey} BY <1>0
  <2>2. pane' \in [is: {"none", "live", "dead"}, key: Keys \cup {NoKey}] BY <1>0, <1>46 DEF PaneDies
  <2>3. hooks' \subseteq Keys \cup {NoKey} BY <1>0, <1>46, <2>1 DEF PaneDies
  <2> QED BY <1>0, <1>46, <2>2, <2>3 DEF PaneDies
<1>47. ASSUME ReportIsLost PROVE HostOK'
  BY <1>0, <1>47 DEF ReportIsLost
<1>48. ASSUME LinkDrops PROVE HostOK'
  <2>1. drops' \in 0..MaxDrops BY <1>0, <1>48 DEF LinkDrops
  <2> QED BY <1>0, <1>48, <2>1 DEF LinkDrops
<1>49. ASSUME RetryFallsDue PROVE HostOK'
  BY <1>0, <1>49 DEF RetryFallsDue
<1>50. ASSUME UNCHANGED vars PROVE HostOK'
  BY <1>0, <1>50 DEF vars
<1> QED
  BY <1>1, <1>2, <1>3, <1>4, <1>5, <1>6, <1>7, <1>8, <1>9, <1>10, <1>11, <1>12, <1>13,
     <1>14, <1>15, <1>16, <1>17, <1>18, <1>19, <1>20, <1>21, <1>22, <1>23, <1>24, <1>25,
     <1>26, <1>27, <1>28, <1>29, <1>30, <1>31, <1>32, <1>33, <1>34, <1>35, <1>36, <1>37,
     <1>38, <1>39, <1>40, <1>41, <1>42, <1>43, <1>44, <1>45, <1>46, <1>47, <1>48, <1>49,
     <1>50
     DEF Next, Operation, Continue, Launching, Restarting, Stopping, Sweeping, Burying

\* No step leaves the types of the row and the keys.
LEMMA DbStep == ASSUME TypeOK, [Next]_vars PROVE DbOK'
<1> USE BoundsAssumption DEF DbOK, At, AtAs, RowBecomes, Running, Exists, Revoked, NoRow,
                             dbVars, hostVars, fixed, Keys, NoKey, Statuses
<1>0. DbOK /\ task \in [Tasks -> TaskRec] BY Parts DEF TaskOK
<1>k. \A t \in Tasks : /\ task[t].key \in Keys \cup {NoKey}
                       /\ task[t].backoff \in Nat /\ task[t].next \in Nat
  BY <1>0 DEF TaskRec
<1>1. ASSUME NEW t \in Tasks, Create(t) PROVE DbOK'
  BY <1>0, <1>k, <1>1 DEF Create
<1>2. ASSUME NEW t \in Tasks, Restart(t) PROVE DbOK'
  BY <1>0, <1>k, <1>2 DEF Restart
<1>3. ASSUME NEW t \in Tasks, Stop(t) PROVE DbOK'
  BY <1>0, <1>k, <1>3 DEF Stop
<1>4. ASSUME NEW t \in Tasks, Delete(t) PROVE DbOK'
  BY <1>0, <1>k, <1>4 DEF Delete
<1>5. ASSUME NEW t \in Tasks, Sweep(t) PROVE DbOK'
  BY <1>0, <1>k, <1>5 DEF Sweep
<1>6. ASSUME NEW t \in Tasks, Report(t) PROVE DbOK'
  BY <1>0, <1>k, <1>6 DEF Report
<1>7. ASSUME NEW t \in Tasks, NodeReports(t) PROVE DbOK'
  BY <1>0, <1>k, <1>7 DEF NodeReports
<1>8. ASSUME NEW t \in Tasks, LinkReturns(t) PROVE DbOK'
  BY <1>0, <1>k, <1>8 DEF LinkReturns
<1>9. ASSUME NEW t \in Tasks, Mint(t) PROVE DbOK'
  BY <1>0, <1>k, <1>9 DEF Mint
<1>10. ASSUME NEW t \in Tasks, Link(t) PROVE DbOK'
  BY <1>0, <1>k, <1>10 DEF Link
<1>11. ASSUME NEW t \in Tasks, LaunchSucceeds(t) PROVE DbOK'
  BY <1>0, <1>k, <1>11 DEF LaunchSucceeds
<1>12. ASSUME NEW t \in Tasks, LaunchRefused(t) PROVE DbOK'
  BY <1>0, <1>k, <1>12 DEF LaunchRefused
<1>13. ASSUME NEW t \in Tasks, LaunchBreaks(t) PROVE DbOK'
  BY <1>0, <1>k, <1>13 DEF LaunchBreaks
<1>14. ASSUME NEW t \in Tasks, Settle(t) PROVE DbOK'
  BY <1>0, <1>k, <1>14 DEF Settle
<1>15. ASSUME NEW t \in Tasks, UnwindCreate(t) PROVE DbOK'
  BY <1>0, <1>k, <1>15 DEF UnwindCreate
<1>16. ASSUME NEW t \in Tasks, Mark(t) PROVE DbOK'
  BY <1>0, <1>k, <1>16 DEF Mark
<1>17. ASSUME NEW t \in Tasks, Retire(t) PROVE DbOK'
  BY <1>0, <1>k, <1>17 DEF Retire
<1>18. ASSUME NEW t \in Tasks, KillOld(t) PROVE DbOK'
  BY <1>0, <1>k, <1>18 DEF KillOld
<1>19. ASSUME NEW t \in Tasks, Park(t) PROVE DbOK'
  BY <1>0, <1>k, <1>19 DEF Park
<1>20. ASSUME NEW t \in Tasks, UnwindRestart(t) PROVE DbOK'
  BY <1>0, <1>k, <1>20 DEF UnwindRestart
<1>21. ASSUME NEW t \in Tasks, CannotCompose(t) PROVE DbOK'
  BY <1>0, <1>k, <1>21 DEF CannotCompose
<1>22. ASSUME NEW t \in Tasks, RotateKey(t) PROVE DbOK'
  BY <1>0, <1>k, <1>22 DEF RotateKey
<1>23. ASSUME NEW t \in Tasks, Look(t) PROVE DbOK'
  BY <1>0, <1>k, <1>23 DEF Look
<1>24. ASSUME NEW t \in Tasks, Revive(t) PROVE DbOK'
  BY <1>0, <1>k, <1>24 DEF Revive
<1>25. ASSUME NEW t \in Tasks, KillOrphan(t) PROVE DbOK'
  BY <1>0, <1>k, <1>25 DEF KillOrphan
<1>26. ASSUME NEW t \in Tasks, StopKills(t) PROVE DbOK'
  BY <1>0, <1>k, <1>26 DEF StopKills
<1>27. ASSUME NEW t \in Tasks, KillFails(t) PROVE DbOK'
  BY <1>0, <1>k, <1>27 DEF KillFails
<1>28. ASSUME NEW t \in Tasks, StopClaims(t) PROVE DbOK'
  BY <1>0, <1>k, <1>28 DEF StopClaims
<1>29. ASSUME NEW t \in Tasks, DeleteKills(t) PROVE DbOK'
  BY <1>0, <1>k, <1>29 DEF DeleteKills
<1>30. ASSUME NEW t \in Tasks, DeleteRevokes(t) PROVE DbOK'
  BY <1>0, <1>k, <1>30 DEF DeleteRevokes
<1>31. ASSUME NEW t \in Tasks, DeleteRow(t) PROVE DbOK'
  BY <1>0, <1>k, <1>31 DEF DeleteRow
<1>32. ASSUME NEW t \in Tasks, SweepRow(t) PROVE DbOK'
  BY <1>0, <1>k, <1>32 DEF SweepRow
<1>33. ASSUME NEW t \in Tasks, Probe(t) PROVE DbOK'
  BY <1>0, <1>k, <1>33 DEF Probe
<1>34. ASSUME NEW t \in Tasks, PatchAlive(t) PROVE DbOK'
  BY <1>0, <1>k, <1>34 DEF PatchAlive
<1>35. ASSUME NEW t \in Tasks, FoldAlive(t) PROVE DbOK'
  <2> DEFINE b == IF row.alive /\ task[t].op = "sweep" THEN 0 ELSE row.backoff
  <2>1. b \in Nat BY <1>0
  <2> HIDE DEF b
  <2>2. UNCHANGED <<minted, enabled>> /\ (row' = row \/ row' = [row EXCEPT !.alive = TRUE, !.backoff = b])
    BY <1>35 DEF FoldAlive, b
  <2> QED BY <1>0, <2>1, <2>2
<1>36. ASSUME NEW t \in Tasks, BestEffortKill(t) PROVE DbOK'
  BY <1>0, <1>k, <1>36 DEF BestEffortKill
<1>37. ASSUME NEW t \in Tasks, CheckLease(t) PROVE DbOK'
  BY <1>0, <1>k, <1>37 DEF CheckLease
<1>38. ASSUME NEW t \in Tasks, FreshRow(t) PROVE DbOK'
  BY <1>0, <1>k, <1>38 DEF FreshRow
<1>39. ASSUME NEW t \in Tasks, ClaimDeath(t) PROVE DbOK'
  BY <1>0, <1>k, <1>39 DEF ClaimDeath
<1>40. ASSUME NEW t \in Tasks, Schedule(t) PROVE DbOK'
  BY <1>0, <1>k, <1>40 DEF Schedule
<1>41. ASSUME NEW t \in Tasks, Defer(t) PROVE DbOK'
  BY <1>0, <1>k, <1>41 DEF Defer
<1>42. ASSUME NEW t \in Tasks, AutoRestart(t) PROVE DbOK'
  BY <1>0, <1>k, <1>42 DEF AutoRestart
<1>43. ASSUME NEW t \in Tasks, UnwindAuto(t) PROVE DbOK'
  <2> DEFINE b == task[t].backoff + 1
  <2>1. b \in Nat BY <1>k
  <2> HIDE DEF b
  <2>2. UNCHANGED <<minted, enabled>> /\ (row' = row \/ row' = [row EXCEPT !.waiting = FALSE, !.backoff = b])
    BY <1>43 DEF UnwindAuto, b
  <2> QED BY <1>0, <2>1, <2>2
<1>44. ASSUME NEW t \in Tasks, Bury(t) PROVE DbOK'
  BY <1>0, <1>k, <1>44 DEF Bury
<1>45. ASSUME NEW t \in Tasks, Reap(t) PROVE DbOK'
  BY <1>0, <1>k, <1>45 DEF Reap
<1>46. ASSUME PaneDies PROVE DbOK'
  BY <1>0, <1>46 DEF PaneDies
<1>47. ASSUME ReportIsLost PROVE DbOK'
  BY <1>0, <1>47 DEF ReportIsLost
<1>48. ASSUME LinkDrops PROVE DbOK'
  BY <1>0, <1>48 DEF LinkDrops
<1>49. ASSUME RetryFallsDue PROVE DbOK'
  BY <1>0, <1>49 DEF RetryFallsDue
<1>50. ASSUME UNCHANGED vars PROVE DbOK'
  BY <1>0, <1>50 DEF vars
<1> QED
  BY <1>1, <1>2, <1>3, <1>4, <1>5, <1>6, <1>7, <1>8, <1>9, <1>10, <1>11, <1>12, <1>13,
     <1>14, <1>15, <1>16, <1>17, <1>18, <1>19, <1>20, <1>21, <1>22, <1>23, <1>24, <1>25,
     <1>26, <1>27, <1>28, <1>29, <1>30, <1>31, <1>32, <1>33, <1>34, <1>35, <1>36, <1>37,
     <1>38, <1>39, <1>40, <1>41, <1>42, <1>43, <1>44, <1>45, <1>46, <1>47, <1>48, <1>49,
     <1>50
     DEF Next, Operation, Continue, Launching, Restarting, Stopping, Sweeping, Burying

\* No step takes a task out of its program or the lease from a restart.
LEMMA TaskStep == ASSUME TypeOK, [Next]_vars PROVE TaskOK'
<1> USE DEF At, AtAs, Free, hostVars, dbVars, fixed
<1>0. TaskOK /\ HostOK /\ DbOK BY Parts
<1>k. /\ row.status \in Statuses /\ row.alive \in BOOLEAN /\ row.backoff \in Nat
      /\ minted \in 0..MaxKeys /\ pane.key \in Keys \cup {NoKey} /\ hooks \subseteq Keys \cup {NoKey}
  BY <1>0 DEF DbOK, HostOK
<1>e. \A t \in Tasks : /\ task[t] \in TaskRec /\ InItsProgram(task[t])
                       /\ (lease = t <=> task[t].op = "restart")
  BY <1>0 DEF TaskOK
<1>d. ASSUME NEW k \in Keys \cup {NoKey}
      PROVE  LET r == [Idle EXCEPT !.op = "death", !.pc = "check", !.key = k]
             IN r \in TaskRec /\ InItsProgram(r) /\ r.op = "death"
    BY IdleEntry DEF TaskRec, InItsProgram, Ops, Pcs, Idle
<1>1. ASSUME NEW t \in Tasks, Create(t) PROVE TaskOK'
  BY <1>0, <1>1, BeginsStep DEF Create, InItsProgram, Ops, Pcs
<1>2. ASSUME NEW t \in Tasks, Restart(t) PROVE TaskOK'
  <2>1. task[t].op # "restart" /\ lease = None BY <1>2 DEF Restart
  <2> DEFINE r == [Idle EXCEPT !.op = "restart", !.pc = "kill", !.status = row.status, !.alive = row.alive]
  <2>2. r \in TaskRec /\ InItsProgram(r) /\ r.op = "restart"
    BY <1>k, IdleEntry DEF TaskRec, InItsProgram, Ops, Pcs, Idle
  <2> QED BY <1>0, <1>2, <2>1, <2>2, EntryStep DEF Restart
<1>3. ASSUME NEW t \in Tasks, Stop(t) PROVE TaskOK'
  BY <1>0, <1>3, BeginsStep DEF Stop, InItsProgram, Ops, Pcs
<1>4. ASSUME NEW t \in Tasks, Delete(t) PROVE TaskOK'
  BY <1>0, <1>4, BeginsStep DEF Delete, InItsProgram, Ops, Pcs
<1>5. ASSUME NEW t \in Tasks, Sweep(t) PROVE TaskOK'
  <2> DEFINE r == [Idle EXCEPT !.op = "sweep", !.pc = "row", !.alive = row.alive, !.backoff = row.backoff]
  <2>2. r \in TaskRec /\ InItsProgram(r) /\ r.op = "sweep"
    BY <1>k, IdleEntry DEF TaskRec, InItsProgram, Ops, Pcs, Idle
  <2> QED BY <1>0, <1>5, <2>2, EntryStep DEF Sweep
<1>6. ASSUME NEW t \in Tasks, Report(t) PROVE TaskOK'
  <2>1. lease' = lease BY <1>6 DEF Report
  <2>2. CASE task' = task BY <1>0, <2>1, <2>2 DEF TaskOK
  <2>3. CASE \E k \in hooks : task' = [task EXCEPT ![t] = [Idle EXCEPT !.op = "death", !.pc = "check", !.key = k]]
    BY <1>0, <1>d, <1>k, <1>6, <2>1, <2>3, EntryStep DEF Report
  <2> QED BY <1>6, <2>2, <2>3 DEF Report
<1>7. ASSUME NEW t \in Tasks, NodeReports(t) PROVE TaskOK'
  <2>1. lease' = lease BY <1>7 DEF NodeReports
  <2>2. CASE task' = task BY <1>0, <2>1, <2>2 DEF TaskOK
  <2>3. CASE task' = [task EXCEPT ![t] = [Idle EXCEPT !.op = "death", !.pc = "check", !.key = pane.key]]
    BY <1>0, <1>d, <1>k, <1>7, <2>1, <2>3, EntryStep DEF NodeReports
  <2> QED BY <1>7, <2>2, <2>3 DEF NodeReports
<1>8. ASSUME NEW t \in Tasks, LinkReturns(t) PROVE TaskOK'
  <2>1. lease' = lease /\ task[t].op = "idle" BY <1>8 DEF LinkReturns
  <2>2. CASE task' = task BY <1>0, <2>1, <2>2 DEF TaskOK
  <2>3. CASE task' = [task EXCEPT ![t] = [Idle EXCEPT !.op = "death", !.pc = "check", !.key = pane.key]]
    BY <1>0, <1>d, <1>k, <2>1, <2>3, EntryStep
  <2>4. CASE Begins(t, "census", "fold")
    BY <1>0, <2>1, <2>4, BeginsStep DEF InItsProgram, Ops, Pcs
  <2> QED BY <1>8, <2>2, <2>3, <2>4 DEF LinkReturns, Begins
<1>9. ASSUME NEW t \in Tasks, Mint(t) PROVE TaskOK'
  <2> DEFINE r == [task[t] EXCEPT !.key = minted + 1, !.pc = "link"]
  <2>1. minted + 1 \in Keys BY <1>k, <1>9, BoundsAssumption DEF Mint, Keys
  <2>2. r \in TaskRec /\ r.op = task[t].op /\ r.pc = "link" BY <1>e, <2>1 DEF TaskRec, Pcs
  <2>3. InItsProgram(r) BY <1>e, <1>9, <2>2 DEF Mint, InItsProgram, Reviving
  <2>4. task' = [task EXCEPT ![t] = r] /\ lease' = lease BY <1>0, <1>9 DEF Mint, TaskOK
  <2> QED BY <1>0, <2>2, <2>3, <2>4, EntryStep
<1>10. ASSUME NEW t \in Tasks, Link(t) PROVE TaskOK'
  <2>1. task[t].op \in {"create", "restart", "death"} BY <1>e, <1>10 DEF Link, InItsProgram, Reviving
  <2> QED BY <1>0, <1>10, <2>1, GotoStep DEF Link, InItsProgram, Reviving, Pcs
<1>11. ASSUME NEW t \in Tasks, LaunchSucceeds(t) PROVE TaskOK'
  <2>1. task[t].op \in {"create", "restart", "death"} BY <1>e, <1>11
      DEF LaunchSucceeds, InItsProgram, Reviving
  <2> QED BY <1>0, <1>11, <2>1, GotoStep DEF LaunchSucceeds, InItsProgram, Reviving, Pcs
<1>12. ASSUME NEW t \in Tasks, LaunchRefused(t) PROVE TaskOK'
  <2>1. task[t].op \in {"create", "restart", "death"} BY <1>e, <1>12
      DEF LaunchRefused, InItsProgram, Reviving
  <2> QED BY <1>0, <1>12, <2>1, GotoStep DEF LaunchRefused, InItsProgram, Reviving, Pcs
<1>13. ASSUME NEW t \in Tasks, LaunchBreaks(t) PROVE TaskOK'
  <2>1. task[t].op \in {"create", "restart", "death"} BY <1>e, <1>13
      DEF LaunchBreaks, InItsProgram, Reviving
  <2> QED BY <1>0, <1>13, <2>1, GotoStep DEF LaunchBreaks, InItsProgram, Reviving, Pcs
<1>14. ASSUME NEW t \in Tasks, Settle(t) PROVE TaskOK'
  <2>1. task[t].op \in {"create"} BY <1>e, <1>14 DEF Settle, InItsProgram, Reviving
  <2> QED BY <1>0, <1>14, <2>1, FinishesStep, GotoStep DEF Settle, InItsProgram, Reviving, Pcs
<1>15. ASSUME NEW t \in Tasks, UnwindCreate(t) PROVE TaskOK'
  <2>1. task[t].op \in {"create"} BY <1>e, <1>15 DEF UnwindCreate, InItsProgram, Reviving
  <2> QED BY <1>0, <1>15, <2>1, GotoStep DEF UnwindCreate, InItsProgram, Reviving, Pcs
<1>16. ASSUME NEW t \in Tasks, Mark(t) PROVE TaskOK'
  <2>1. task[t].op \in {"create", "restart", "stop"} BY <1>e, <1>16 DEF Mark, InItsProgram, Reviving
  <2> QED BY <1>0, <1>16, <2>1, GotoStep DEF Mark, InItsProgram, Reviving, Pcs
<1>17. ASSUME NEW t \in Tasks, Retire(t) PROVE TaskOK'
  <2>1. task[t].op \in {"create", "restart", "death", "stop"} BY <1>e, <1>17
      DEF Retire, InItsProgram, Reviving
  <2> QED BY <1>0, <1>17, <2>1, FinishesStep, GotoStep DEF Retire, InItsProgram, Reviving, Pcs
<1>18. ASSUME NEW t \in Tasks, KillOld(t) PROVE TaskOK'
  <2>1. task[t].op \in {"restart"} BY <1>e, <1>18 DEF KillOld, InItsProgram, Reviving
  <2> QED BY <1>0, <1>18, <2>1, FinishesStep, GotoStep DEF KillOld, InItsProgram, Reviving, Pcs
<1>19. ASSUME NEW t \in Tasks, Park(t) PROVE TaskOK'
  <2>1. task[t].op = "restart" BY <1>e, <1>19 DEF Park, InItsProgram, Reviving
  <2>2. CASE Begins(t, "restart", "revoke") /\ lease' = lease
    BY <1>0, <2>1, <2>2, BeginsStep DEF InItsProgram, Reviving, Ops, Pcs
  <2>3. CASE Finishes(t) BY <1>0, <2>3, FinishesStep
  <2> QED BY <1>19, <2>2, <2>3 DEF Park
<1>20. ASSUME NEW t \in Tasks, UnwindRestart(t) PROVE TaskOK'
  <2>1. task[t].op \in {"restart"} BY <1>e, <1>20 DEF UnwindRestart, InItsProgram, Reviving
  <2> QED BY <1>0, <1>20, <2>1, GotoStep DEF UnwindRestart, InItsProgram, Reviving, Pcs
<1>21. ASSUME NEW t \in Tasks, CannotCompose(t) PROVE TaskOK'
  <2>1. task[t].op \in {"restart", "death"} BY <1>e, <1>21 DEF CannotCompose, InItsProgram, Reviving
  <2> QED BY <1>0, <1>21, <2>1, GotoStep DEF CannotCompose, InItsProgram, Reviving, Pcs
<1>22. ASSUME NEW t \in Tasks, RotateKey(t) PROVE TaskOK'
  <2>1. task[t].op \in {"restart", "death"} BY <1>e, <1>22 DEF RotateKey, InItsProgram, Reviving
  <2> QED BY <1>0, <1>22, <2>1, GotoStep DEF RotateKey, InItsProgram, Reviving, Pcs
<1>23. ASSUME NEW t \in Tasks, Look(t) PROVE TaskOK'
  <2>1. task[t].op \in {"restart", "death"} BY <1>e, <1>23 DEF Look, InItsProgram, Reviving
  <2> QED BY <1>0, <1>23, <2>1, GotoStep DEF Look, InItsProgram, Reviving, Pcs
<1>24. ASSUME NEW t \in Tasks, Revive(t) PROVE TaskOK'
  <2>1. task[t].op \in {"restart", "death"} BY <1>e, <1>24 DEF Revive, InItsProgram, Reviving
  <2> QED BY <1>0, <1>24, <2>1, FinishesStep, GotoStep DEF Revive, InItsProgram, Reviving, Pcs
<1>25. ASSUME NEW t \in Tasks, KillOrphan(t) PROVE TaskOK'
  <2>1. task[t].op \in {"create", "restart", "death"} BY <1>e, <1>25
      DEF KillOrphan, InItsProgram, Reviving
  <2> QED BY <1>0, <1>25, <2>1, GotoStep DEF KillOrphan, InItsProgram, Reviving, Pcs
<1>26. ASSUME NEW t \in Tasks, StopKills(t) PROVE TaskOK'
  <2>1. task[t].op \in {"stop"} BY <1>e, <1>26 DEF StopKills, InItsProgram, Reviving
  <2> QED BY <1>0, <1>26, <2>1, GotoStep DEF StopKills, InItsProgram, Reviving, Pcs
<1>27. ASSUME NEW t \in Tasks, KillFails(t) PROVE TaskOK'
  BY <1>0, <1>27, FinishesStep DEF KillFails
<1>28. ASSUME NEW t \in Tasks, StopClaims(t) PROVE TaskOK'
  <2>1. task[t].op \in {"stop"} BY <1>e, <1>28 DEF StopClaims, InItsProgram, Reviving
  <2> QED BY <1>0, <1>28, <2>1, GotoStep DEF StopClaims, InItsProgram, Reviving, Pcs
<1>29. ASSUME NEW t \in Tasks, DeleteKills(t) PROVE TaskOK'
  <2>1. task[t].op \in {"delete"} BY <1>e, <1>29 DEF DeleteKills, InItsProgram, Reviving
  <2> QED BY <1>0, <1>29, <2>1, GotoStep DEF DeleteKills, InItsProgram, Reviving, Pcs
<1>30. ASSUME NEW t \in Tasks, DeleteRevokes(t) PROVE TaskOK'
  <2>1. task[t].op \in {"delete"} BY <1>e, <1>30 DEF DeleteRevokes, InItsProgram, Reviving
  <2> QED BY <1>0, <1>30, <2>1, GotoStep DEF DeleteRevokes, InItsProgram, Reviving, Pcs
<1>31. ASSUME NEW t \in Tasks, DeleteRow(t) PROVE TaskOK'
  <2>1. task[t].op \in {"delete"} BY <1>e, <1>31 DEF DeleteRow, InItsProgram, Reviving
  <2> QED BY <1>0, <1>31, <2>1, EndsStep DEF DeleteRow
<1>32. ASSUME NEW t \in Tasks, SweepRow(t) PROVE TaskOK'
  <2>1. task[t].op \in {"sweep"} BY <1>e, <1>32 DEF SweepRow, InItsProgram, Reviving
  <2> QED BY <1>0, <1>32, <2>1, GotoStep, EndsStep DEF SweepRow, InItsProgram, Reviving, Pcs
<1>33. ASSUME NEW t \in Tasks, Probe(t) PROVE TaskOK'
  <2>1. lease' = lease /\ task[t].op = "sweep" BY <1>e, <1>33 DEF Probe, InItsProgram, Reviving
  <2>2. CASE Goto(t, "patch") BY <1>0, <2>1, <2>2, GotoStep DEF InItsProgram, Pcs
  <2>3. CASE Begins(t, "sweep", "fold") BY <1>0, <2>1, <2>3, BeginsStep DEF InItsProgram, Ops, Pcs
  <2>4. CASE task' = [task EXCEPT ![t] = [Idle EXCEPT !.op = "death", !.pc = "check", !.key = pane.key]]
    BY <1>0, <1>d, <1>k, <2>1, <2>4, EntryStep
  <2>5. CASE Ends(t) BY <1>0, <2>1, <2>5, EndsStep
  <2> QED BY <1>33, <2>2, <2>3, <2>4, <2>5 DEF Probe
<1>34. ASSUME NEW t \in Tasks, PatchAlive(t) PROVE TaskOK'
  <2>1. task[t].op \in {"sweep"} BY <1>e, <1>34 DEF PatchAlive, InItsProgram, Reviving
  <2> QED BY <1>0, <1>34, <2>1, EndsStep DEF PatchAlive
<1>35. ASSUME NEW t \in Tasks, FoldAlive(t) PROVE TaskOK'
  <2>1. task[t].op \in {"sweep", "census"} BY <1>e, <1>35 DEF FoldAlive, InItsProgram, Reviving
  <2> QED BY <1>0, <1>35, <2>1, GotoStep, EndsStep DEF FoldAlive, InItsProgram, Reviving, Pcs
<1>36. ASSUME NEW t \in Tasks, BestEffortKill(t) PROVE TaskOK'
  <2>1. task[t].op \in {"sweep", "census"} BY <1>e, <1>36 DEF BestEffortKill, InItsProgram, Reviving
  <2> QED BY <1>0, <1>36, <2>1, EndsStep DEF BestEffortKill
<1>37. ASSUME NEW t \in Tasks, CheckLease(t) PROVE TaskOK'
  <2>1. task[t].op \in {"death"} BY <1>e, <1>37 DEF CheckLease, InItsProgram, Reviving
  <2> QED BY <1>0, <1>37, <2>1, GotoStep, EndsStep DEF CheckLease, InItsProgram, Reviving, Pcs
<1>38. ASSUME NEW t \in Tasks, FreshRow(t) PROVE TaskOK'
  <2>1. lease' = lease /\ task[t].op = "death" BY <1>38 DEF FreshRow
  <2>2. CASE Ends(t) BY <1>0, <2>1, <2>2, EndsStep
  <2>3. CASE ~Ends(t)
    <3> DEFINE pc == IF row.alive THEN "claim" ELSE IF MayRestart THEN "schedule" ELSE "settled"
               r == [Idle EXCEPT !.op = "death", !.backoff = row.backoff, !.pc = pc]
    <3>1. pc \in {"claim", "schedule", "settled"} OBVIOUS
    <3> HIDE DEF pc
    <3>2. r \in TaskRec /\ r.op = "death" /\ r.pc = pc BY <1>k, <3>1, IdleEntry
        DEF TaskRec, Ops, Pcs, Idle
    <3>3. InItsProgram(r) BY <3>1, <3>2 DEF InItsProgram, Reviving
    <3>4. task' = [task EXCEPT ![t] = r] BY <1>38, <2>3 DEF FreshRow, pc
    <3> QED BY <1>0, <2>1, <3>2, <3>3, <3>4, EntryStep
  <2> QED BY <2>2, <2>3
<1>39. ASSUME NEW t \in Tasks, ClaimDeath(t) PROVE TaskOK'
  <2>1. task[t].op \in {"death"} BY <1>e, <1>39 DEF ClaimDeath, InItsProgram, Reviving
  <2> QED BY <1>0, <1>39, <2>1, GotoStep DEF ClaimDeath, InItsProgram, Reviving, Pcs
<1>40. ASSUME NEW t \in Tasks, Schedule(t) PROVE TaskOK'
  <2>1. task[t].op \in {"death"} BY <1>e, <1>40 DEF Schedule, InItsProgram, Reviving
  <2> QED BY <1>0, <1>40, <2>1, GotoStep DEF Schedule, InItsProgram, Reviving, Pcs
<1>41. ASSUME NEW t \in Tasks, Defer(t) PROVE TaskOK'
  <2>1. task[t].op \in {"death"} BY <1>e, <1>41 DEF Defer, InItsProgram, Reviving
  <2> QED BY <1>0, <1>41, <2>1, GotoStep DEF Defer, InItsProgram, Reviving, Pcs
<1>42. ASSUME NEW t \in Tasks, AutoRestart(t) PROVE TaskOK'
  <2> DEFINE r == [task[t] EXCEPT !.pc = "revoke", !.next = row.backoff + 1]
  <2>1. row.backoff + 1 \in Nat BY <1>k
  <2>2. r \in TaskRec /\ r.op = task[t].op /\ r.pc = "revoke" BY <1>e, <2>1 DEF TaskRec, Pcs
  <2>3. task[t].op = "death" BY <1>e, <1>42 DEF AutoRestart, InItsProgram, Reviving
  <2>4. InItsProgram(r) BY <2>2, <2>3 DEF InItsProgram, Reviving
  <2>5. task' = [task EXCEPT ![t] = r] /\ lease' = lease
    <3>1. task' = [task EXCEPT ![t].pc = "revoke", ![t].next = row.backoff + 1] /\ lease' = lease
      BY <1>42 DEF AutoRestart
    <3> QED BY <1>0, <3>1 DEF TaskOK
  <2> QED BY <1>0, <2>2, <2>4, <2>5, EntryStep
<1>43. ASSUME NEW t \in Tasks, UnwindAuto(t) PROVE TaskOK'
  <2>1. task[t].op \in {"death"} BY <1>e, <1>43 DEF UnwindAuto, InItsProgram, Reviving
  <2> QED BY <1>0, <1>43, <2>1, GotoStep DEF UnwindAuto, InItsProgram, Reviving, Pcs
<1>44. ASSUME NEW t \in Tasks, Bury(t) PROVE TaskOK'
  <2>1. task[t].op \in {"death"} BY <1>e, <1>44 DEF Bury, InItsProgram, Reviving
  <2> QED BY <1>0, <1>44, <2>1, GotoStep, EndsStep DEF Bury, InItsProgram, Reviving, Pcs
<1>45. ASSUME NEW t \in Tasks, Reap(t) PROVE TaskOK'
  <2>1. task[t].op \in {"death"} BY <1>e, <1>45 DEF Reap, InItsProgram, Reviving
  <2> QED BY <1>0, <1>45, <2>1, EndsStep DEF Reap
<1>46. ASSUME PaneDies PROVE TaskOK'
  BY <1>0, <1>46 DEF TaskOK, PaneDies
<1>47. ASSUME ReportIsLost PROVE TaskOK'
  BY <1>0, <1>47 DEF TaskOK, ReportIsLost
<1>48. ASSUME LinkDrops PROVE TaskOK'
  BY <1>0, <1>48 DEF TaskOK, LinkDrops
<1>49. ASSUME RetryFallsDue PROVE TaskOK'
  BY <1>0, <1>49 DEF TaskOK, RetryFallsDue
<1>50. ASSUME UNCHANGED vars PROVE TaskOK'
  BY <1>0, <1>50 DEF TaskOK, vars
<1> QED
  BY <1>1, <1>2, <1>3, <1>4, <1>5, <1>6, <1>7, <1>8, <1>9, <1>10, <1>11, <1>12, <1>13,
     <1>14, <1>15, <1>16, <1>17, <1>18, <1>19, <1>20, <1>21, <1>22, <1>23, <1>24, <1>25,
     <1>26, <1>27, <1>28, <1>29, <1>30, <1>31, <1>32, <1>33, <1>34, <1>35, <1>36, <1>37,
     <1>38, <1>39, <1>40, <1>41, <1>42, <1>43, <1>44, <1>45, <1>46, <1>47, <1>48, <1>49,
     <1>50
     DEF Next, Operation, Continue, Launching, Restarting, Stopping, Sweeping, Burying

\* The initial states are well typed.
LEMMA TypeInit == Init => TypeOK
  <1> SUFFICES ASSUME Init PROVE TypeOK OBVIOUS
  <1>1. TaskOK
    <2>1. task \in [Tasks -> TaskRec] BY IdleEntry DEF Init
    <2>2. \A t \in Tasks : task[t] = Idle /\ t # None BY NoneAssumption DEF Init
    <2>3. lease = None BY DEF Init
    <2> QED BY <2>1, <2>2, <2>3, IdleEntry DEF TaskOK
  <1>2. HostOK
    <2>1. drops \in 0..MaxDrops BY BoundsAssumption DEF Init
    <2>2. pane \in [is: {"none", "live", "dead"}, key: Keys \cup {NoKey}] BY DEF Init
    <2> QED BY <2>1, <2>2 DEF Init, HostOK
  <1>3. DbOK BY BoundsAssumption DEF Init, DbOK, NoRow, NoKey, Statuses
  <1> QED BY <1>1, <1>2, <1>3, Parts

\* Every reachable state is well typed: every task is at a step its operation
\* has, and the lease is held by a restart and by no other task.
THEOREM TypeCorrect == Spec => []TypeOK
  <1>1. TypeOK /\ [Next]_vars => TypeOK'
    <2> SUFFICES ASSUME TypeOK, [Next]_vars PROVE TypeOK' OBVIOUS
    <2>1. TaskOK' /\ HostOK' /\ DbOK' BY TaskStep, HostStep, DbStep
    <2> QED BY <2>1, Parts DEF TypeOK, TaskOK, HostOK, DbOK, TaskRec
  <1> QED BY TypeInit, <1>1, PTL DEF Spec

-----------------------------------------------------------------------------
(* No key outlives its row                                                 *)

\* A task that will revoke before it ends, unless the row is alive again by then.
Owes(r) ==
  \/ r.pc \in {"retire", "look"}
  \/ r.op = "create" /\ r.pc \in {"launch", "settle", "orphan", "unwind", "mark"}

\* The key a terminated row links to is disabled, or somebody owes a revoke.
KeyIsOwed == row.status = "terminated" /\ row.link \in enabled => \E t \in Tasks : Owes(task[t])

\* A key that is linked, or about to be, exists: the next one minted is no row's.
LinkedWasMinted ==
  /\ row.link \in 0..minted
  /\ \A t \in Tasks : At(t, "link") => task[t].key \in 0..minted

KeyInv == LinkedWasMinted /\ KeyIsOwed

\* A step that takes task t to r mints nothing, and if it leaves a terminated row
\* with an enabled key then t owes the revoke, or another task did before.
KeepsDebt(t, r) ==
  /\ r.pc # "link"
  /\ minted' = minted
  /\ enabled' \subseteq enabled
  /\ row'.link \in 0..minted
  /\ \/ Owes(r)
     \/ row'.status # "terminated"
     \/ row'.link \notin enabled'
     \/ row.status = "terminated" /\ row'.link = row.link /\ ~Owes(task[t])

\* A step that keeps the debt preserves the invariant.
LEMMA TaskMoves ==
  ASSUME TypeOK, KeyInv, NEW t \in Tasks, NEW r, task' = [task EXCEPT ![t] = r], KeepsDebt(t, r)
  PROVE  KeyInv'
  <1>1. task'[t] = r /\ \A u \in Tasks \ {t} : task'[u] = task[u] BY DEF TypeOK
  <1>2. LinkedWasMinted' BY <1>1 DEF KeyInv, LinkedWasMinted, KeepsDebt, At
  <1>3. SUFFICES ASSUME row'.status = "terminated" /\ row'.link \in enabled'
                 PROVE  \E u \in Tasks : Owes(task'[u])
    BY <1>2 DEF KeyInv, KeyIsOwed
  <1>4. CASE Owes(r) BY <1>1, <1>4
  <1>5. CASE ~Owes(r)
    <2>1. row.status = "terminated" /\ row.link \in enabled /\ ~Owes(task[t])
      BY <1>3, <1>5 DEF KeepsDebt
    <2>2. PICK u \in Tasks : Owes(task[u]) BY <2>1 DEF KeyInv, KeyIsOwed
    <2>3. u # t /\ Owes(task'[u]) BY <1>1, <2>1, <2>2
    <2> QED BY <2>3
  <1> QED BY <1>4, <1>5

\* The same, of a step within an operation.
LEMMA GotoMoves ==
  ASSUME TypeOK, KeyInv, NEW t \in Tasks, NEW pc, Goto(t, pc),
         KeepsDebt(t, [op |-> task[t].op, pc |-> pc])
  PROVE  KeyInv'
  <1> DEFINE r == [task[t] EXCEPT !.pc = pc]
  <1>1. r.op = task[t].op /\ r.pc = pc BY DEF TypeOK
  <1>2. task' = [task EXCEPT ![t] = r] BY DEF Goto, TypeOK
  <1>3. KeepsDebt(t, r) BY <1>1 DEF KeepsDebt, Owes
  <1> QED BY <1>2, <1>3, TaskMoves

\* The same, of an operation that ends.
LEMMA EndsMoves ==
  ASSUME TypeOK, KeyInv, NEW t \in Tasks, Ends(t), KeepsDebt(t, [op |-> "idle", pc |-> "end"])
  PROVE  KeyInv'
  <1>1. KeepsDebt(t, Idle) BY DEF KeepsDebt, Owes, Idle
  <1> QED BY <1>1, TaskMoves DEF Ends

\* A step that leaves the database alone, of a task that owes nothing.
LEMMA StartMoves ==
  ASSUME TypeOK, KeyInv, NEW t \in Tasks, NEW r, task' = [task EXCEPT ![t] = r],
         ~Owes(task[t]), r.pc # "link", UNCHANGED dbVars
  PROVE  KeyInv'
  <1>1. KeepsDebt(t, r) BY DEF KeepsDebt, Owes, KeyInv, LinkedWasMinted, dbVars
  <1> QED BY <1>1, TaskMoves

\* The same, of an operation that begins.
LEMMA BeginsMoves ==
  ASSUME TypeOK, KeyInv, NEW t \in Tasks, NEW op, NEW pc, Begins(t, op, pc),
         ~Owes(task[t]), pc # "link", UNCHANGED dbVars
  PROVE  KeyInv'
  <1> DEFINE r == [Idle EXCEPT !.op = op, !.pc = pc]
  <1>1. r.pc = pc BY DEF Idle
  <1> QED BY <1>1, StartMoves DEF Begins

\* A step that touches neither the database nor a task.
LEMMA StillMoves == ASSUME KeyInv, UNCHANGED <<dbVars, task>> PROVE KeyInv'
  BY DEF KeyInv, LinkedWasMinted, KeyIsOwed, dbVars, At

\* Every step keeps the debt.
LEMMA KeyStep == ASSUME TypeOK, KeyInv, [Next]_vars PROVE KeyInv'
<1> USE DEF At, AtAs, Free, hostVars, dbVars, fixed
<1>0. TypeOK /\ KeyInv OBVIOUS
<1>d. DbOK /\ row.link \in 0..minted BY Parts DEF KeyInv, LinkedWasMinted
<1>e. \A t \in Tasks : InItsProgram(task[t]) BY DEF TypeOK
<1>f. \A t \in Tasks : Free(t) => ~Owes(task[t]) BY <1>e DEF Owes, InItsProgram
<1>c. \A k : [Idle EXCEPT !.op = "death", !.pc = "check", !.key = k].pc # "link" BY DEF Idle
<1>1. ASSUME NEW t \in Tasks, Create(t) PROVE KeyInv'
  <2> DEFINE r == [Idle EXCEPT !.op = "create", !.pc = "mint"]
  <2>1. r.pc = "mint" BY DEF Idle
  <2>2. KeepsDebt(t, r) BY <1>d, <1>1, <2>1 DEF Create, KeepsDebt, DbOK
  <2> QED BY <1>0, <1>1, <2>2, TaskMoves DEF Create, Begins
<1>2. ASSUME NEW t \in Tasks, Restart(t) PROVE KeyInv'
  <2> DEFINE r == [Idle EXCEPT !.op = "restart", !.pc = "kill",
                                !.status = row.status, !.alive = row.alive]
  <2>1. r.pc = "kill" BY DEF Idle
  <2> QED BY <1>0, <1>f, <1>2, <2>1, StartMoves DEF Restart
<1>3. ASSUME NEW t \in Tasks, Stop(t) PROVE KeyInv'
  BY <1>0, <1>f, <1>3, BeginsMoves DEF Stop
<1>4. ASSUME NEW t \in Tasks, Delete(t) PROVE KeyInv'
  BY <1>0, <1>f, <1>4, BeginsMoves DEF Delete
<1>5. ASSUME NEW t \in Tasks, Sweep(t) PROVE KeyInv'
  <2> DEFINE r == [Idle EXCEPT !.op = "sweep", !.pc = "row",
                                !.alive = row.alive, !.backoff = row.backoff]
  <2>1. r.pc = "row" BY DEF Idle
  <2> QED BY <1>0, <1>f, <1>5, <2>1, StartMoves DEF Sweep
<1>6. ASSUME NEW t \in Tasks, Report(t) PROVE KeyInv'
  <2>1. UNCHANGED dbVars /\ ~Owes(task[t]) BY <1>f, <1>6 DEF Report
  <2>2. CASE task' = task BY <1>0, <2>1, <2>2, StillMoves
  <2>3. CASE \E k \in hooks :
               task' = [task EXCEPT ![t] = [Idle EXCEPT !.op = "death", !.pc = "check", !.key = k]]
    BY <1>0, <1>c, <2>1, <2>3, StartMoves
  <2> QED BY <1>6, <2>2, <2>3 DEF Report
<1>7. ASSUME NEW t \in Tasks, NodeReports(t) PROVE KeyInv'
  <2>1. UNCHANGED dbVars /\ ~Owes(task[t]) BY <1>f, <1>7 DEF NodeReports
  <2>2. CASE task' = task BY <1>0, <2>1, <2>2, StillMoves
  <2>3. CASE task' = [task EXCEPT ![t] = [Idle EXCEPT !.op = "death", !.pc = "check", !.key = pane.key]]
    BY <1>0, <1>c, <2>1, <2>3, StartMoves
  <2> QED BY <1>7, <2>2, <2>3 DEF NodeReports
<1>8. ASSUME NEW t \in Tasks, LinkReturns(t) PROVE KeyInv'
  <2>1. UNCHANGED dbVars /\ ~Owes(task[t]) BY <1>f, <1>8 DEF LinkReturns
  <2>2. CASE task' = task BY <1>0, <2>1, <2>2, StillMoves
  <2>3. CASE task' = [task EXCEPT ![t] = [Idle EXCEPT !.op = "death", !.pc = "check", !.key = pane.key]]
    BY <1>0, <1>c, <2>1, <2>3, StartMoves
  <2>4. CASE Begins(t, "census", "fold") BY <1>0, <2>1, <2>4, BeginsMoves
  <2> QED BY <1>8, <2>2, <2>3, <2>4 DEF LinkReturns, Begins
<1>9. ASSUME NEW t \in Tasks, Mint(t) PROVE KeyInv'
  <2> DEFINE r == [task[t] EXCEPT !.key = minted + 1, !.pc = "link"]
  <2>1. /\ minted' = minted + 1 /\ minted' \in Nat /\ minted \in Nat /\ row' = row
        /\ enabled' = enabled \cup {minted + 1} /\ row.link # minted + 1
    BY <1>9, <1>d DEF Mint, DbOK
  <2>2. task' = [task EXCEPT ![t] = r] BY <1>9, <1>0 DEF Mint, TypeOK
  <2>3. task'[t].key = minted' /\ task'[t].pc = "link" BY <2>1, <2>2, <1>0 DEF TypeOK
  <2>4. \A u \in Tasks \ {t} : task'[u] = task[u] BY <2>2, <1>0 DEF TypeOK
  <2>5. LinkedWasMinted'
    <3>1. row'.link \in 0..minted' BY <1>d, <2>1
    <3>2. ASSUME NEW u \in Tasks, task'[u].pc = "link" PROVE task'[u].key \in 0..minted'
      <4>1. CASE u = t BY <2>1, <2>3, <4>1
      <4>2. CASE u # t BY <1>0, <2>1, <2>4, <3>2, <4>2 DEF KeyInv, LinkedWasMinted
      <4> QED BY <4>1, <4>2
    <3> QED BY <3>1, <3>2 DEF LinkedWasMinted
  <2>6. ~Owes(task[t]) BY <1>9, <1>e DEF Mint, Owes, InItsProgram, Reviving
  <2>7. KeyIsOwed'
    <3>1. SUFFICES ASSUME row.status = "terminated" /\ row.link \in enabled
                   PROVE  \E u \in Tasks : Owes(task'[u])
      BY <2>1 DEF KeyIsOwed
    <3>2. PICK u \in Tasks : Owes(task[u]) BY <1>0, <3>1 DEF KeyInv, KeyIsOwed
    <3> QED BY <2>4, <2>6, <3>2
  <2> QED BY <2>5, <2>7 DEF KeyInv
<1>10. ASSUME NEW t \in Tasks, Link(t) PROVE KeyInv'
  <2>1. row'.link \in 0..minted BY <1>0, <1>d, <1>10 DEF Link, RowBecomes, KeyInv, LinkedWasMinted, DbOK
  <2>2. CASE task[t].op = "create" BY <1>0, <1>10, <2>1, <2>2, GotoMoves DEF Link, KeepsDebt, Owes
  <2>3. CASE task[t].op # "create" BY <1>0, <1>10, <2>1, <2>3, GotoMoves DEF Link, KeepsDebt, Owes
  <2> QED BY <2>2, <2>3
<1>11. ASSUME NEW t \in Tasks, LaunchSucceeds(t) PROVE KeyInv'
  BY <1>0, <1>d, <1>e, <1>11, GotoMoves DEF LaunchSucceeds, KeepsDebt, Owes, InItsProgram, Reviving
<1>12. ASSUME NEW t \in Tasks, LaunchRefused(t) PROVE KeyInv'
  BY <1>0, <1>d, <1>e, <1>12, GotoMoves DEF LaunchRefused, KeepsDebt, Owes, InItsProgram, Reviving
<1>13. ASSUME NEW t \in Tasks, LaunchBreaks(t) PROVE KeyInv'
  BY <1>0, <1>d, <1>e, <1>13, GotoMoves DEF LaunchBreaks, KeepsDebt, Owes, InItsProgram, Reviving
<1>14. ASSUME NEW t \in Tasks, Settle(t) PROVE KeyInv'
  BY <1>0, <1>d, <1>e, <1>14, GotoMoves, EndsMoves
      DEF Settle, KeepsDebt, Owes, Running, Exists, DbOK, Finishes, InItsProgram, Reviving
<1>15. ASSUME NEW t \in Tasks, UnwindCreate(t) PROVE KeyInv'
  BY <1>0, <1>d, <1>e, <1>15, GotoMoves DEF UnwindCreate, KeepsDebt, Owes, InItsProgram, Reviving
<1>16. ASSUME NEW t \in Tasks, Mark(t) PROVE KeyInv'
  BY <1>0, <1>d, <1>e, <1>16, GotoMoves
      DEF Mark, KeepsDebt, Owes, RowBecomes, Exists, DbOK, InItsProgram, Reviving
<1>17. ASSUME NEW t \in Tasks, Retire(t) PROVE KeyInv'
  BY <1>0, <1>d, <1>e, <1>17, GotoMoves, EndsMoves
      DEF Retire, KeepsDebt, Owes, Revoked, Exists, Finishes, InItsProgram, Reviving
<1>18. ASSUME NEW t \in Tasks, KillOld(t) PROVE KeyInv'
  BY <1>0, <1>d, <1>e, <1>18, GotoMoves, EndsMoves
      DEF KillOld, KeepsDebt, Owes, Finishes, InItsProgram, Reviving
<1>19. ASSUME NEW t \in Tasks, Park(t) PROVE KeyInv'
  <2>1. CASE AsRead(t)
    <3> DEFINE r == [Idle EXCEPT !.op = "restart", !.pc = "revoke"]
    <3>1. r.pc = "revoke" BY DEF Idle
    <3>2. KeepsDebt(t, r) BY <1>d, <1>19, <2>1, <3>1 DEF Park, KeepsDebt, DbOK
    <3>3. task' = [task EXCEPT ![t] = r] BY <1>19, <2>1 DEF Park, Begins
    <3> QED BY <1>0, <3>2, <3>3, TaskMoves
  <2>2. CASE ~AsRead(t)
    BY <1>0, <1>d, <1>e, <1>19, <2>2, EndsMoves
        DEF Park, Finishes, KeepsDebt, Owes, InItsProgram, Reviving
  <2> QED BY <2>1, <2>2
<1>20. ASSUME NEW t \in Tasks, UnwindRestart(t) PROVE KeyInv'
  BY <1>0, <1>d, <1>e, <1>20, GotoMoves DEF UnwindRestart, KeepsDebt, Owes, InItsProgram, Reviving
<1>21. ASSUME NEW t \in Tasks, CannotCompose(t) PROVE KeyInv'
  BY <1>0, <1>d, <1>e, <1>21, GotoMoves DEF CannotCompose, KeepsDebt, Owes, InItsProgram, Reviving
<1>22. ASSUME NEW t \in Tasks, RotateKey(t) PROVE KeyInv'
  BY <1>0, <1>d, <1>e, <1>22, GotoMoves
      DEF RotateKey, KeepsDebt, Owes, Revoked, Exists, InItsProgram, Reviving
<1>23. ASSUME NEW t \in Tasks, Look(t) PROVE KeyInv'
  BY <1>0, <1>d, <1>e, <1>23, GotoMoves
      DEF Look, KeepsDebt, Owes, Running, Exists, DbOK, InItsProgram, Reviving
<1>24. ASSUME NEW t \in Tasks, Revive(t) PROVE KeyInv'
  BY <1>0, <1>d, <1>e, <1>24, GotoMoves, EndsMoves
      DEF Revive, KeepsDebt, Owes, Running, Exists, DbOK, Finishes, InItsProgram, Reviving
<1>25. ASSUME NEW t \in Tasks, KillOrphan(t) PROVE KeyInv'
  BY <1>0, <1>d, <1>e, <1>25, GotoMoves DEF KillOrphan, KeepsDebt, Owes, InItsProgram, Reviving
<1>26. ASSUME NEW t \in Tasks, StopKills(t) PROVE KeyInv'
  BY <1>0, <1>d, <1>e, <1>26, GotoMoves DEF StopKills, KeepsDebt, Owes, InItsProgram, Reviving
<1>27. ASSUME NEW t \in Tasks, KillFails(t) PROVE KeyInv'
  BY <1>0, <1>d, <1>e, <1>27, EndsMoves DEF KillFails, KeepsDebt, Owes, Finishes, InItsProgram, Reviving
<1>28. ASSUME NEW t \in Tasks, StopClaims(t) PROVE KeyInv'
  BY <1>0, <1>d, <1>e, <1>28, GotoMoves
      DEF StopClaims, KeepsDebt, Owes, RowBecomes, Exists, DbOK, InItsProgram, Reviving
<1>29. ASSUME NEW t \in Tasks, DeleteKills(t) PROVE KeyInv'
  BY <1>0, <1>d, <1>e, <1>29, GotoMoves DEF DeleteKills, KeepsDebt, Owes, InItsProgram, Reviving
<1>30. ASSUME NEW t \in Tasks, DeleteRevokes(t) PROVE KeyInv'
  BY <1>0, <1>d, <1>e, <1>30, GotoMoves
      DEF DeleteRevokes, KeepsDebt, Owes, Revoked, Exists, InItsProgram, Reviving
<1>31. ASSUME NEW t \in Tasks, DeleteRow(t) PROVE KeyInv'
  <2>1. row'.status # "terminated" /\ row'.link \in 0..minted
    BY <1>d, <1>31 DEF DeleteRow, NoRow, NoKey, DbOK
  <2> QED BY <1>0, <1>31, <2>1, EndsMoves DEF DeleteRow, KeepsDebt
<1>32. ASSUME NEW t \in Tasks, SweepRow(t) PROVE KeyInv'
  BY <1>0, <1>d, <1>e, <1>32, GotoMoves, EndsMoves
      DEF SweepRow, KeepsDebt, Owes, Finishes, InItsProgram, Reviving
<1>33. ASSUME NEW t \in Tasks, Probe(t) PROVE KeyInv'
  <2>1. UNCHANGED dbVars /\ ~Owes(task[t]) BY <1>e, <1>33 DEF Probe, Owes, InItsProgram
  <2>2. CASE Goto(t, "patch")
    <3>1. KeepsDebt(t, [op |-> task[t].op, pc |-> "patch"]) BY <1>d, <2>1 DEF KeepsDebt
    <3> QED BY <1>0, <2>2, <3>1, GotoMoves
  <2>3. CASE Begins(t, "sweep", "fold") BY <1>0, <2>1, <2>3, BeginsMoves
  <2>4. CASE task' = [task EXCEPT ![t] = [Idle EXCEPT !.op = "death", !.pc = "check", !.key = pane.key]]
    BY <1>0, <1>c, <2>1, <2>4, StartMoves
  <2>5. CASE Ends(t)
    <3>1. KeepsDebt(t, [op |-> "idle", pc |-> "end"]) BY <1>d, <2>1 DEF KeepsDebt
    <3> QED BY <1>0, <2>5, <3>1, EndsMoves
  <2> QED BY <1>33, <2>2, <2>3, <2>4, <2>5 DEF Probe
<1>34. ASSUME NEW t \in Tasks, PatchAlive(t) PROVE KeyInv'
  BY <1>0, <1>d, <1>e, <1>34, EndsMoves
      DEF PatchAlive, KeepsDebt, Owes, RowBecomes, Exists, DbOK, InItsProgram, Reviving
<1>35. ASSUME NEW t \in Tasks, FoldAlive(t) PROVE KeyInv'
  BY <1>0, <1>d, <1>e, <1>35, GotoMoves, EndsMoves
      DEF FoldAlive, KeepsDebt, Owes, Running, Exists, DbOK, Finishes, InItsProgram, Reviving
<1>36. ASSUME NEW t \in Tasks, BestEffortKill(t) PROVE KeyInv'
  BY <1>0, <1>d, <1>e, <1>36, EndsMoves DEF BestEffortKill, KeepsDebt, Owes, InItsProgram, Reviving
<1>37. ASSUME NEW t \in Tasks, CheckLease(t) PROVE KeyInv'
  BY <1>0, <1>d, <1>e, <1>37, GotoMoves, EndsMoves
      DEF CheckLease, KeepsDebt, Owes, Finishes, InItsProgram, Reviving
<1>38. ASSUME NEW t \in Tasks, FreshRow(t) PROVE KeyInv'
  <2>1. UNCHANGED dbVars /\ ~Owes(task[t]) BY <1>38 DEF FreshRow, Owes
  <2> DEFINE pc == IF row.alive THEN "claim" ELSE IF MayRestart THEN "schedule" ELSE "settled"
             r == [Idle EXCEPT !.op = "death", !.backoff = row.backoff, !.pc = pc]
  <2>2. CASE Ends(t)
    <3>1. KeepsDebt(t, [op |-> "idle", pc |-> "end"]) BY <1>d, <2>1 DEF KeepsDebt
    <3> QED BY <1>0, <2>2, <3>1, EndsMoves
  <2>3. CASE ~Ends(t)
    <3>1. pc # "link" OBVIOUS
    <3> HIDE DEF pc
    <3>2. r.pc # "link" BY <3>1 DEF Idle
    <3>3. task' = [task EXCEPT ![t] = r] BY <1>38, <2>3 DEF FreshRow, pc
    <3> QED BY <1>0, <2>1, <3>2, <3>3, StartMoves
  <2> QED BY <2>2, <2>3
<1>39. ASSUME NEW t \in Tasks, ClaimDeath(t) PROVE KeyInv'
  <2>1. row'.status = row.status /\ row'.link = row.link BY <1>d, <1>39 DEF ClaimDeath, DbOK
  <2> QED BY <1>0, <1>d, <1>39, <2>1, GotoMoves DEF ClaimDeath, KeepsDebt, Owes
<1>40. ASSUME NEW t \in Tasks, Schedule(t) PROVE KeyInv'
  BY <1>0, <1>d, <1>e, <1>40, GotoMoves
      DEF Schedule, KeepsDebt, Owes, RowBecomes, Exists, DbOK, InItsProgram, Reviving
<1>41. ASSUME NEW t \in Tasks, Defer(t) PROVE KeyInv'
  BY <1>0, <1>d, <1>e, <1>41, GotoMoves DEF Defer, KeepsDebt, Owes, InItsProgram, Reviving
<1>42. ASSUME NEW t \in Tasks, AutoRestart(t) PROVE KeyInv'
  <2> DEFINE r == [task[t] EXCEPT !.pc = "revoke", !.next = row.backoff + 1]
  <2>1. r.pc = "revoke" BY <1>0 DEF TypeOK
  <2>2. ~Owes(task[t]) BY <1>e, <1>42 DEF AutoRestart, Owes, InItsProgram
  <2>3. task' = [task EXCEPT ![t] = r]
    <3>1. task' = [task EXCEPT ![t].pc = "revoke", ![t].next = row.backoff + 1]
      BY <1>42 DEF AutoRestart
    <3> QED BY <1>0, <3>1 DEF TypeOK
  <2> QED BY <1>0, <1>42, <2>1, <2>2, <2>3, StartMoves DEF AutoRestart
<1>43. ASSUME NEW t \in Tasks, UnwindAuto(t) PROVE KeyInv'
  BY <1>0, <1>d, <1>e, <1>43, GotoMoves
      DEF UnwindAuto, KeepsDebt, Owes, RowBecomes, Exists, DbOK, InItsProgram, Reviving
<1>44. ASSUME NEW t \in Tasks, Bury(t) PROVE KeyInv'
  BY <1>0, <1>d, <1>e, <1>44, GotoMoves, EndsMoves
      DEF Bury, KeepsDebt, Owes, Revoked, Exists, Finishes, InItsProgram, Reviving
<1>45. ASSUME NEW t \in Tasks, Reap(t) PROVE KeyInv'
  BY <1>0, <1>d, <1>e, <1>45, EndsMoves DEF Reap, KeepsDebt, Owes, InItsProgram, Reviving
<1>46. ASSUME PaneDies PROVE KeyInv'
  BY <1>0, <1>d, <1>46, StillMoves DEF PaneDies
<1>47. ASSUME ReportIsLost PROVE KeyInv'
  BY <1>0, <1>d, <1>47, StillMoves DEF ReportIsLost
<1>48. ASSUME LinkDrops PROVE KeyInv'
  BY <1>0, <1>d, <1>48, StillMoves DEF LinkDrops
<1>49. ASSUME RetryFallsDue PROVE KeyInv'
  <2>1. row'.status = row.status /\ row'.link = row.link BY <1>d, <1>49 DEF RetryFallsDue, DbOK
  <2> QED BY <1>0, <1>49, <2>1 DEF RetryFallsDue, KeyInv, LinkedWasMinted, KeyIsOwed
<1>50. ASSUME UNCHANGED vars PROVE KeyInv'
  BY <1>0, <1>50, StillMoves DEF vars
<1> QED
  BY <1>1, <1>2, <1>3, <1>4, <1>5, <1>6, <1>7, <1>8, <1>9, <1>10, <1>11, <1>12, <1>13,
     <1>14, <1>15, <1>16, <1>17, <1>18, <1>19, <1>20, <1>21, <1>22, <1>23, <1>24, <1>25,
     <1>26, <1>27, <1>28, <1>29, <1>30, <1>31, <1>32, <1>33, <1>34, <1>35, <1>36, <1>37,
     <1>38, <1>39, <1>40, <1>41, <1>42, <1>43, <1>44, <1>45, <1>46, <1>47, <1>48, <1>49,
     <1>50
     DEF Next, Operation, Continue, Launching, Restarting, Stopping, Sweeping, Burying

\* A subshell that is not running and that nobody works on opens no door with any
\* key, whatever stops, deletes, restarts, deaths and sweeps ran beside each other
\* and however many launches there were: between the write that ended it and the
\* revoke, somebody owes the revoke, and an idle task owes nothing.
THEOREM KeysDie == Spec => []NoKeyOutlivesItsRow
  <1>1. Init => KeyInv
    BY BoundsAssumption DEF Init, KeyInv, LinkedWasMinted, KeyIsOwed, NoRow, NoKey, Idle, At
  <1>2. TypeOK /\ KeyInv /\ [Next]_vars => KeyInv' BY KeyStep
  <1>3. TypeOK /\ KeyInv => NoKeyOutlivesItsRow
    <2> SUFFICES ASSUME TypeOK, KeyInv, Quiet, ~Running, NEW k \in Keys, Accepts(k) PROVE FALSE
      BY DEF NoKeyOutlivesItsRow
    <2>1. row.status = "terminated" /\ row.link \in enabled BY DEF Accepts, Exists, Running
    <2>2. PICK t \in Tasks : Owes(task[t]) BY <2>1 DEF KeyInv, KeyIsOwed
    <2>3. task[t].op = "idle" /\ InItsProgram(task[t]) BY DEF Quiet, Free, TypeOK
    <2> QED BY <2>2, <2>3 DEF Owes, InItsProgram
  <1> QED BY <1>1, <1>2, <1>3, TypeCorrect, PTL DEF Spec

-----------------------------------------------------------------------------
(* What the launchers, the keys and the pane have to do with each other    *)

\* What a step makes of one task.
Turns(t, o, p) ==
  /\ task'[t].op = o /\ task'[t].pc = p
  /\ \A u \in Tasks \ {t} : task'[u] = task[u]

\* A step within an operation.
LEMMA GotoIs ==
  ASSUME TypeOK, NEW t \in Tasks, NEW pc, Goto(t, pc)
  PROVE  /\ Turns(t, task[t].op, pc)
         /\ task'[t].key = task[t].key /\ task'[t].alive = task[t].alive /\ task'[t].status = task[t].status
  BY DEF Goto, Turns, TypeOK

\* The end of an operation.
LEMMA EndsIs ==
  ASSUME TypeOK, NEW t \in Tasks, Ends(t)
  PROVE  Turns(t, "idle", "end") /\ task'[t].key = NoKey
  BY DEF Ends, Turns, TypeOK, Idle

\* The beginning of an operation.
LEMMA BeginsIs ==
  ASSUME TypeOK, NEW t \in Tasks, NEW op, NEW pc, Begins(t, op, pc)
  PROVE  Turns(t, op, pc) /\ task'[t].key = NoKey
  BY DEF Begins, Turns, TypeOK, Idle

\* The beginning of the death handler.
LEMMA DeathIs ==
  ASSUME TypeOK, NEW t \in Tasks, NEW k,
         task' = [task EXCEPT ![t] = [Idle EXCEPT !.op = "death", !.pc = "check", !.key = k]]
  PROVE  Turns(t, "death", "check") /\ task'[t].key = k
  BY DEF Turns, TypeOK, Idle

\* The end of an operation that may hold the lease.
LEMMA FinishesIs ==
  ASSUME TypeOK, NEW t \in Tasks, Finishes(t)
  PROVE  Turns(t, "idle", "end") /\ task'[t].key = NoKey
  BY EndsIs DEF Finishes

\* The operations that begin with what they read of the row.
LEMMA RestartIs ==
  ASSUME TypeOK, NEW t \in Tasks, Restart(t)
  PROVE  /\ Turns(t, "restart", "kill") /\ task'[t].key = NoKey
         /\ task'[t].status = row.status /\ task'[t].alive = row.alive
  BY DEF Restart, Turns, TypeOK, Idle

LEMMA SweepIs ==
  ASSUME TypeOK, NEW t \in Tasks, Sweep(t) PROVE Turns(t, "sweep", "row") /\ task'[t].key = NoKey
  BY DEF Sweep, Turns, TypeOK, Idle

\* The hook's report, the node's, and the node's return.
LEMMA ReportIs ==
  ASSUME TypeOK, NEW t \in Tasks, Report(t)
  PROVE  \E k \in hooks : /\ hooks' = hooks \ {k}
                          /\ \/ task' = task
                             \/ Turns(t, "death", "check") /\ task'[t].key = k /\ Running
  BY DeathIs DEF Report

LEMMA NodeReportsIs ==
  ASSUME TypeOK, NEW t \in Tasks, NodeReports(t)
  PROVE  \/ task' = task
         \/ Turns(t, "death", "check") /\ task'[t].key = pane.key /\ Running
  BY DeathIs DEF NodeReports

LEMMA LinkReturnsIs ==
  ASSUME TypeOK, NEW t \in Tasks, LinkReturns(t)
  PROVE  \/ pane.is = "none" /\ task' = task
         \/ pane.is = "dead" /\ Turns(t, "death", "check") /\ task'[t].key = pane.key
         \/ pane.is = "live" /\ Turns(t, "census", "fold") /\ task'[t].key = NoKey
  <1>1. CASE pane.is = "live"
    <2>1. Begins(t, "census", "fold") BY <1>1 DEF LinkReturns, Begins
    <2> QED BY <1>1, <2>1, BeginsIs
  <1>2. CASE pane.is = "dead" BY <1>2, DeathIs DEF LinkReturns
  <1>3. CASE pane.is = "none" BY <1>3 DEF LinkReturns
  <1> QED BY <1>1, <1>2, <1>3 DEF TypeOK

\* The probe's three answers.
LEMMA ProbeIs ==
  ASSUME TypeOK, NEW t \in Tasks, Probe(t)
  PROVE  \/ pane.is = "live" /\ place = "local" /\ Turns(t, task[t].op, "patch") /\ task'[t].key = task[t].key
         \/ pane.is = "live" /\ place # "local" /\ Turns(t, "sweep", "fold") /\ task'[t].key = NoKey
         \/ pane.is # "live" /\ Turns(t, "death", "check") /\ task'[t].key = pane.key
         \/ Turns(t, "idle", "end") /\ task'[t].key = NoKey
  BY GotoIs, BeginsIs, DeathIs, EndsIs DEF Probe

\* The steps that set more than the place.
LEMMA MintIs ==
  ASSUME TypeOK, NEW t \in Tasks, Mint(t)
  PROVE  Turns(t, task[t].op, "link") /\ task'[t].key = minted + 1
  BY DEF Mint, Turns, TypeOK

LEMMA ParkIs ==
  ASSUME TypeOK, NEW t \in Tasks, Park(t)
  PROVE  \/ AsRead(t) /\ Turns(t, "restart", "revoke") /\ task'[t].key = NoKey
         \/ ~AsRead(t) /\ Turns(t, "idle", "end") /\ task'[t].key = NoKey
  BY BeginsIs, FinishesIs DEF Park

LEMMA FreshRowIs ==
  ASSUME TypeOK, NEW t \in Tasks, FreshRow(t)
  PROVE  \/ Turns(t, "idle", "end") /\ task'[t].key = NoKey
         \/ /\ Turns(t, "death", task'[t].pc) /\ task'[t].key = NoKey
            /\ task'[t].pc \in {"claim", "schedule", "settled"}
  <1>1. CASE Running
    <2> DEFINE pc == IF row.alive THEN "claim" ELSE IF MayRestart THEN "schedule" ELSE "settled"
    <2>1. pc \in {"claim", "schedule", "settled"} OBVIOUS
    <2>2. task' = [task EXCEPT ![t] = [Idle EXCEPT !.op = "death", !.backoff = row.backoff, !.pc = pc]]
      BY <1>1 DEF FreshRow
    <2> HIDE DEF pc
    <2> QED BY <2>1, <2>2 DEF Turns, TypeOK, Idle
  <1>2. CASE ~Running BY <1>2, EndsIs DEF FreshRow
  <1> QED BY <1>1, <1>2

LEMMA AutoRestartIs ==
  ASSUME TypeOK, NEW t \in Tasks, AutoRestart(t)
  PROVE  Turns(t, task[t].op, "revoke") /\ task'[t].key = task[t].key
  BY DEF AutoRestart, Turns, TypeOK

\* A task that may spawn a pane.
Launcher(t) == task[t].op \in {"create", "restart"} \/ InDeathHandler(t)

\* Unless an exposed meeting took place, one task at a time may spawn a pane.
OneLauncher == ~exposed => \A t, u \in Tasks : Launcher(t) /\ Launcher(u) => t = u

\* Before the row is written nothing happens.
NothingYet == row.status = "none" => pane.is = "none" /\ hooks = {} /\ \A t \in Tasks : Free(t)

Launchers == OneLauncher /\ NothingYet

\* A step that makes no launcher keeps the launchers apart.
LEMMA NoNewLauncher ==
  ASSUME OneLauncher, NEW t \in Tasks, NEW o, NEW p, Turns(t, o, p), exposed => exposed',
         o \in {"create", "restart"} \/ (o = "death" /\ p # "check") => Launcher(t)
  PROVE  OneLauncher'
  BY DEF OneLauncher, Launcher, InDeathHandler, Turns

\* No step makes a second launcher but an exposed one.
LEMMA LauncherStep == ASSUME TypeOK, Launchers, [Next]_vars PROVE OneLauncher'
<1> USE DEF At, AtAs, Free, Exposes, hostVars, dbVars, fixed, Launcher, InDeathHandler
<1>0. TypeOK /\ OneLauncher /\ NothingYet BY DEF Launchers
<1>e. \A t \in Tasks : InItsProgram(task[t]) /\ (lease = t <=> task[t].op = "restart") /\ t # None
  BY NoneAssumption DEF TypeOK
<1>1. ASSUME NEW t \in Tasks, Create(t) PROVE OneLauncher'
  <2>1. Turns(t, "create", "mint") BY <1>0, <1>1, BeginsIs DEF Create
  <2>2. \A u \in Tasks : Free(u) BY <1>0, <1>1 DEF Create, NothingYet
  <2> QED BY <2>1, <2>2 DEF OneLauncher, Turns
<1>2. ASSUME NEW t \in Tasks, Restart(t) PROVE OneLauncher'
  <2>1. Turns(t, "restart", "kill") BY <1>0, <1>2, RestartIs
  <2>2. ~exposed' => ~MeetsUnleased /\ lease = None BY <1>2 DEF Restart
  <2>3. ~exposed' => \A u \in Tasks : ~Launcher(u) BY <1>e, <2>2 DEF MeetsUnleased
  <2> QED BY <2>1, <2>3 DEF OneLauncher, Turns
<1>3. ASSUME NEW t \in Tasks, Stop(t) PROVE OneLauncher'
  BY <1>0, <1>e, NoNewLauncher, GotoIs, EndsIs, BeginsIs, <1>3 DEF Stop
<1>4. ASSUME NEW t \in Tasks, Delete(t) PROVE OneLauncher'
  BY <1>0, <1>e, NoNewLauncher, GotoIs, EndsIs, BeginsIs, <1>4 DEF Delete
<1>5. ASSUME NEW t \in Tasks, Sweep(t) PROVE OneLauncher'
  BY <1>0, <1>e, NoNewLauncher, GotoIs, EndsIs, BeginsIs, <1>5, SweepIs DEF Sweep
<1>6. ASSUME NEW t \in Tasks, Report(t) PROVE OneLauncher'
  <2>1. exposed' = exposed BY <1>6 DEF Report
  <2>2. CASE task' = task BY <1>0, <2>1, <2>2 DEF OneLauncher
  <2>3. CASE Turns(t, "death", "check") BY <1>0, <2>1, <2>3, NoNewLauncher
  <2> QED BY <1>0, <1>6, <2>2, <2>3, ReportIs
<1>7. ASSUME NEW t \in Tasks, NodeReports(t) PROVE OneLauncher'
  BY <1>0, <1>e, NoNewLauncher, GotoIs, EndsIs, BeginsIs, <1>7, NodeReportsIs DEF NodeReports, OneLauncher
<1>8. ASSUME NEW t \in Tasks, LinkReturns(t) PROVE OneLauncher'
  BY <1>0, <1>e, NoNewLauncher, GotoIs, EndsIs, BeginsIs, <1>8, LinkReturnsIs DEF LinkReturns, OneLauncher
<1>9. ASSUME NEW t \in Tasks, Mint(t) PROVE OneLauncher'
  BY <1>0, <1>e, NoNewLauncher, GotoIs, EndsIs, BeginsIs, <1>9, MintIs DEF Mint
<1>10. ASSUME NEW t \in Tasks, Link(t) PROVE OneLauncher'
  BY <1>0, <1>e, NoNewLauncher, GotoIs, EndsIs, BeginsIs, <1>10 DEF Link
<1>11. ASSUME NEW t \in Tasks, LaunchSucceeds(t) PROVE OneLauncher'
  BY <1>0, <1>e, NoNewLauncher, GotoIs, EndsIs, BeginsIs, <1>11 DEF LaunchSucceeds
<1>12. ASSUME NEW t \in Tasks, LaunchRefused(t) PROVE OneLauncher'
  BY <1>0, <1>e, NoNewLauncher, GotoIs, EndsIs, BeginsIs, <1>12 DEF LaunchRefused
<1>13. ASSUME NEW t \in Tasks, LaunchBreaks(t) PROVE OneLauncher'
  BY <1>0, <1>e, NoNewLauncher, GotoIs, EndsIs, BeginsIs, <1>13 DEF LaunchBreaks
<1>14. ASSUME NEW t \in Tasks, Settle(t) PROVE OneLauncher'
  BY <1>0, <1>e, NoNewLauncher, GotoIs, EndsIs, BeginsIs, <1>14, FinishesIs DEF Settle
<1>15. ASSUME NEW t \in Tasks, UnwindCreate(t) PROVE OneLauncher'
  BY <1>0, <1>e, NoNewLauncher, GotoIs, EndsIs, BeginsIs, <1>15 DEF UnwindCreate
<1>16. ASSUME NEW t \in Tasks, Mark(t) PROVE OneLauncher'
  BY <1>0, <1>e, NoNewLauncher, GotoIs, EndsIs, BeginsIs, <1>16 DEF Mark
<1>17. ASSUME NEW t \in Tasks, Retire(t) PROVE OneLauncher'
  BY <1>0, <1>e, NoNewLauncher, GotoIs, EndsIs, BeginsIs, <1>17, FinishesIs DEF Retire
<1>18. ASSUME NEW t \in Tasks, KillOld(t) PROVE OneLauncher'
  BY <1>0, <1>e, NoNewLauncher, GotoIs, EndsIs, BeginsIs, <1>18, FinishesIs DEF KillOld
<1>19. ASSUME NEW t \in Tasks, Park(t) PROVE OneLauncher'
  <2>1. exposed' = exposed /\ task[t].op = "restart" BY <1>e, <1>19 DEF Park, InItsProgram, Reviving
  <2> QED BY <1>0, <1>19, <2>1, NoNewLauncher, ParkIs
<1>20. ASSUME NEW t \in Tasks, UnwindRestart(t) PROVE OneLauncher'
  BY <1>0, <1>e, NoNewLauncher, GotoIs, EndsIs, BeginsIs, <1>20 DEF UnwindRestart
<1>21. ASSUME NEW t \in Tasks, CannotCompose(t) PROVE OneLauncher'
  BY <1>0, <1>e, NoNewLauncher, GotoIs, EndsIs, BeginsIs, <1>21 DEF CannotCompose
<1>22. ASSUME NEW t \in Tasks, RotateKey(t) PROVE OneLauncher'
  BY <1>0, <1>e, NoNewLauncher, GotoIs, EndsIs, BeginsIs, <1>22 DEF RotateKey
<1>23. ASSUME NEW t \in Tasks, Look(t) PROVE OneLauncher'
  BY <1>0, <1>e, NoNewLauncher, GotoIs, EndsIs, BeginsIs, <1>23 DEF Look
<1>24. ASSUME NEW t \in Tasks, Revive(t) PROVE OneLauncher'
  BY <1>0, <1>e, NoNewLauncher, GotoIs, EndsIs, BeginsIs, <1>24, FinishesIs DEF Revive
<1>25. ASSUME NEW t \in Tasks, KillOrphan(t) PROVE OneLauncher'
  BY <1>0, <1>e, NoNewLauncher, GotoIs, EndsIs, BeginsIs, <1>25 DEF KillOrphan
<1>26. ASSUME NEW t \in Tasks, StopKills(t) PROVE OneLauncher'
  BY <1>0, <1>e, NoNewLauncher, GotoIs, EndsIs, BeginsIs, <1>26 DEF StopKills
<1>27. ASSUME NEW t \in Tasks, KillFails(t) PROVE OneLauncher'
  BY <1>0, <1>e, NoNewLauncher, GotoIs, EndsIs, BeginsIs, <1>27, FinishesIs DEF KillFails
<1>28. ASSUME NEW t \in Tasks, StopClaims(t) PROVE OneLauncher'
  BY <1>0, <1>e, NoNewLauncher, GotoIs, EndsIs, BeginsIs, <1>28 DEF StopClaims
<1>29. ASSUME NEW t \in Tasks, DeleteKills(t) PROVE OneLauncher'
  BY <1>0, <1>e, NoNewLauncher, GotoIs, EndsIs, BeginsIs, <1>29 DEF DeleteKills
<1>30. ASSUME NEW t \in Tasks, DeleteRevokes(t) PROVE OneLauncher'
  BY <1>0, <1>e, NoNewLauncher, GotoIs, EndsIs, BeginsIs, <1>30 DEF DeleteRevokes
<1>31. ASSUME NEW t \in Tasks, DeleteRow(t) PROVE OneLauncher'
  BY <1>0, <1>e, NoNewLauncher, GotoIs, EndsIs, BeginsIs, <1>31 DEF DeleteRow
<1>32. ASSUME NEW t \in Tasks, SweepRow(t) PROVE OneLauncher'
  BY <1>0, <1>e, NoNewLauncher, GotoIs, EndsIs, BeginsIs, <1>32 DEF SweepRow
<1>33. ASSUME NEW t \in Tasks, Probe(t) PROVE OneLauncher'
  BY <1>0, <1>e, NoNewLauncher, GotoIs, EndsIs, BeginsIs, <1>33, ProbeIs DEF Probe
<1>34. ASSUME NEW t \in Tasks, PatchAlive(t) PROVE OneLauncher'
  BY <1>0, <1>e, NoNewLauncher, GotoIs, EndsIs, BeginsIs, <1>34 DEF PatchAlive
<1>35. ASSUME NEW t \in Tasks, FoldAlive(t) PROVE OneLauncher'
  <2>1. exposed => exposed' BY <1>35 DEF FoldAlive
  <2>2. task[t].op \in {"sweep", "census"} BY <1>e, <1>35 DEF FoldAlive, InItsProgram, Reviving
  <2>3. Turns(t, "idle", "end") \/ Turns(t, task[t].op, "bestKill") BY <1>0, <1>35, GotoIs, EndsIs DEF FoldAlive
  <2> QED BY <1>0, <2>1, <2>2, <2>3, NoNewLauncher
<1>36. ASSUME NEW t \in Tasks, BestEffortKill(t) PROVE OneLauncher'
  BY <1>0, <1>e, NoNewLauncher, GotoIs, EndsIs, BeginsIs, <1>36 DEF BestEffortKill
<1>37. ASSUME NEW t \in Tasks, CheckLease(t) PROVE OneLauncher'
  <2>1. exposed => exposed' BY <1>37 DEF CheckLease
  <2>2. CASE lease # None
    <3>1. Turns(t, "idle", "end") BY <1>0, <1>37, <2>2, EndsIs DEF CheckLease
    <3> QED BY <1>0, <2>1, <3>1, NoNewLauncher
  <2>3. CASE lease = None
    <3>1. Turns(t, "death", "fresh") BY <1>0, <1>37, <2>3, GotoIs DEF CheckLease
    <3>2. ~exposed' => ~StaleEvidence(t) BY <1>37, <2>3 DEF CheckLease
    <3>3. ~exposed' => \A u \in Tasks \ {t} : ~Launcher(u) BY <1>e, <2>3, <3>2 DEF StaleEvidence
    <3> QED BY <3>1, <3>3 DEF OneLauncher, Turns
  <2> QED BY <2>2, <2>3
<1>38. ASSUME NEW t \in Tasks, FreshRow(t) PROVE OneLauncher'
  BY <1>0, <1>e, NoNewLauncher, GotoIs, EndsIs, BeginsIs, <1>38, FreshRowIs DEF FreshRow
<1>39. ASSUME NEW t \in Tasks, ClaimDeath(t) PROVE OneLauncher'
  BY <1>0, <1>e, NoNewLauncher, GotoIs, EndsIs, BeginsIs, <1>39 DEF ClaimDeath
<1>40. ASSUME NEW t \in Tasks, Schedule(t) PROVE OneLauncher'
  BY <1>0, <1>e, NoNewLauncher, GotoIs, EndsIs, BeginsIs, <1>40 DEF Schedule
<1>41. ASSUME NEW t \in Tasks, Defer(t) PROVE OneLauncher'
  BY <1>0, <1>e, NoNewLauncher, GotoIs, EndsIs, BeginsIs, <1>41 DEF Defer
<1>42. ASSUME NEW t \in Tasks, AutoRestart(t) PROVE OneLauncher'
  BY <1>0, <1>e, NoNewLauncher, GotoIs, EndsIs, BeginsIs, <1>42, AutoRestartIs DEF AutoRestart
<1>43. ASSUME NEW t \in Tasks, UnwindAuto(t) PROVE OneLauncher'
  BY <1>0, <1>e, NoNewLauncher, GotoIs, EndsIs, BeginsIs, <1>43 DEF UnwindAuto
<1>44. ASSUME NEW t \in Tasks, Bury(t) PROVE OneLauncher'
  BY <1>0, <1>e, NoNewLauncher, GotoIs, EndsIs, BeginsIs, <1>44 DEF Bury
<1>45. ASSUME NEW t \in Tasks, Reap(t) PROVE OneLauncher'
  BY <1>0, <1>e, NoNewLauncher, GotoIs, EndsIs, BeginsIs, <1>45 DEF Reap
<1>46. ASSUME PaneDies PROVE OneLauncher'
  BY <1>0, <1>e, NoNewLauncher, GotoIs, EndsIs, BeginsIs, <1>46 DEF PaneDies, OneLauncher
<1>47. ASSUME ReportIsLost PROVE OneLauncher'
  BY <1>0, <1>e, NoNewLauncher, GotoIs, EndsIs, BeginsIs, <1>47 DEF ReportIsLost, OneLauncher
<1>48. ASSUME LinkDrops PROVE OneLauncher'
  BY <1>0, <1>e, NoNewLauncher, GotoIs, EndsIs, BeginsIs, <1>48 DEF LinkDrops, OneLauncher
<1>49. ASSUME RetryFallsDue PROVE OneLauncher'
  BY <1>0, <1>e, NoNewLauncher, GotoIs, EndsIs, BeginsIs, <1>49 DEF RetryFallsDue, OneLauncher
<1>50. ASSUME UNCHANGED vars PROVE OneLauncher'
  BY <1>0, <1>e, NoNewLauncher, GotoIs, EndsIs, BeginsIs, <1>50 DEF vars, OneLauncher
<1> QED
  BY <1>1, <1>2, <1>3, <1>4, <1>5, <1>6, <1>7, <1>8, <1>9, <1>10, <1>11, <1>12, <1>13,
     <1>14, <1>15, <1>16, <1>17, <1>18, <1>19, <1>20, <1>21, <1>22, <1>23, <1>24, <1>25, <1>26,
     <1>27, <1>28, <1>29, <1>30, <1>31, <1>32, <1>33, <1>34, <1>35, <1>36, <1>37, <1>38, <1>39,
     <1>40, <1>41, <1>42, <1>43, <1>44, <1>45, <1>46, <1>47, <1>48, <1>49, <1>50
     DEF Next, Operation, Continue, Launching, Restarting, Stopping, Sweeping, Burying

\* No step but the create leaves the state before it.
LEMMA NothingStep == ASSUME TypeOK, Launchers, [Next]_vars PROVE NothingYet'
<1> USE DEF At, AtAs, Free, RowBecomes, Running, Exists, hostVars, dbVars, fixed, NothingYet, DbOK, NoRow, Finishes
<1>0. TypeOK /\ NothingYet BY DEF Launchers
<1>e. \A t \in Tasks : Free(t) => task[t].pc = "end" BY DEF TypeOK, InItsProgram
<1>d. DbOK BY Parts
<1>1. ASSUME NEW t \in Tasks, Create(t) PROVE NothingYet'
  BY <1>0, <1>d, <1>e, <1>1 DEF Create
<1>2. ASSUME NEW t \in Tasks, Restart(t) PROVE NothingYet'
  BY <1>0, <1>d, <1>e, <1>2 DEF Restart
<1>3. ASSUME NEW t \in Tasks, Stop(t) PROVE NothingYet'
  BY <1>0, <1>d, <1>e, <1>3 DEF Stop
<1>4. ASSUME NEW t \in Tasks, Delete(t) PROVE NothingYet'
  BY <1>0, <1>d, <1>e, <1>4 DEF Delete
<1>5. ASSUME NEW t \in Tasks, Sweep(t) PROVE NothingYet'
  BY <1>0, <1>d, <1>e, <1>5 DEF Sweep
<1>6. ASSUME NEW t \in Tasks, Report(t) PROVE NothingYet'
  BY <1>0, <1>d, <1>e, <1>6 DEF Report
<1>7. ASSUME NEW t \in Tasks, NodeReports(t) PROVE NothingYet'
  BY <1>0, <1>d, <1>e, <1>7 DEF NodeReports
<1>8. ASSUME NEW t \in Tasks, LinkReturns(t) PROVE NothingYet'
  BY <1>0, <1>d, <1>e, <1>8 DEF LinkReturns
<1>9. ASSUME NEW t \in Tasks, Mint(t) PROVE NothingYet'
  BY <1>0, <1>d, <1>e, <1>9 DEF Mint
<1>10. ASSUME NEW t \in Tasks, Link(t) PROVE NothingYet'
  BY <1>0, <1>d, <1>e, <1>10 DEF Link
<1>11. ASSUME NEW t \in Tasks, LaunchSucceeds(t) PROVE NothingYet'
  BY <1>0, <1>d, <1>e, <1>11 DEF LaunchSucceeds
<1>12. ASSUME NEW t \in Tasks, LaunchRefused(t) PROVE NothingYet'
  BY <1>0, <1>d, <1>e, <1>12 DEF LaunchRefused
<1>13. ASSUME NEW t \in Tasks, LaunchBreaks(t) PROVE NothingYet'
  BY <1>0, <1>d, <1>e, <1>13 DEF LaunchBreaks
<1>14. ASSUME NEW t \in Tasks, Settle(t) PROVE NothingYet'
  BY <1>0, <1>d, <1>e, <1>14 DEF Settle
<1>15. ASSUME NEW t \in Tasks, UnwindCreate(t) PROVE NothingYet'
  BY <1>0, <1>d, <1>e, <1>15 DEF UnwindCreate
<1>16. ASSUME NEW t \in Tasks, Mark(t) PROVE NothingYet'
  BY <1>0, <1>d, <1>e, <1>16 DEF Mark
<1>17. ASSUME NEW t \in Tasks, Retire(t) PROVE NothingYet'
  BY <1>0, <1>d, <1>e, <1>17 DEF Retire
<1>18. ASSUME NEW t \in Tasks, KillOld(t) PROVE NothingYet'
  BY <1>0, <1>d, <1>e, <1>18 DEF KillOld
<1>19. ASSUME NEW t \in Tasks, Park(t) PROVE NothingYet'
  BY <1>0, <1>d, <1>e, <1>19 DEF Park
<1>20. ASSUME NEW t \in Tasks, UnwindRestart(t) PROVE NothingYet'
  BY <1>0, <1>d, <1>e, <1>20 DEF UnwindRestart
<1>21. ASSUME NEW t \in Tasks, CannotCompose(t) PROVE NothingYet'
  BY <1>0, <1>d, <1>e, <1>21 DEF CannotCompose
<1>22. ASSUME NEW t \in Tasks, RotateKey(t) PROVE NothingYet'
  BY <1>0, <1>d, <1>e, <1>22 DEF RotateKey
<1>23. ASSUME NEW t \in Tasks, Look(t) PROVE NothingYet'
  BY <1>0, <1>d, <1>e, <1>23 DEF Look
<1>24. ASSUME NEW t \in Tasks, Revive(t) PROVE NothingYet'
  BY <1>0, <1>d, <1>e, <1>24 DEF Revive
<1>25. ASSUME NEW t \in Tasks, KillOrphan(t) PROVE NothingYet'
  BY <1>0, <1>d, <1>e, <1>25 DEF KillOrphan
<1>26. ASSUME NEW t \in Tasks, StopKills(t) PROVE NothingYet'
  BY <1>0, <1>d, <1>e, <1>26 DEF StopKills
<1>27. ASSUME NEW t \in Tasks, KillFails(t) PROVE NothingYet'
  BY <1>0, <1>d, <1>e, <1>27 DEF KillFails
<1>28. ASSUME NEW t \in Tasks, StopClaims(t) PROVE NothingYet'
  BY <1>0, <1>d, <1>e, <1>28 DEF StopClaims
<1>29. ASSUME NEW t \in Tasks, DeleteKills(t) PROVE NothingYet'
  BY <1>0, <1>d, <1>e, <1>29 DEF DeleteKills
<1>30. ASSUME NEW t \in Tasks, DeleteRevokes(t) PROVE NothingYet'
  BY <1>0, <1>d, <1>e, <1>30 DEF DeleteRevokes
<1>31. ASSUME NEW t \in Tasks, DeleteRow(t) PROVE NothingYet'
  BY <1>0, <1>d, <1>e, <1>31 DEF DeleteRow
<1>32. ASSUME NEW t \in Tasks, SweepRow(t) PROVE NothingYet'
  BY <1>0, <1>d, <1>e, <1>32 DEF SweepRow
<1>33. ASSUME NEW t \in Tasks, Probe(t) PROVE NothingYet'
  BY <1>0, <1>d, <1>e, <1>33 DEF Probe
<1>34. ASSUME NEW t \in Tasks, PatchAlive(t) PROVE NothingYet'
  BY <1>0, <1>d, <1>e, <1>34 DEF PatchAlive
<1>35. ASSUME NEW t \in Tasks, FoldAlive(t) PROVE NothingYet'
  BY <1>0, <1>d, <1>e, <1>35 DEF FoldAlive
<1>36. ASSUME NEW t \in Tasks, BestEffortKill(t) PROVE NothingYet'
  BY <1>0, <1>d, <1>e, <1>36 DEF BestEffortKill
<1>37. ASSUME NEW t \in Tasks, CheckLease(t) PROVE NothingYet'
  BY <1>0, <1>d, <1>e, <1>37 DEF CheckLease
<1>38. ASSUME NEW t \in Tasks, FreshRow(t) PROVE NothingYet'
  BY <1>0, <1>d, <1>e, <1>38 DEF FreshRow
<1>39. ASSUME NEW t \in Tasks, ClaimDeath(t) PROVE NothingYet'
  BY <1>0, <1>d, <1>e, <1>39 DEF ClaimDeath
<1>40. ASSUME NEW t \in Tasks, Schedule(t) PROVE NothingYet'
  BY <1>0, <1>d, <1>e, <1>40 DEF Schedule
<1>41. ASSUME NEW t \in Tasks, Defer(t) PROVE NothingYet'
  BY <1>0, <1>d, <1>e, <1>41 DEF Defer
<1>42. ASSUME NEW t \in Tasks, AutoRestart(t) PROVE NothingYet'
  BY <1>0, <1>d, <1>e, <1>42 DEF AutoRestart
<1>43. ASSUME NEW t \in Tasks, UnwindAuto(t) PROVE NothingYet'
  BY <1>0, <1>d, <1>e, <1>43 DEF UnwindAuto
<1>44. ASSUME NEW t \in Tasks, Bury(t) PROVE NothingYet'
  BY <1>0, <1>d, <1>e, <1>44 DEF Bury
<1>45. ASSUME NEW t \in Tasks, Reap(t) PROVE NothingYet'
  BY <1>0, <1>d, <1>e, <1>45 DEF Reap
<1>46. ASSUME PaneDies PROVE NothingYet'
  BY <1>0, <1>d, <1>e, <1>46 DEF PaneDies
<1>47. ASSUME ReportIsLost PROVE NothingYet'
  BY <1>0, <1>d, <1>e, <1>47 DEF ReportIsLost
<1>48. ASSUME LinkDrops PROVE NothingYet'
  BY <1>0, <1>d, <1>e, <1>48 DEF LinkDrops
<1>49. ASSUME RetryFallsDue PROVE NothingYet'
  BY <1>0, <1>d, <1>e, <1>49 DEF RetryFallsDue
<1>50. ASSUME UNCHANGED vars PROVE NothingYet'
  BY <1>0, <1>d, <1>e, <1>50 DEF vars, NothingYet
<1> QED
  BY <1>1, <1>2, <1>3, <1>4, <1>5, <1>6, <1>7, <1>8, <1>9, <1>10, <1>11, <1>12, <1>13,
     <1>14, <1>15, <1>16, <1>17, <1>18, <1>19, <1>20, <1>21, <1>22, <1>23, <1>24, <1>25, <1>26,
     <1>27, <1>28, <1>29, <1>30, <1>31, <1>32, <1>33, <1>34, <1>35, <1>36, <1>37, <1>38, <1>39,
     <1>40, <1>41, <1>42, <1>43, <1>44, <1>45, <1>46, <1>47, <1>48, <1>49, <1>50
     DEF Next, Operation, Continue, Launching, Restarting, Stopping, Sweeping, Burying

\* A task that has minted its key and not yet spawned the pane it is for.
Unspawned(t) == task[t].pc \in {"link", "look", "launch"}

\* The next key minted is nobody's yet.
KeysGrow ==
  /\ pane.key <= minted /\ row.link <= minted
  /\ \A k \in hooks : k <= minted
  /\ \A t \in Tasks : task[t].key <= minted

\* A key that is minted and not spawned is in no pane, no hook and no other task.
FreshKeys ==
  \A t \in Tasks : Unspawned(t) =>
    /\ task[t].key # NoKey /\ task[t].key # pane.key /\ task[t].key \notin hooks
    /\ \A u \in Tasks \ {t} : task[u].key # task[t].key

\* A key about to be linked is enabled, and no revoke can reach it.
LinkedLater == \A t \in Tasks : At(t, "link") => task[t].key \in enabled /\ task[t].key # row.link

\* Evidence about the pane that is there is right: a report of that pane, on its
\* way or at the handler's door, says that it is dead.
Evidence ==
  /\ \A t \in Tasks : AtAs(t, "check", {"death"}) /\ task[t].key = pane.key => pane.is # "live"
  /\ pane.key \in hooks => pane.is # "live"

KeysInv == KeysGrow /\ FreshKeys /\ LinkedLater /\ Evidence

\* Keys are numbers.
LEMMA KeyTypes ==
  ASSUME TypeOK
  PROVE  /\ pane.key \in Nat /\ row.link \in Nat /\ minted \in Nat /\ hooks \subseteq Nat
         /\ \A t \in Tasks : task[t].key \in Nat /\ InItsProgram(task[t])
  <1>1. \A k \in Keys \cup {NoKey} : k \in Nat BY BoundsAssumption DEF Keys, NoKey
  <1> QED BY <1>1, BoundsAssumption DEF TypeOK

\* A step that mints, links and spawns nothing, whose task takes its key from what
\* is there.
LEMMA KeysKept ==
  ASSUME TypeOK, KeysInv, NEW t \in Tasks, NEW o, NEW p, Turns(t, o, p),
         task'[t].key \in {NoKey, task[t].key, pane.key} \cup hooks,
         hooks' \subseteq hooks, pane'.key = pane.key, pane'.is = "live" => pane.is = "live",
         minted' = minted, row'.link \in {row.link, NoKey}, enabled \ {row.link} \subseteq enabled',
         p # "link",
         p \in {"look", "launch"} => Unspawned(t) /\ task'[t].key = task[t].key,
         o = "death" /\ p = "check" => pane'.is # "live" \/ task'[t].key # pane.key
  PROVE  KeysInv'
  <1> USE KeyTypes DEF KeysInv, Turns, At, AtAs, Unspawned, NoKey
  <1>1. KeysGrow' BY DEF KeysGrow
  <1>2. FreshKeys'
    <2> SUFFICES ASSUME NEW u \in Tasks, Unspawned(u)'
                 PROVE  /\ task'[u].key # NoKey /\ task'[u].key # pane'.key /\ task'[u].key \notin hooks'
                        /\ \A v \in Tasks \ {u} : task'[v].key # task'[u].key
      BY DEF FreshKeys
    <2>1. Unspawned(u) /\ task'[u].key = task[u].key OBVIOUS
    <2>2. \A v \in Tasks \ {u} : task[v].key # task[u].key BY <2>1 DEF FreshKeys
    <2>3. task[u].key # NoKey /\ task[u].key # pane.key /\ task[u].key \notin hooks BY <2>1 DEF FreshKeys
    <2> QED BY <2>1, <2>2, <2>3
  <1>3. LinkedLater'
    <2> SUFFICES ASSUME NEW u \in Tasks, At(u, "link")' PROVE task'[u].key \in enabled' /\ task'[u].key # row'.link
      BY DEF LinkedLater
    <2>1. u # t /\ task'[u] = task[u] OBVIOUS
    <2>2. task[u].key # NoKey BY <2>1 DEF FreshKeys
    <2>3. task[u].key \in enabled /\ task[u].key # row.link BY <2>1 DEF LinkedLater
    <2> QED BY <2>1, <2>2, <2>3
  <1>4. Evidence' BY DEF Evidence
  <1> QED BY <1>1, <1>2, <1>3, <1>4

\* The same, of a step of no task.
LEMMA KeysStand ==
  ASSUME KeysInv, UNCHANGED <<task, minted, enabled>>, row'.link = row.link, hooks' \subseteq hooks,
         pane'.key = pane.key, pane'.is = "live" => pane.is = "live"
  PROVE  KeysInv'
  BY DEF KeysInv, KeysGrow, FreshKeys, LinkedLater, Evidence, At, AtAs, Unspawned

\* No step confuses two panes' keys.
LEMMA KeysStep == ASSUME TypeOK, KeysInv, [Next]_vars PROVE KeysInv'
<1> USE DEF At, AtAs, Free, NoPane, Revoked, RowBecomes, hostVars, dbVars, fixed
<1>0. TypeOK /\ KeysInv OBVIOUS
<1>e. \A t \in Tasks : InItsProgram(task[t]) BY DEF TypeOK
<1>d. DbOK /\ HostOK BY Parts
<1>1. ASSUME NEW t \in Tasks, Create(t) PROVE KeysInv'
  BY <1>0, <1>d, KeysKept, KeysStand, GotoIs, EndsIs, BeginsIs, <1>1 DEF Create
<1>2. ASSUME NEW t \in Tasks, Restart(t) PROVE KeysInv'
  BY <1>0, <1>d, KeysKept, KeysStand, GotoIs, EndsIs, BeginsIs, <1>2, RestartIs DEF Restart, DbOK, HostOK
<1>3. ASSUME NEW t \in Tasks, Stop(t) PROVE KeysInv'
  BY <1>0, <1>d, KeysKept, KeysStand, GotoIs, EndsIs, BeginsIs, <1>3 DEF Stop
<1>4. ASSUME NEW t \in Tasks, Delete(t) PROVE KeysInv'
  BY <1>0, <1>d, KeysKept, KeysStand, GotoIs, EndsIs, BeginsIs, <1>4 DEF Delete
<1>5. ASSUME NEW t \in Tasks, Sweep(t) PROVE KeysInv'
  BY <1>0, <1>d, KeysKept, KeysStand, GotoIs, EndsIs, BeginsIs, <1>5, SweepIs DEF Sweep, DbOK, HostOK
<1>6. ASSUME NEW t \in Tasks, Report(t) PROVE KeysInv'
  <2>1. UNCHANGED <<row, minted, enabled, pane>> BY <1>6 DEF Report
  <2>2. PICK k \in hooks : /\ hooks' = hooks \ {k}
                           /\ task' = task \/ (Turns(t, "death", "check") /\ task'[t].key = k)
    BY <1>0, <1>6, ReportIs
  <2>3. CASE task' = task BY <1>0, <2>1, <2>2, <2>3, KeysStand
  <2>4. CASE Turns(t, "death", "check") /\ task'[t].key = k
    <3>1. pane.is # "live" \/ k # pane.key BY <1>0 DEF KeysInv, Evidence
    <3> QED BY <1>0, <2>1, <2>2, <2>4, <3>1, KeysKept
  <2> QED BY <2>2, <2>3, <2>4
<1>7. ASSUME NEW t \in Tasks, NodeReports(t) PROVE KeysInv'
  BY <1>0, <1>d, KeysKept, KeysStand, GotoIs, EndsIs, BeginsIs, <1>7, NodeReportsIs DEF NodeReports, DbOK, HostOK
<1>8. ASSUME NEW t \in Tasks, LinkReturns(t) PROVE KeysInv'
  BY <1>0, <1>d, KeysKept, KeysStand, GotoIs, EndsIs, BeginsIs, <1>8, LinkReturnsIs DEF LinkReturns, DbOK, HostOK
<1>9. ASSUME NEW t \in Tasks, Mint(t) PROVE KeysInv'
  <2> DEFINE k == minted + 1
  <2>1. /\ Turns(t, task[t].op, "link") /\ task'[t].key = k /\ minted' = k
        /\ enabled' = enabled \cup {k} /\ UNCHANGED <<row, pane, hooks>>
    BY <1>0, <1>9, MintIs DEF Mint
  <2>2. /\ k # NoKey /\ k # pane.key /\ k # row.link /\ k \notin hooks /\ minted < k
        /\ \A u \in Tasks : task[u].key # k
    BY <1>0, KeyTypes DEF KeysInv, KeysGrow, NoKey
  <2> HIDE DEF k
  <2>3. KeysGrow' BY <1>0, <2>1, <2>2, KeyTypes DEF KeysInv, KeysGrow, Turns, k
  <2>4. FreshKeys' BY <1>0, <2>1, <2>2 DEF KeysInv, FreshKeys, Turns, Unspawned
  <2>5. LinkedLater' BY <1>0, <2>1, <2>2 DEF KeysInv, LinkedLater, Turns
  <2>6. Evidence' BY <1>0, <2>1 DEF KeysInv, Evidence, Turns
  <2> QED BY <2>3, <2>4, <2>5, <2>6 DEF KeysInv
<1>10. ASSUME NEW t \in Tasks, Link(t) PROVE KeysInv'
  <2>1. \E p \in {"launch", "look"} : Turns(t, task[t].op, p) BY <1>0, <1>10, GotoIs DEF Link
  <2>2. /\ task'[t].key = task[t].key /\ row'.link \in {row.link, task[t].key}
        /\ UNCHANGED <<minted, enabled, pane, hooks>>
    BY <1>0, <1>d, <1>10, GotoIs DEF Link, DbOK
  <2>3. KeysGrow' BY <1>0, <2>1, <2>2 DEF KeysInv, KeysGrow, Turns
  <2>4. FreshKeys' BY <1>0, <1>10, <2>1, <2>2 DEF Link, KeysInv, FreshKeys, Turns, Unspawned
  <2>5. LinkedLater' BY <1>0, <1>10, <2>1, <2>2 DEF Link, KeysInv, LinkedLater, FreshKeys, Turns, Unspawned
  <2>6. Evidence' BY <1>0, <2>1, <2>2 DEF KeysInv, Evidence, Turns
  <2> QED BY <2>3, <2>4, <2>5, <2>6 DEF KeysInv
<1>11. ASSUME NEW t \in Tasks, LaunchSucceeds(t) PROVE KeysInv'
  <2>1. \E p \in {"settle", "revive", "unwind"} : Turns(t, task[t].op, p) BY <1>0, <1>11, GotoIs DEF LaunchSucceeds
  <2>2. /\ task'[t].key = task[t].key /\ pane'.key = task[t].key
        /\ UNCHANGED <<row, minted, enabled, hooks>>
    BY <1>0, <1>11, GotoIs DEF LaunchSucceeds, Spawns
  <2>3. Unspawned(t) BY <1>11 DEF LaunchSucceeds, Unspawned
  <2>4. KeysGrow' BY <1>0, <2>1, <2>2 DEF KeysInv, KeysGrow, Turns
  <2>5. FreshKeys' BY <1>0, <2>1, <2>2, <2>3 DEF KeysInv, FreshKeys, Turns, Unspawned
  <2>6. LinkedLater' BY <1>0, <2>1, <2>2 DEF KeysInv, LinkedLater, Turns
  <2>7. Evidence' BY <1>0, <2>1, <2>2, <2>3 DEF KeysInv, Evidence, FreshKeys, Turns
  <2> QED BY <2>4, <2>5, <2>6, <2>7 DEF KeysInv
<1>12. ASSUME NEW t \in Tasks, LaunchRefused(t) PROVE KeysInv'
  BY <1>0, <1>d, KeysKept, KeysStand, GotoIs, EndsIs, BeginsIs, <1>12 DEF LaunchRefused, Unspawned, DbOK, HostOK
<1>13. ASSUME NEW t \in Tasks, LaunchBreaks(t) PROVE KeysInv'
  <2>1. \E p \in {"settle", "revive", "unwind"} : Turns(t, task[t].op, p) BY <1>0, <1>13, GotoIs DEF LaunchBreaks
  <2>2. /\ task'[t].key = task[t].key /\ pane'.key = task[t].key
        /\ UNCHANGED <<row, minted, enabled, hooks>>
    BY <1>0, <1>13, GotoIs DEF LaunchBreaks, Spawns
  <2>3. Unspawned(t) BY <1>13 DEF LaunchBreaks, Unspawned
  <2>4. KeysGrow' BY <1>0, <2>1, <2>2 DEF KeysInv, KeysGrow, Turns
  <2>5. FreshKeys' BY <1>0, <2>1, <2>2, <2>3 DEF KeysInv, FreshKeys, Turns, Unspawned
  <2>6. LinkedLater' BY <1>0, <2>1, <2>2 DEF KeysInv, LinkedLater, Turns
  <2>7. Evidence' BY <1>0, <2>1, <2>2, <2>3 DEF KeysInv, Evidence, FreshKeys, Turns
  <2> QED BY <2>4, <2>5, <2>6, <2>7 DEF KeysInv
<1>14. ASSUME NEW t \in Tasks, Settle(t) PROVE KeysInv'
  BY <1>0, <1>d, KeysKept, KeysStand, GotoIs, EndsIs, BeginsIs, <1>14, FinishesIs DEF Settle, DbOK, HostOK
<1>15. ASSUME NEW t \in Tasks, UnwindCreate(t) PROVE KeysInv'
  BY <1>0, <1>d, KeysKept, KeysStand, GotoIs, EndsIs, BeginsIs, <1>15 DEF UnwindCreate
<1>16. ASSUME NEW t \in Tasks, Mark(t) PROVE KeysInv'
  BY <1>0, <1>d, KeysKept, KeysStand, GotoIs, EndsIs, BeginsIs, <1>16 DEF Mark
<1>17. ASSUME NEW t \in Tasks, Retire(t) PROVE KeysInv'
  BY <1>0, <1>d, KeysKept, KeysStand, GotoIs, EndsIs, BeginsIs, <1>17, FinishesIs DEF Retire, DbOK, HostOK
<1>18. ASSUME NEW t \in Tasks, KillOld(t) PROVE KeysInv'
  BY <1>0, <1>d, KeysKept, KeysStand, GotoIs, EndsIs, BeginsIs, <1>18, FinishesIs DEF KillOld, DbOK, HostOK
<1>19. ASSUME NEW t \in Tasks, Park(t) PROVE KeysInv'
  BY <1>0, <1>d, KeysKept, KeysStand, GotoIs, EndsIs, BeginsIs, <1>19, ParkIs DEF Park, DbOK, HostOK
<1>20. ASSUME NEW t \in Tasks, UnwindRestart(t) PROVE KeysInv'
  BY <1>0, <1>d, KeysKept, KeysStand, GotoIs, EndsIs, BeginsIs, <1>20 DEF UnwindRestart
<1>21. ASSUME NEW t \in Tasks, CannotCompose(t) PROVE KeysInv'
  BY <1>0, <1>d, KeysKept, KeysStand, GotoIs, EndsIs, BeginsIs, <1>21 DEF CannotCompose
<1>22. ASSUME NEW t \in Tasks, RotateKey(t) PROVE KeysInv'
  BY <1>0, <1>d, KeysKept, KeysStand, GotoIs, EndsIs, BeginsIs, <1>22 DEF RotateKey
<1>23. ASSUME NEW t \in Tasks, Look(t) PROVE KeysInv'
  BY <1>0, <1>d, KeysKept, KeysStand, GotoIs, EndsIs, BeginsIs, <1>23 DEF Look, Unspawned, DbOK, HostOK
<1>24. ASSUME NEW t \in Tasks, Revive(t) PROVE KeysInv'
  BY <1>0, <1>d, KeysKept, KeysStand, GotoIs, EndsIs, BeginsIs, <1>24, FinishesIs DEF Revive, DbOK, HostOK
<1>25. ASSUME NEW t \in Tasks, KillOrphan(t) PROVE KeysInv'
  BY <1>0, <1>d, KeysKept, KeysStand, GotoIs, EndsIs, BeginsIs, <1>25 DEF KillOrphan
<1>26. ASSUME NEW t \in Tasks, StopKills(t) PROVE KeysInv'
  BY <1>0, <1>d, KeysKept, KeysStand, GotoIs, EndsIs, BeginsIs, <1>26 DEF StopKills
<1>27. ASSUME NEW t \in Tasks, KillFails(t) PROVE KeysInv'
  BY <1>0, <1>d, KeysKept, KeysStand, GotoIs, EndsIs, BeginsIs, <1>27, FinishesIs DEF KillFails, DbOK, HostOK
<1>28. ASSUME NEW t \in Tasks, StopClaims(t) PROVE KeysInv'
  BY <1>0, <1>d, KeysKept, KeysStand, GotoIs, EndsIs, BeginsIs, <1>28 DEF StopClaims
<1>29. ASSUME NEW t \in Tasks, DeleteKills(t) PROVE KeysInv'
  BY <1>0, <1>d, KeysKept, KeysStand, GotoIs, EndsIs, BeginsIs, <1>29 DEF DeleteKills
<1>30. ASSUME NEW t \in Tasks, DeleteRevokes(t) PROVE KeysInv'
  BY <1>0, <1>d, KeysKept, KeysStand, GotoIs, EndsIs, BeginsIs, <1>30 DEF DeleteRevokes
<1>31. ASSUME NEW t \in Tasks, DeleteRow(t) PROVE KeysInv'
  <2>1. row'.link = NoKey /\ task[t].op # "restart" BY <1>e, <1>31 DEF DeleteRow, NoRow, InItsProgram, Reviving
  <2> QED BY <1>0, <2>1, <1>31, KeysKept, EndsIs DEF DeleteRow
<1>32. ASSUME NEW t \in Tasks, SweepRow(t) PROVE KeysInv'
  BY <1>0, <1>d, KeysKept, KeysStand, GotoIs, EndsIs, BeginsIs, <1>32 DEF SweepRow
<1>33. ASSUME NEW t \in Tasks, Probe(t) PROVE KeysInv'
  BY <1>0, <1>d, KeysKept, KeysStand, GotoIs, EndsIs, BeginsIs, <1>33, ProbeIs DEF Probe, DbOK, HostOK
<1>34. ASSUME NEW t \in Tasks, PatchAlive(t) PROVE KeysInv'
  BY <1>0, <1>d, KeysKept, KeysStand, GotoIs, EndsIs, BeginsIs, <1>34 DEF PatchAlive
<1>35. ASSUME NEW t \in Tasks, FoldAlive(t) PROVE KeysInv'
  <2>1. row'.link = row.link BY <1>d, <1>35 DEF FoldAlive, DbOK
  <2>2. \/ Turns(t, "idle", "end") /\ task'[t].key = NoKey
        \/ Turns(t, task[t].op, "bestKill") /\ task'[t].key = task[t].key
    BY <1>0, <1>35, GotoIs, EndsIs DEF FoldAlive
  <2>3. UNCHANGED <<minted, enabled, pane, hooks>> BY <1>35 DEF FoldAlive
  <2> QED BY <1>0, <2>1, <2>2, <2>3, KeysKept
<1>36. ASSUME NEW t \in Tasks, BestEffortKill(t) PROVE KeysInv'
  BY <1>0, <1>d, KeysKept, KeysStand, GotoIs, EndsIs, BeginsIs, <1>36 DEF BestEffortKill
<1>37. ASSUME NEW t \in Tasks, CheckLease(t) PROVE KeysInv'
  BY <1>0, <1>d, KeysKept, KeysStand, GotoIs, EndsIs, BeginsIs, <1>37 DEF CheckLease
<1>38. ASSUME NEW t \in Tasks, FreshRow(t) PROVE KeysInv'
  BY <1>0, <1>d, KeysKept, KeysStand, GotoIs, EndsIs, BeginsIs, <1>38, FreshRowIs DEF FreshRow, DbOK, HostOK
<1>39. ASSUME NEW t \in Tasks, ClaimDeath(t) PROVE KeysInv'
  <2>1. row'.link = row.link BY <1>d, <1>39 DEF ClaimDeath, DbOK
  <2> QED BY <1>0, <2>1, <1>39, KeysKept, GotoIs DEF ClaimDeath
<1>40. ASSUME NEW t \in Tasks, Schedule(t) PROVE KeysInv'
  BY <1>0, <1>d, KeysKept, KeysStand, GotoIs, EndsIs, BeginsIs, <1>40 DEF Schedule
<1>41. ASSUME NEW t \in Tasks, Defer(t) PROVE KeysInv'
  BY <1>0, <1>d, KeysKept, KeysStand, GotoIs, EndsIs, BeginsIs, <1>41 DEF Defer
<1>42. ASSUME NEW t \in Tasks, AutoRestart(t) PROVE KeysInv'
  BY <1>0, <1>d, KeysKept, KeysStand, GotoIs, EndsIs, BeginsIs, <1>42, AutoRestartIs DEF AutoRestart, DbOK, HostOK
<1>43. ASSUME NEW t \in Tasks, UnwindAuto(t) PROVE KeysInv'
  BY <1>0, <1>d, KeysKept, KeysStand, GotoIs, EndsIs, BeginsIs, <1>43 DEF UnwindAuto
<1>44. ASSUME NEW t \in Tasks, Bury(t) PROVE KeysInv'
  BY <1>0, <1>d, KeysKept, KeysStand, GotoIs, EndsIs, BeginsIs, <1>44 DEF Bury
<1>45. ASSUME NEW t \in Tasks, Reap(t) PROVE KeysInv'
  BY <1>0, <1>d, KeysKept, KeysStand, GotoIs, EndsIs, BeginsIs, <1>45 DEF Reap
<1>46. ASSUME PaneDies PROVE KeysInv'
  <2>1. /\ pane'.key = pane.key /\ pane'.is = "dead" /\ hooks' = hooks \cup {pane.key}
        /\ UNCHANGED <<row, minted, enabled, task>>
    BY <1>d, <1>46 DEF PaneDies, HostOK
  <2> QED BY <1>0, <2>1 DEF KeysInv, KeysGrow, FreshKeys, LinkedLater, Evidence, Unspawned
<1>47. ASSUME ReportIsLost PROVE KeysInv'
  BY <1>0, <1>d, KeysKept, KeysStand, GotoIs, EndsIs, BeginsIs, <1>47 DEF ReportIsLost, DbOK, HostOK
<1>48. ASSUME LinkDrops PROVE KeysInv'
  BY <1>0, <1>d, KeysKept, KeysStand, GotoIs, EndsIs, BeginsIs, <1>48 DEF LinkDrops, DbOK, HostOK
<1>49. ASSUME RetryFallsDue PROVE KeysInv'
  BY <1>0, <1>d, KeysKept, KeysStand, GotoIs, EndsIs, BeginsIs, <1>49 DEF RetryFallsDue, DbOK, HostOK
<1>50. ASSUME UNCHANGED vars PROVE KeysInv'
  BY <1>0, <1>d, KeysKept, KeysStand, GotoIs, EndsIs, BeginsIs, <1>50 DEF vars, DbOK, HostOK
<1> QED
  BY <1>1, <1>2, <1>3, <1>4, <1>5, <1>6, <1>7, <1>8, <1>9, <1>10, <1>11, <1>12, <1>13,
     <1>14, <1>15, <1>16, <1>17, <1>18, <1>19, <1>20, <1>21, <1>22, <1>23, <1>24, <1>25, <1>26,
     <1>27, <1>28, <1>29, <1>30, <1>31, <1>32, <1>33, <1>34, <1>35, <1>36, <1>37, <1>38, <1>39,
     <1>40, <1>41, <1>42, <1>43, <1>44, <1>45, <1>46, <1>47, <1>48, <1>49, <1>50
     DEF Next, Operation, Continue, Launching, Restarting, Stopping, Sweeping, Burying

-----------------------------------------------------------------------------
(* A death is stamped only on a dead pane                                  *)

\* Where the two sweeps fold, and what can be offline.
Where ==
  /\ online \/ place = "agent"
  /\ \A t \in Tasks : /\ At(t, "patch") => place = "local"
                      /\ task[t].pc \in {"fold", "bestKill"} => place = "agent"

\* A step whose task comes to no sweep's write.
LEMMA WhereKept ==
  ASSUME Where, NEW t \in Tasks, NEW o, NEW p, Turns(t, o, p), UNCHANGED <<place, online>>,
         p = "patch" => place = "local",
         p \in {"fold", "bestKill"} => place = "agent"
  PROVE  Where'
  BY DEF Where, Turns, At

LEMMA WhereStep == ASSUME TypeOK, Where, [Next]_vars PROVE Where'
<1> USE DEF At, AtAs, Free, hostVars, dbVars, fixed
<1>0. TypeOK /\ Where OBVIOUS
<1>p. place \in {"local", "agent"} BY PlacesAssumption DEF TypeOK
<1>1. ASSUME NEW t \in Tasks, Create(t) PROVE Where'
  BY <1>0, <1>p, WhereKept, GotoIs, EndsIs, BeginsIs, <1>1 DEF Create
<1>2. ASSUME NEW t \in Tasks, Restart(t) PROVE Where'
  BY <1>0, <1>p, WhereKept, GotoIs, EndsIs, BeginsIs, <1>2, RestartIs DEF Restart
<1>3. ASSUME NEW t \in Tasks, Stop(t) PROVE Where'
  BY <1>0, <1>p, WhereKept, GotoIs, EndsIs, BeginsIs, <1>3 DEF Stop
<1>4. ASSUME NEW t \in Tasks, Delete(t) PROVE Where'
  BY <1>0, <1>p, WhereKept, GotoIs, EndsIs, BeginsIs, <1>4 DEF Delete
<1>5. ASSUME NEW t \in Tasks, Sweep(t) PROVE Where'
  BY <1>0, <1>p, WhereKept, GotoIs, EndsIs, BeginsIs, <1>5, SweepIs DEF Sweep
<1>6. ASSUME NEW t \in Tasks, Report(t) PROVE Where'
  <2>1. UNCHANGED <<place, online>> BY <1>6 DEF Report
  <2>2. task' = task \/ Turns(t, "death", "check") BY <1>0, <1>6, ReportIs
  <2>3. CASE task' = task BY <1>0, <2>1, <2>3 DEF Where
  <2>4. CASE Turns(t, "death", "check") BY <1>0, <2>1, <2>4, WhereKept
  <2> QED BY <2>2, <2>3, <2>4
<1>7. ASSUME NEW t \in Tasks, NodeReports(t) PROVE Where'
  <2>1. UNCHANGED <<place, online>> BY <1>7 DEF NodeReports
  <2>2. task' = task \/ Turns(t, "death", "check") BY <1>0, <1>7, NodeReportsIs
  <2>3. CASE task' = task BY <1>0, <2>1, <2>3 DEF Where
  <2>4. CASE Turns(t, "death", "check") BY <1>0, <2>1, <2>4, WhereKept
  <2> QED BY <2>2, <2>3, <2>4
<1>8. ASSUME NEW t \in Tasks, LinkReturns(t) PROVE Where'
  <2>1. place' = place /\ online' = TRUE /\ place = "agent" BY <1>0, <1>8 DEF LinkReturns, Where
  <2> QED BY <1>0, <1>8, <2>1, LinkReturnsIs DEF Where, Turns
<1>9. ASSUME NEW t \in Tasks, Mint(t) PROVE Where'
  <2>1. Turns(t, task[t].op, "link") BY <1>0, <1>9, MintIs
  <2> QED BY <1>0, <1>9, <2>1, WhereKept DEF Mint
<1>10. ASSUME NEW t \in Tasks, Link(t) PROVE Where'
  BY <1>0, <1>p, WhereKept, GotoIs, EndsIs, BeginsIs, <1>10 DEF Link
<1>11. ASSUME NEW t \in Tasks, LaunchSucceeds(t) PROVE Where'
  BY <1>0, <1>p, WhereKept, GotoIs, EndsIs, BeginsIs, <1>11 DEF LaunchSucceeds
<1>12. ASSUME NEW t \in Tasks, LaunchRefused(t) PROVE Where'
  BY <1>0, <1>p, WhereKept, GotoIs, EndsIs, BeginsIs, <1>12 DEF LaunchRefused
<1>13. ASSUME NEW t \in Tasks, LaunchBreaks(t) PROVE Where'
  BY <1>0, <1>p, WhereKept, GotoIs, EndsIs, BeginsIs, <1>13 DEF LaunchBreaks
<1>14. ASSUME NEW t \in Tasks, Settle(t) PROVE Where'
  BY <1>0, <1>p, WhereKept, GotoIs, EndsIs, BeginsIs, <1>14, FinishesIs DEF Settle
<1>15. ASSUME NEW t \in Tasks, UnwindCreate(t) PROVE Where'
  BY <1>0, <1>p, WhereKept, GotoIs, EndsIs, BeginsIs, <1>15 DEF UnwindCreate
<1>16. ASSUME NEW t \in Tasks, Mark(t) PROVE Where'
  BY <1>0, <1>p, WhereKept, GotoIs, EndsIs, BeginsIs, <1>16 DEF Mark
<1>17. ASSUME NEW t \in Tasks, Retire(t) PROVE Where'
  BY <1>0, <1>p, WhereKept, GotoIs, EndsIs, BeginsIs, <1>17, FinishesIs DEF Retire
<1>18. ASSUME NEW t \in Tasks, KillOld(t) PROVE Where'
  BY <1>0, <1>p, WhereKept, GotoIs, EndsIs, BeginsIs, <1>18, FinishesIs DEF KillOld
<1>19. ASSUME NEW t \in Tasks, Park(t) PROVE Where'
  BY <1>0, <1>p, WhereKept, GotoIs, EndsIs, BeginsIs, <1>19, ParkIs DEF Park
<1>20. ASSUME NEW t \in Tasks, UnwindRestart(t) PROVE Where'
  BY <1>0, <1>p, WhereKept, GotoIs, EndsIs, BeginsIs, <1>20 DEF UnwindRestart
<1>21. ASSUME NEW t \in Tasks, CannotCompose(t) PROVE Where'
  BY <1>0, <1>p, WhereKept, GotoIs, EndsIs, BeginsIs, <1>21 DEF CannotCompose
<1>22. ASSUME NEW t \in Tasks, RotateKey(t) PROVE Where'
  BY <1>0, <1>p, WhereKept, GotoIs, EndsIs, BeginsIs, <1>22 DEF RotateKey
<1>23. ASSUME NEW t \in Tasks, Look(t) PROVE Where'
  BY <1>0, <1>p, WhereKept, GotoIs, EndsIs, BeginsIs, <1>23 DEF Look
<1>24. ASSUME NEW t \in Tasks, Revive(t) PROVE Where'
  BY <1>0, <1>p, WhereKept, GotoIs, EndsIs, BeginsIs, <1>24, FinishesIs DEF Revive
<1>25. ASSUME NEW t \in Tasks, KillOrphan(t) PROVE Where'
  BY <1>0, <1>p, WhereKept, GotoIs, EndsIs, BeginsIs, <1>25 DEF KillOrphan
<1>26. ASSUME NEW t \in Tasks, StopKills(t) PROVE Where'
  BY <1>0, <1>p, WhereKept, GotoIs, EndsIs, BeginsIs, <1>26 DEF StopKills
<1>27. ASSUME NEW t \in Tasks, KillFails(t) PROVE Where'
  BY <1>0, <1>p, WhereKept, GotoIs, EndsIs, BeginsIs, <1>27, FinishesIs DEF KillFails
<1>28. ASSUME NEW t \in Tasks, StopClaims(t) PROVE Where'
  BY <1>0, <1>p, WhereKept, GotoIs, EndsIs, BeginsIs, <1>28 DEF StopClaims
<1>29. ASSUME NEW t \in Tasks, DeleteKills(t) PROVE Where'
  BY <1>0, <1>p, WhereKept, GotoIs, EndsIs, BeginsIs, <1>29 DEF DeleteKills
<1>30. ASSUME NEW t \in Tasks, DeleteRevokes(t) PROVE Where'
  BY <1>0, <1>p, WhereKept, GotoIs, EndsIs, BeginsIs, <1>30 DEF DeleteRevokes
<1>31. ASSUME NEW t \in Tasks, DeleteRow(t) PROVE Where'
  BY <1>0, <1>p, WhereKept, GotoIs, EndsIs, BeginsIs, <1>31 DEF DeleteRow
<1>32. ASSUME NEW t \in Tasks, SweepRow(t) PROVE Where'
  BY <1>0, <1>p, WhereKept, GotoIs, EndsIs, BeginsIs, <1>32 DEF SweepRow
<1>33. ASSUME NEW t \in Tasks, Probe(t) PROVE Where'
  BY <1>0, <1>p, WhereKept, GotoIs, EndsIs, BeginsIs, <1>33, ProbeIs DEF Probe
<1>34. ASSUME NEW t \in Tasks, PatchAlive(t) PROVE Where'
  BY <1>0, <1>p, WhereKept, GotoIs, EndsIs, BeginsIs, <1>34 DEF PatchAlive
<1>35. ASSUME NEW t \in Tasks, FoldAlive(t) PROVE Where'
  <2>1. Turns(t, "idle", "end") \/ Turns(t, task[t].op, "bestKill") BY <1>0, <1>35, GotoIs, EndsIs DEF FoldAlive
  <2>2. place = "agent" /\ UNCHANGED <<place, online>> BY <1>0, <1>35 DEF FoldAlive, Where
  <2> QED BY <1>0, <2>1, <2>2, WhereKept
<1>36. ASSUME NEW t \in Tasks, BestEffortKill(t) PROVE Where'
  BY <1>0, <1>p, WhereKept, GotoIs, EndsIs, BeginsIs, <1>36 DEF BestEffortKill
<1>37. ASSUME NEW t \in Tasks, CheckLease(t) PROVE Where'
  BY <1>0, <1>p, WhereKept, GotoIs, EndsIs, BeginsIs, <1>37 DEF CheckLease
<1>38. ASSUME NEW t \in Tasks, FreshRow(t) PROVE Where'
  BY <1>0, <1>p, WhereKept, GotoIs, EndsIs, BeginsIs, <1>38, FreshRowIs DEF FreshRow
<1>39. ASSUME NEW t \in Tasks, ClaimDeath(t) PROVE Where'
  BY <1>0, <1>p, WhereKept, GotoIs, EndsIs, BeginsIs, <1>39 DEF ClaimDeath
<1>40. ASSUME NEW t \in Tasks, Schedule(t) PROVE Where'
  BY <1>0, <1>p, WhereKept, GotoIs, EndsIs, BeginsIs, <1>40 DEF Schedule
<1>41. ASSUME NEW t \in Tasks, Defer(t) PROVE Where'
  BY <1>0, <1>p, WhereKept, GotoIs, EndsIs, BeginsIs, <1>41 DEF Defer
<1>42. ASSUME NEW t \in Tasks, AutoRestart(t) PROVE Where'
  <2>1. Turns(t, task[t].op, "revoke") BY <1>0, <1>42, AutoRestartIs
  <2> QED BY <1>0, <1>42, <2>1, WhereKept DEF AutoRestart
<1>43. ASSUME NEW t \in Tasks, UnwindAuto(t) PROVE Where'
  BY <1>0, <1>p, WhereKept, GotoIs, EndsIs, BeginsIs, <1>43 DEF UnwindAuto
<1>44. ASSUME NEW t \in Tasks, Bury(t) PROVE Where'
  BY <1>0, <1>p, WhereKept, GotoIs, EndsIs, BeginsIs, <1>44 DEF Bury
<1>45. ASSUME NEW t \in Tasks, Reap(t) PROVE Where'
  BY <1>0, <1>p, WhereKept, GotoIs, EndsIs, BeginsIs, <1>45 DEF Reap
<1>46. ASSUME PaneDies PROVE Where'
  BY <1>0, <1>p, WhereKept, GotoIs, EndsIs, BeginsIs, <1>46 DEF PaneDies, Where
<1>47. ASSUME ReportIsLost PROVE Where'
  BY <1>0, <1>p, WhereKept, GotoIs, EndsIs, BeginsIs, <1>47 DEF ReportIsLost, Where
<1>48. ASSUME LinkDrops PROVE Where'
  BY <1>0, <1>p, WhereKept, GotoIs, EndsIs, BeginsIs, <1>48 DEF LinkDrops, Where
<1>49. ASSUME RetryFallsDue PROVE Where'
  BY <1>0, <1>p, WhereKept, GotoIs, EndsIs, BeginsIs, <1>49 DEF RetryFallsDue, Where
<1>50. ASSUME UNCHANGED vars PROVE Where'
  BY <1>0, <1>p, WhereKept, GotoIs, EndsIs, BeginsIs, <1>50 DEF vars, Where
<1> QED
  BY <1>1, <1>2, <1>3, <1>4, <1>5, <1>6, <1>7, <1>8, <1>9, <1>10, <1>11, <1>12, <1>13,
     <1>14, <1>15, <1>16, <1>17, <1>18, <1>19, <1>20, <1>21, <1>22, <1>23, <1>24, <1>25, <1>26,
     <1>27, <1>28, <1>29, <1>30, <1>31, <1>32, <1>33, <1>34, <1>35, <1>36, <1>37, <1>38, <1>39,
     <1>40, <1>41, <1>42, <1>43, <1>44, <1>45, <1>46, <1>47, <1>48, <1>49, <1>50
     DEF Next, Operation, Continue, Launching, Restarting, Stopping, Sweeping, Burying

\* Where the death handler is while it takes the pane for dead.
Finding == {"fresh", "claim", "schedule", "gates", "revoke", "mint", "link", "look", "launch"}

\* A launcher that takes the pane for dead, or for not there yet.
FindsNone(t) ==
  \/ task[t].op = "death" /\ task[t].pc \in Finding
  \/ task[t].op = "create" /\ task[t].pc \in {"mint", "link", "launch"}

\* Unless an exposed meeting took place, it is right: between the lease's door and
\* the death handler's own launch, and before a create's, the pane is not alive.
DeathFinds == ~exposed => \A t \in Tasks : FindsNone(t) => pane.is # "live"

\* A step that spawns nothing and sends no new task past the door.
LEMMA FindsKept ==
  ASSUME DeathFinds, NEW t \in Tasks, NEW o, NEW p, Turns(t, o, p), exposed => exposed',
         pane'.is = "live" => pane.is = "live",
         FindsNone(t)' => FindsNone(t)
  PROVE  DeathFinds'
  BY DEF DeathFinds, FindsNone, Turns

\* No step proves it wrong but an exposed one.
LEMMA FindsStep == ASSUME TypeOK, Launchers, KeysInv, DeathFinds, [Next]_vars PROVE DeathFinds'
<1> USE DEF At, AtAs, Free, NoPane, Exposes, hostVars, dbVars, fixed
<1>0. TypeOK /\ OneLauncher /\ NothingYet /\ DeathFinds /\ Evidence BY DEF Launchers, KeysInv
<1>e. \A t \in Tasks : InItsProgram(task[t]) BY DEF TypeOK
<1>h. HostOK BY Parts
<1>1. ASSUME NEW t \in Tasks, Create(t) PROVE DeathFinds'
  <2>1. pane'.is = "none" BY <1>0, <1>1 DEF Create, NothingYet
  <2> QED BY <2>1 DEF DeathFinds
<1>2. ASSUME NEW t \in Tasks, Restart(t) PROVE DeathFinds'
  BY <1>0, <1>e, <1>h, FindsKept, GotoIs, EndsIs, BeginsIs, <1>2, RestartIs DEF Restart, HostOK, Finding, FindsNone, Turns, InItsProgram, Reviving
<1>3. ASSUME NEW t \in Tasks, Stop(t) PROVE DeathFinds'
  BY <1>0, <1>e, <1>h, FindsKept, GotoIs, EndsIs, BeginsIs, <1>3 DEF Stop, HostOK, Finding, FindsNone, Turns, InItsProgram, Reviving
<1>4. ASSUME NEW t \in Tasks, Delete(t) PROVE DeathFinds'
  BY <1>0, <1>e, <1>h, FindsKept, GotoIs, EndsIs, BeginsIs, <1>4 DEF Delete, HostOK, Finding, FindsNone, Turns, InItsProgram, Reviving
<1>5. ASSUME NEW t \in Tasks, Sweep(t) PROVE DeathFinds'
  BY <1>0, <1>e, <1>h, FindsKept, GotoIs, EndsIs, BeginsIs, <1>5, SweepIs DEF Sweep, HostOK, Finding, FindsNone, Turns, InItsProgram, Reviving
<1>6. ASSUME NEW t \in Tasks, Report(t) PROVE DeathFinds'
  <2>1. UNCHANGED <<exposed, pane>> BY <1>6 DEF Report
  <2>2. task' = task \/ Turns(t, "death", "check") BY <1>0, <1>6, ReportIs
  <2>3. CASE task' = task BY <1>0, <2>1, <2>3 DEF DeathFinds, FindsNone
  <2>4. CASE Turns(t, "death", "check") BY <1>0, <2>1, <2>4, FindsKept DEF Finding, FindsNone, Turns
  <2> QED BY <2>2, <2>3, <2>4
<1>7. ASSUME NEW t \in Tasks, NodeReports(t) PROVE DeathFinds'
  BY <1>0, <1>e, <1>h, FindsKept, GotoIs, EndsIs, BeginsIs, <1>7, NodeReportsIs DEF NodeReports, DeathFinds, HostOK, Finding, FindsNone, Turns
<1>8. ASSUME NEW t \in Tasks, LinkReturns(t) PROVE DeathFinds'
  BY <1>0, <1>e, <1>h, FindsKept, GotoIs, EndsIs, BeginsIs, <1>8, LinkReturnsIs DEF LinkReturns, DeathFinds, HostOK, Finding, FindsNone, Turns
<1>9. ASSUME NEW t \in Tasks, Mint(t) PROVE DeathFinds'
  BY <1>0, <1>e, <1>h, FindsKept, GotoIs, EndsIs, BeginsIs, <1>9, MintIs DEF Mint, HostOK, Finding, FindsNone, Turns, InItsProgram, Reviving
<1>10. ASSUME NEW t \in Tasks, Link(t) PROVE DeathFinds'
  BY <1>0, <1>e, <1>h, FindsKept, GotoIs, EndsIs, BeginsIs, <1>10 DEF Link, HostOK, Finding, FindsNone, Turns, InItsProgram, Reviving
<1>11. ASSUME NEW t \in Tasks, LaunchSucceeds(t) PROVE DeathFinds'
  <2>1. \E p \in {"settle", "revive", "unwind"} : Turns(t, task[t].op, p) BY <1>0, <1>11, GotoIs DEF LaunchSucceeds
  <2>2. exposed => exposed' BY <1>11 DEF LaunchSucceeds
  <2>3. Launcher(t) BY <1>e, <1>11 DEF LaunchSucceeds, Launcher, InDeathHandler, InItsProgram
  <2>4. ~exposed => \A u \in Tasks \ {t} : ~Launcher(u) BY <1>0, <2>3 DEF OneLauncher
  <2> QED BY <2>1, <2>2, <2>4 DEF DeathFinds, FindsNone, Finding, Turns, Launcher, InDeathHandler
<1>12. ASSUME NEW t \in Tasks, LaunchRefused(t) PROVE DeathFinds'
  BY <1>0, <1>e, <1>h, FindsKept, GotoIs, EndsIs, BeginsIs, <1>12 DEF LaunchRefused, HostOK, Finding, FindsNone, Turns, InItsProgram, Reviving
<1>13. ASSUME NEW t \in Tasks, LaunchBreaks(t) PROVE DeathFinds'
  <2>1. \E p \in {"settle", "revive", "unwind"} : Turns(t, task[t].op, p) BY <1>0, <1>13, GotoIs DEF LaunchBreaks
  <2>2. exposed => exposed' BY <1>13 DEF LaunchBreaks
  <2>3. Launcher(t) BY <1>e, <1>13 DEF LaunchBreaks, Launcher, InDeathHandler, InItsProgram
  <2>4. ~exposed => \A u \in Tasks \ {t} : ~Launcher(u) BY <1>0, <2>3 DEF OneLauncher
  <2> QED BY <2>1, <2>2, <2>4 DEF DeathFinds, FindsNone, Finding, Turns, Launcher, InDeathHandler
<1>14. ASSUME NEW t \in Tasks, Settle(t) PROVE DeathFinds'
  BY <1>0, <1>e, <1>h, FindsKept, GotoIs, EndsIs, BeginsIs, <1>14, FinishesIs DEF Settle, HostOK, Finding, FindsNone, Turns, InItsProgram, Reviving
<1>15. ASSUME NEW t \in Tasks, UnwindCreate(t) PROVE DeathFinds'
  BY <1>0, <1>e, <1>h, FindsKept, GotoIs, EndsIs, BeginsIs, <1>15 DEF UnwindCreate, HostOK, Finding, FindsNone, Turns, InItsProgram, Reviving
<1>16. ASSUME NEW t \in Tasks, Mark(t) PROVE DeathFinds'
  BY <1>0, <1>e, <1>h, FindsKept, GotoIs, EndsIs, BeginsIs, <1>16 DEF Mark, HostOK, Finding, FindsNone, Turns, InItsProgram, Reviving
<1>17. ASSUME NEW t \in Tasks, Retire(t) PROVE DeathFinds'
  BY <1>0, <1>e, <1>h, FindsKept, GotoIs, EndsIs, BeginsIs, <1>17, FinishesIs DEF Retire, HostOK, Finding, FindsNone, Turns, InItsProgram, Reviving
<1>18. ASSUME NEW t \in Tasks, KillOld(t) PROVE DeathFinds'
  BY <1>0, <1>e, <1>h, FindsKept, GotoIs, EndsIs, BeginsIs, <1>18, FinishesIs DEF KillOld, HostOK, Finding, FindsNone, Turns, InItsProgram, Reviving
<1>19. ASSUME NEW t \in Tasks, Park(t) PROVE DeathFinds'
  BY <1>0, <1>e, <1>h, FindsKept, GotoIs, EndsIs, BeginsIs, <1>19, ParkIs DEF Park, HostOK, Finding, FindsNone, Turns, InItsProgram, Reviving
<1>20. ASSUME NEW t \in Tasks, UnwindRestart(t) PROVE DeathFinds'
  BY <1>0, <1>e, <1>h, FindsKept, GotoIs, EndsIs, BeginsIs, <1>20 DEF UnwindRestart, HostOK, Finding, FindsNone, Turns, InItsProgram, Reviving
<1>21. ASSUME NEW t \in Tasks, CannotCompose(t) PROVE DeathFinds'
  BY <1>0, <1>e, <1>h, FindsKept, GotoIs, EndsIs, BeginsIs, <1>21 DEF CannotCompose, HostOK, Finding, FindsNone, Turns, InItsProgram, Reviving
<1>22. ASSUME NEW t \in Tasks, RotateKey(t) PROVE DeathFinds'
  BY <1>0, <1>e, <1>h, FindsKept, GotoIs, EndsIs, BeginsIs, <1>22 DEF RotateKey, HostOK, Finding, FindsNone, Turns, InItsProgram, Reviving
<1>23. ASSUME NEW t \in Tasks, Look(t) PROVE DeathFinds'
  BY <1>0, <1>e, <1>h, FindsKept, GotoIs, EndsIs, BeginsIs, <1>23 DEF Look, HostOK, Finding, FindsNone, Turns, InItsProgram, Reviving
<1>24. ASSUME NEW t \in Tasks, Revive(t) PROVE DeathFinds'
  BY <1>0, <1>e, <1>h, FindsKept, GotoIs, EndsIs, BeginsIs, <1>24, FinishesIs DEF Revive, HostOK, Finding, FindsNone, Turns, InItsProgram, Reviving
<1>25. ASSUME NEW t \in Tasks, KillOrphan(t) PROVE DeathFinds'
  BY <1>0, <1>e, <1>h, FindsKept, GotoIs, EndsIs, BeginsIs, <1>25 DEF KillOrphan, HostOK, Finding, FindsNone, Turns, InItsProgram, Reviving
<1>26. ASSUME NEW t \in Tasks, StopKills(t) PROVE DeathFinds'
  BY <1>0, <1>e, <1>h, FindsKept, GotoIs, EndsIs, BeginsIs, <1>26 DEF StopKills, HostOK, Finding, FindsNone, Turns, InItsProgram, Reviving
<1>27. ASSUME NEW t \in Tasks, KillFails(t) PROVE DeathFinds'
  BY <1>0, <1>e, <1>h, FindsKept, GotoIs, EndsIs, BeginsIs, <1>27, FinishesIs DEF KillFails, HostOK, Finding, FindsNone, Turns, InItsProgram, Reviving
<1>28. ASSUME NEW t \in Tasks, StopClaims(t) PROVE DeathFinds'
  BY <1>0, <1>e, <1>h, FindsKept, GotoIs, EndsIs, BeginsIs, <1>28 DEF StopClaims, HostOK, Finding, FindsNone, Turns, InItsProgram, Reviving
<1>29. ASSUME NEW t \in Tasks, DeleteKills(t) PROVE DeathFinds'
  BY <1>0, <1>e, <1>h, FindsKept, GotoIs, EndsIs, BeginsIs, <1>29 DEF DeleteKills, HostOK, Finding, FindsNone, Turns, InItsProgram, Reviving
<1>30. ASSUME NEW t \in Tasks, DeleteRevokes(t) PROVE DeathFinds'
  BY <1>0, <1>e, <1>h, FindsKept, GotoIs, EndsIs, BeginsIs, <1>30 DEF DeleteRevokes, HostOK, Finding, FindsNone, Turns, InItsProgram, Reviving
<1>31. ASSUME NEW t \in Tasks, DeleteRow(t) PROVE DeathFinds'
  BY <1>0, <1>e, <1>h, FindsKept, GotoIs, EndsIs, BeginsIs, <1>31 DEF DeleteRow, HostOK, Finding, FindsNone, Turns, InItsProgram, Reviving
<1>32. ASSUME NEW t \in Tasks, SweepRow(t) PROVE DeathFinds'
  BY <1>0, <1>e, <1>h, FindsKept, GotoIs, EndsIs, BeginsIs, <1>32 DEF SweepRow, HostOK, Finding, FindsNone, Turns, InItsProgram, Reviving
<1>33. ASSUME NEW t \in Tasks, Probe(t) PROVE DeathFinds'
  BY <1>0, <1>e, <1>h, FindsKept, GotoIs, EndsIs, BeginsIs, <1>33, ProbeIs DEF Probe, HostOK, Finding, FindsNone, Turns, InItsProgram, Reviving
<1>34. ASSUME NEW t \in Tasks, PatchAlive(t) PROVE DeathFinds'
  BY <1>0, <1>e, <1>h, FindsKept, GotoIs, EndsIs, BeginsIs, <1>34 DEF PatchAlive, HostOK, Finding, FindsNone, Turns, InItsProgram, Reviving
<1>35. ASSUME NEW t \in Tasks, FoldAlive(t) PROVE DeathFinds'
  <2>1. Turns(t, "idle", "end") \/ Turns(t, task[t].op, "bestKill") BY <1>0, <1>35, GotoIs, EndsIs DEF FoldAlive
  <2>2. pane' = pane /\ (exposed => exposed') BY <1>35 DEF FoldAlive
  <2> QED BY <1>0, <2>1, <2>2, FindsKept DEF Finding, FindsNone, Turns
<1>36. ASSUME NEW t \in Tasks, BestEffortKill(t) PROVE DeathFinds'
  BY <1>0, <1>e, <1>h, FindsKept, GotoIs, EndsIs, BeginsIs, <1>36 DEF BestEffortKill, HostOK, Finding, FindsNone, Turns, InItsProgram, Reviving
<1>37. ASSUME NEW t \in Tasks, CheckLease(t) PROVE DeathFinds'
  <2>1. exposed => exposed' BY <1>37 DEF CheckLease
  <2>2. CASE lease # None
    <3>1. Turns(t, "idle", "end") /\ pane' = pane BY <1>0, <1>37, <2>2, EndsIs DEF CheckLease
    <3> QED BY <1>0, <2>1, <3>1, FindsKept DEF FindsNone, Turns
  <2>3. CASE lease = None
    <3>1. Turns(t, "death", "fresh") /\ pane' = pane BY <1>0, <1>37, <2>3, GotoIs DEF CheckLease
    <3>2. ~exposed' => task[t].key = pane.key BY <1>37, <2>3 DEF CheckLease, StaleEvidence
    <3>3. ~exposed' => pane.is # "live" BY <1>0, <1>37, <3>2 DEF CheckLease, Evidence
    <3> QED BY <3>1, <3>3 DEF DeathFinds, FindsNone, Turns
  <2> QED BY <2>2, <2>3
<1>38. ASSUME NEW t \in Tasks, FreshRow(t) PROVE DeathFinds'
  BY <1>0, <1>e, <1>h, FindsKept, GotoIs, EndsIs, BeginsIs, <1>38, FreshRowIs DEF FreshRow, HostOK, Finding, FindsNone, Turns, InItsProgram, Reviving
<1>39. ASSUME NEW t \in Tasks, ClaimDeath(t) PROVE DeathFinds'
  BY <1>0, <1>e, <1>h, FindsKept, GotoIs, EndsIs, BeginsIs, <1>39 DEF ClaimDeath, HostOK, Finding, FindsNone, Turns, InItsProgram, Reviving
<1>40. ASSUME NEW t \in Tasks, Schedule(t) PROVE DeathFinds'
  BY <1>0, <1>e, <1>h, FindsKept, GotoIs, EndsIs, BeginsIs, <1>40 DEF Schedule, HostOK, Finding, FindsNone, Turns, InItsProgram, Reviving
<1>41. ASSUME NEW t \in Tasks, Defer(t) PROVE DeathFinds'
  BY <1>0, <1>e, <1>h, FindsKept, GotoIs, EndsIs, BeginsIs, <1>41 DEF Defer, HostOK, Finding, FindsNone, Turns, InItsProgram, Reviving
<1>42. ASSUME NEW t \in Tasks, AutoRestart(t) PROVE DeathFinds'
  BY <1>0, <1>e, <1>h, FindsKept, GotoIs, EndsIs, BeginsIs, <1>42, AutoRestartIs DEF AutoRestart, HostOK, Finding, FindsNone, Turns, InItsProgram, Reviving
<1>43. ASSUME NEW t \in Tasks, UnwindAuto(t) PROVE DeathFinds'
  BY <1>0, <1>e, <1>h, FindsKept, GotoIs, EndsIs, BeginsIs, <1>43 DEF UnwindAuto, HostOK, Finding, FindsNone, Turns, InItsProgram, Reviving
<1>44. ASSUME NEW t \in Tasks, Bury(t) PROVE DeathFinds'
  BY <1>0, <1>e, <1>h, FindsKept, GotoIs, EndsIs, BeginsIs, <1>44 DEF Bury, HostOK, Finding, FindsNone, Turns, InItsProgram, Reviving
<1>45. ASSUME NEW t \in Tasks, Reap(t) PROVE DeathFinds'
  BY <1>0, <1>e, <1>h, FindsKept, GotoIs, EndsIs, BeginsIs, <1>45 DEF Reap, HostOK, Finding, FindsNone, Turns, InItsProgram, Reviving
<1>46. ASSUME PaneDies PROVE DeathFinds'
  BY <1>0, <1>e, <1>h, FindsKept, GotoIs, EndsIs, BeginsIs, <1>46 DEF PaneDies, DeathFinds, HostOK, Finding, FindsNone, Turns
<1>47. ASSUME ReportIsLost PROVE DeathFinds'
  BY <1>0, <1>e, <1>h, FindsKept, GotoIs, EndsIs, BeginsIs, <1>47 DEF ReportIsLost, DeathFinds, HostOK, Finding, FindsNone, Turns
<1>48. ASSUME LinkDrops PROVE DeathFinds'
  BY <1>0, <1>e, <1>h, FindsKept, GotoIs, EndsIs, BeginsIs, <1>48 DEF LinkDrops, DeathFinds, HostOK, Finding, FindsNone, Turns
<1>49. ASSUME RetryFallsDue PROVE DeathFinds'
  BY <1>0, <1>e, <1>h, FindsKept, GotoIs, EndsIs, BeginsIs, <1>49 DEF RetryFallsDue, DeathFinds, HostOK, Finding, FindsNone, Turns
<1>50. ASSUME UNCHANGED vars PROVE DeathFinds'
  BY <1>0, <1>e, <1>h, FindsKept, GotoIs, EndsIs, BeginsIs, <1>50 DEF vars, DeathFinds, HostOK, Finding, FindsNone, Turns
<1> QED
  BY <1>1, <1>2, <1>3, <1>4, <1>5, <1>6, <1>7, <1>8, <1>9, <1>10, <1>11, <1>12, <1>13,
     <1>14, <1>15, <1>16, <1>17, <1>18, <1>19, <1>20, <1>21, <1>22, <1>23, <1>24, <1>25, <1>26,
     <1>27, <1>28, <1>29, <1>30, <1>31, <1>32, <1>33, <1>34, <1>35, <1>36, <1>37, <1>38, <1>39,
     <1>40, <1>41, <1>42, <1>43, <1>44, <1>45, <1>46, <1>47, <1>48, <1>49, <1>50
     DEF Next, Operation, Continue, Launching, Restarting, Stopping, Sweeping, Burying

-----------------------------------------------------------------------------
(* No live pane is left under a row that ended                             *)

\* While a create is in flight its row is alive, unless somebody is ending it.
CreateAlive ==
  ~exposed /\ Running /\ ~row.alive /\ (\E t \in Tasks : task[t].op = "create")
  => \E u \in Tasks : MidStop(u)

\* A step that neither begins a create, clears `alive` nor gives up an ending.
LEMMA CreateKept ==
  ASSUME CreateAlive, NEW t \in Tasks, NEW o, NEW p, Turns(t, o, p), exposed => exposed',
         Running' /\ ~row'.alive => Running /\ ~row.alive,
         o = "create" => task[t].op = "create",
         MidStop(t) => MidStop(t)' \/ ~Running'
  PROVE  CreateAlive'
  BY DEF CreateAlive, Turns, MidStop, AtAs

LEMMA CreateStep == ASSUME TypeOK, Launchers, CreateAlive, [Next]_vars PROVE CreateAlive'
<1> USE DEF At, AtAs, Free, RowBecomes, Running, Exists, Exposes, hostVars, dbVars, fixed
<1>0. TypeOK /\ OneLauncher /\ CreateAlive BY DEF Launchers
<1>e. \A t \in Tasks : InItsProgram(task[t]) BY DEF TypeOK
<1>d. DbOK BY Parts
<1>1. ASSUME NEW t \in Tasks, Create(t) PROVE CreateAlive'
  <2>1. row'.alive BY <1>d, <1>1 DEF Create, DbOK
  <2> QED BY <2>1 DEF CreateAlive
<1>2. ASSUME NEW t \in Tasks, Restart(t) PROVE CreateAlive'
  BY <1>0, <1>e, <1>d, CreateKept, GotoIs, EndsIs, BeginsIs, <1>2, RestartIs DEF Restart, MidStop, InItsProgram, Reviving, DbOK
<1>3. ASSUME NEW t \in Tasks, Stop(t) PROVE CreateAlive'
  BY <1>0, <1>e, <1>d, CreateKept, GotoIs, EndsIs, BeginsIs, <1>3 DEF Stop, MidStop, InItsProgram, Reviving, DbOK
<1>4. ASSUME NEW t \in Tasks, Delete(t) PROVE CreateAlive'
  BY <1>0, <1>e, <1>d, CreateKept, GotoIs, EndsIs, BeginsIs, <1>4 DEF Delete, MidStop, InItsProgram, Reviving, DbOK
<1>5. ASSUME NEW t \in Tasks, Sweep(t) PROVE CreateAlive'
  BY <1>0, <1>e, <1>d, CreateKept, GotoIs, EndsIs, BeginsIs, <1>5, SweepIs DEF Sweep, MidStop, InItsProgram, Reviving, DbOK
<1>6. ASSUME NEW t \in Tasks, Report(t) PROVE CreateAlive'
  <2>1. UNCHANGED <<exposed, row>> BY <1>6 DEF Report
  <2>2. task' = task \/ Turns(t, "death", "check") BY <1>0, <1>6, ReportIs
  <2>3. ~MidStop(t) BY <1>e, <1>6 DEF Report, MidStop, InItsProgram
  <2>4. CASE task' = task BY <1>0, <2>1, <2>4 DEF CreateAlive, MidStop
  <2>5. CASE Turns(t, "death", "check") BY <1>0, <2>1, <2>3, <2>5, CreateKept
  <2> QED BY <2>2, <2>4, <2>5
<1>7. ASSUME NEW t \in Tasks, NodeReports(t) PROVE CreateAlive'
  BY <1>0, <1>e, <1>d, CreateKept, GotoIs, EndsIs, BeginsIs, <1>7, NodeReportsIs DEF NodeReports, CreateAlive, MidStop, InItsProgram, DbOK
<1>8. ASSUME NEW t \in Tasks, LinkReturns(t) PROVE CreateAlive'
  BY <1>0, <1>e, <1>d, CreateKept, GotoIs, EndsIs, BeginsIs, <1>8, LinkReturnsIs DEF LinkReturns, CreateAlive, MidStop, InItsProgram, DbOK
<1>9. ASSUME NEW t \in Tasks, Mint(t) PROVE CreateAlive'
  <2>1. Turns(t, task[t].op, "link") BY <1>0, <1>9, MintIs
  <2> QED BY <1>0, <1>e, <1>9, <2>1, CreateKept DEF Mint, MidStop, InItsProgram, Reviving
<1>10. ASSUME NEW t \in Tasks, Link(t) PROVE CreateAlive'
  BY <1>0, <1>e, <1>d, CreateKept, GotoIs, EndsIs, BeginsIs, <1>10 DEF Link, MidStop, InItsProgram, Reviving, DbOK
<1>11. ASSUME NEW t \in Tasks, LaunchSucceeds(t) PROVE CreateAlive'
  <2>1. (exposed => exposed') /\ row' = row BY <1>11 DEF LaunchSucceeds
  <2>2. ~MidStop(t) BY <1>11 DEF LaunchSucceeds, MidStop
  <2>3. \E p \in {"settle", "revive", "unwind"} : Turns(t, task[t].op, p) BY <1>0, <1>11, GotoIs, EndsIs DEF LaunchSucceeds
  <2> QED BY <1>0, <2>1, <2>2, <2>3, CreateKept
<1>12. ASSUME NEW t \in Tasks, LaunchRefused(t) PROVE CreateAlive'
  BY <1>0, <1>e, <1>d, CreateKept, GotoIs, EndsIs, BeginsIs, <1>12 DEF LaunchRefused, MidStop, InItsProgram, Reviving, DbOK
<1>13. ASSUME NEW t \in Tasks, LaunchBreaks(t) PROVE CreateAlive'
  <2>1. (exposed => exposed') /\ row' = row BY <1>13 DEF LaunchBreaks
  <2>2. ~MidStop(t) BY <1>13 DEF LaunchBreaks, MidStop
  <2>3. \E p \in {"settle", "revive", "unwind"} : Turns(t, task[t].op, p) BY <1>0, <1>13, GotoIs, EndsIs DEF LaunchBreaks
  <2> QED BY <1>0, <2>1, <2>2, <2>3, CreateKept
<1>14. ASSUME NEW t \in Tasks, Settle(t) PROVE CreateAlive'
  BY <1>0, <1>e, <1>d, CreateKept, GotoIs, EndsIs, BeginsIs, <1>14, FinishesIs DEF Settle, MidStop, InItsProgram, Reviving, DbOK
<1>15. ASSUME NEW t \in Tasks, UnwindCreate(t) PROVE CreateAlive'
  BY <1>0, <1>e, <1>d, CreateKept, GotoIs, EndsIs, BeginsIs, <1>15 DEF UnwindCreate, MidStop, InItsProgram, Reviving, DbOK
<1>16. ASSUME NEW t \in Tasks, Mark(t) PROVE CreateAlive'
  BY <1>0, <1>e, <1>d, CreateKept, GotoIs, EndsIs, BeginsIs, <1>16 DEF Mark, MidStop, InItsProgram, Reviving, DbOK
<1>17. ASSUME NEW t \in Tasks, Retire(t) PROVE CreateAlive'
  BY <1>0, <1>e, <1>d, CreateKept, GotoIs, EndsIs, BeginsIs, <1>17, FinishesIs DEF Retire, MidStop, InItsProgram, Reviving, DbOK
<1>18. ASSUME NEW t \in Tasks, KillOld(t) PROVE CreateAlive'
  BY <1>0, <1>e, <1>d, CreateKept, GotoIs, EndsIs, BeginsIs, <1>18, FinishesIs DEF KillOld, MidStop, InItsProgram, Reviving, DbOK
<1>19. ASSUME NEW t \in Tasks, Park(t) PROVE CreateAlive'
  <2>1. exposed' = exposed /\ task[t].op = "restart" BY <1>e, <1>19 DEF Park, InItsProgram, Reviving
  <2>2. ~exposed => \A u \in Tasks : task[u].op # "create" BY <1>0, <2>1 DEF OneLauncher, Launcher
  <2>3. task'[t].op # "create" /\ \A u \in Tasks \ {t} : task'[u] = task[u] BY <1>0, <1>19, ParkIs DEF Turns
  <2> QED BY <2>1, <2>2, <2>3 DEF CreateAlive
<1>20. ASSUME NEW t \in Tasks, UnwindRestart(t) PROVE CreateAlive'
  BY <1>0, <1>e, <1>d, CreateKept, GotoIs, EndsIs, BeginsIs, <1>20 DEF UnwindRestart, MidStop, InItsProgram, Reviving, DbOK
<1>21. ASSUME NEW t \in Tasks, CannotCompose(t) PROVE CreateAlive'
  BY <1>0, <1>e, <1>d, CreateKept, GotoIs, EndsIs, BeginsIs, <1>21 DEF CannotCompose, MidStop, InItsProgram, Reviving, DbOK
<1>22. ASSUME NEW t \in Tasks, RotateKey(t) PROVE CreateAlive'
  BY <1>0, <1>e, <1>d, CreateKept, GotoIs, EndsIs, BeginsIs, <1>22 DEF RotateKey, MidStop, InItsProgram, Reviving, DbOK
<1>23. ASSUME NEW t \in Tasks, Look(t) PROVE CreateAlive'
  BY <1>0, <1>e, <1>d, CreateKept, GotoIs, EndsIs, BeginsIs, <1>23 DEF Look, MidStop, InItsProgram, Reviving, DbOK
<1>24. ASSUME NEW t \in Tasks, Revive(t) PROVE CreateAlive'
  BY <1>0, <1>e, <1>d, CreateKept, GotoIs, EndsIs, BeginsIs, <1>24, FinishesIs DEF Revive, MidStop, InItsProgram, Reviving, DbOK
<1>25. ASSUME NEW t \in Tasks, KillOrphan(t) PROVE CreateAlive'
  BY <1>0, <1>e, <1>d, CreateKept, GotoIs, EndsIs, BeginsIs, <1>25 DEF KillOrphan, MidStop, InItsProgram, Reviving, DbOK
<1>26. ASSUME NEW t \in Tasks, StopKills(t) PROVE CreateAlive'
  BY <1>0, <1>e, <1>d, CreateKept, GotoIs, EndsIs, BeginsIs, <1>26 DEF StopKills, MidStop, InItsProgram, Reviving, DbOK
<1>27. ASSUME NEW t \in Tasks, KillFails(t) PROVE CreateAlive'
  BY <1>0, <1>e, <1>d, CreateKept, GotoIs, EndsIs, BeginsIs, <1>27, FinishesIs DEF KillFails, MidStop, InItsProgram, Reviving, DbOK
<1>28. ASSUME NEW t \in Tasks, StopClaims(t) PROVE CreateAlive'
  <2>1. Turns(t, task[t].op, "mark") BY <1>0, <1>28, GotoIs DEF StopClaims
  <2> QED BY <2>1 DEF CreateAlive, MidStop, Turns
<1>29. ASSUME NEW t \in Tasks, DeleteKills(t) PROVE CreateAlive'
  BY <1>0, <1>e, <1>d, CreateKept, GotoIs, EndsIs, BeginsIs, <1>29 DEF DeleteKills, MidStop, InItsProgram, Reviving, DbOK
<1>30. ASSUME NEW t \in Tasks, DeleteRevokes(t) PROVE CreateAlive'
  <2>1. Turns(t, task[t].op, "drop") /\ exposed' = exposed /\ row' = row BY <1>0, <1>30, GotoIs DEF DeleteRevokes
  <2>2. MidStop(t)' BY <2>1 DEF MidStop, Turns
  <2> QED BY <1>0, <2>1, <2>2, CreateKept
<1>31. ASSUME NEW t \in Tasks, DeleteRow(t) PROVE CreateAlive'
  BY <1>0, <1>e, <1>d, CreateKept, GotoIs, EndsIs, BeginsIs, <1>31 DEF DeleteRow, MidStop, InItsProgram, Reviving, DbOK
<1>32. ASSUME NEW t \in Tasks, SweepRow(t) PROVE CreateAlive'
  BY <1>0, <1>e, <1>d, CreateKept, GotoIs, EndsIs, BeginsIs, <1>32 DEF SweepRow, MidStop, InItsProgram, Reviving, DbOK
<1>33. ASSUME NEW t \in Tasks, Probe(t) PROVE CreateAlive'
  BY <1>0, <1>e, <1>d, CreateKept, GotoIs, EndsIs, BeginsIs, <1>33, ProbeIs DEF Probe, MidStop, InItsProgram, Reviving, DbOK
<1>34. ASSUME NEW t \in Tasks, PatchAlive(t) PROVE CreateAlive'
  BY <1>0, <1>e, <1>d, CreateKept, GotoIs, EndsIs, BeginsIs, <1>34 DEF PatchAlive, MidStop, InItsProgram, Reviving, DbOK
<1>35. ASSUME NEW t \in Tasks, FoldAlive(t) PROVE CreateAlive'
  <2>1. Turns(t, "idle", "end") \/ Turns(t, task[t].op, "bestKill") BY <1>0, <1>35, GotoIs, EndsIs DEF FoldAlive
  <2>2. (exposed => exposed') /\ (Running' /\ ~row'.alive => Running /\ ~row.alive)
    BY <1>d, <1>35 DEF FoldAlive, DbOK
  <2>3. ~MidStop(t) BY <1>e, <1>35 DEF FoldAlive, MidStop
  <2> QED BY <1>0, <2>1, <2>2, <2>3, CreateKept DEF Finding
<1>36. ASSUME NEW t \in Tasks, BestEffortKill(t) PROVE CreateAlive'
  BY <1>0, <1>e, <1>d, CreateKept, GotoIs, EndsIs, BeginsIs, <1>36 DEF BestEffortKill, MidStop, InItsProgram, Reviving, DbOK
<1>37. ASSUME NEW t \in Tasks, CheckLease(t) PROVE CreateAlive'
  <2>1. (exposed => exposed') /\ row' = row BY <1>37 DEF CheckLease
  <2>2. ~MidStop(t) BY <1>37 DEF CheckLease, MidStop
  <2>3. Turns(t, "idle", "end") \/ Turns(t, "death", "fresh") BY <1>0, <1>37, GotoIs, EndsIs DEF CheckLease
  <2> QED BY <1>0, <2>1, <2>2, <2>3, CreateKept
<1>38. ASSUME NEW t \in Tasks, FreshRow(t) PROVE CreateAlive'
  BY <1>0, <1>e, <1>d, CreateKept, GotoIs, EndsIs, BeginsIs, <1>38, FreshRowIs DEF FreshRow, MidStop, InItsProgram, Reviving, DbOK
<1>39. ASSUME NEW t \in Tasks, ClaimDeath(t) PROVE CreateAlive'
  <2>1. Turns(t, "death", "settled") /\ exposed' = exposed BY <1>0, <1>39, GotoIs DEF ClaimDeath
  <2>2. ~exposed => \A u \in Tasks : task[u].op # "create" BY <1>0, <1>39
      DEF ClaimDeath, OneLauncher, Launcher, InDeathHandler
  <2> QED BY <2>1, <2>2 DEF CreateAlive, Turns
<1>40. ASSUME NEW t \in Tasks, Schedule(t) PROVE CreateAlive'
  BY <1>0, <1>e, <1>d, CreateKept, GotoIs, EndsIs, BeginsIs, <1>40 DEF Schedule, MidStop, InItsProgram, Reviving, DbOK
<1>41. ASSUME NEW t \in Tasks, Defer(t) PROVE CreateAlive'
  BY <1>0, <1>e, <1>d, CreateKept, GotoIs, EndsIs, BeginsIs, <1>41 DEF Defer, MidStop, InItsProgram, Reviving, DbOK
<1>42. ASSUME NEW t \in Tasks, AutoRestart(t) PROVE CreateAlive'
  <2>1. Turns(t, task[t].op, "revoke") BY <1>0, <1>42, AutoRestartIs
  <2> QED BY <1>0, <1>e, <1>42, <2>1, CreateKept DEF AutoRestart, MidStop, InItsProgram, Reviving
<1>43. ASSUME NEW t \in Tasks, UnwindAuto(t) PROVE CreateAlive'
  BY <1>0, <1>e, <1>d, CreateKept, GotoIs, EndsIs, BeginsIs, <1>43 DEF UnwindAuto, MidStop, InItsProgram, Reviving, DbOK
<1>44. ASSUME NEW t \in Tasks, Bury(t) PROVE CreateAlive'
  BY <1>0, <1>e, <1>d, CreateKept, GotoIs, EndsIs, BeginsIs, <1>44 DEF Bury, MidStop, InItsProgram, Reviving, DbOK
<1>45. ASSUME NEW t \in Tasks, Reap(t) PROVE CreateAlive'
  BY <1>0, <1>e, <1>d, CreateKept, GotoIs, EndsIs, BeginsIs, <1>45 DEF Reap, MidStop, InItsProgram, Reviving, DbOK
<1>46. ASSUME PaneDies PROVE CreateAlive'
  BY <1>0, <1>e, <1>d, CreateKept, GotoIs, EndsIs, BeginsIs, <1>46 DEF PaneDies, CreateAlive, MidStop, InItsProgram, DbOK
<1>47. ASSUME ReportIsLost PROVE CreateAlive'
  BY <1>0, <1>e, <1>d, CreateKept, GotoIs, EndsIs, BeginsIs, <1>47 DEF ReportIsLost, CreateAlive, MidStop, InItsProgram, DbOK
<1>48. ASSUME LinkDrops PROVE CreateAlive'
  BY <1>0, <1>e, <1>d, CreateKept, GotoIs, EndsIs, BeginsIs, <1>48 DEF LinkDrops, CreateAlive, MidStop, InItsProgram, DbOK
<1>49. ASSUME RetryFallsDue PROVE CreateAlive'
  BY <1>0, <1>e, <1>d, CreateKept, GotoIs, EndsIs, BeginsIs, <1>49 DEF RetryFallsDue, CreateAlive, MidStop, InItsProgram, DbOK
<1>50. ASSUME UNCHANGED vars PROVE CreateAlive'
  BY <1>0, <1>e, <1>d, CreateKept, GotoIs, EndsIs, BeginsIs, <1>50 DEF vars, CreateAlive, MidStop, InItsProgram, DbOK
<1> QED
  BY <1>1, <1>2, <1>3, <1>4, <1>5, <1>6, <1>7, <1>8, <1>9, <1>10, <1>11, <1>12, <1>13,
     <1>14, <1>15, <1>16, <1>17, <1>18, <1>19, <1>20, <1>21, <1>22, <1>23, <1>24, <1>25, <1>26,
     <1>27, <1>28, <1>29, <1>30, <1>31, <1>32, <1>33, <1>34, <1>35, <1>36, <1>37, <1>38, <1>39,
     <1>40, <1>41, <1>42, <1>43, <1>44, <1>45, <1>46, <1>47, <1>48, <1>49, <1>50
     DEF Next, Operation, Continue, Launching, Restarting, Stopping, Sweeping, Burying

\* A task that will look at the row again and kill the pane if the row has ended.
Reviver(v) == task[v].op \in {"restart", "death"} /\ task[v].pc \in {"revive", "orphan"}
Minds(v) == Reviver(v) \/ (task[v].op = "create" /\ task[v].pc \in {"settle", "unwind", "orphan"})

\* A sweep or a census that found the pane alive has yet to look at the row.
Folds(v) == task[v].pc \in {"fold", "bestKill"}

\* A restart that takes the old pane for gone.
TakesForGone(t) ==
  /\ task[t].op = "restart"
  /\ \/ task[t].pc \in {"park", "revoke", "mint", "link", "look", "launch", "unwind"}
     \/ task[t].pc = "kill" /\ ~task[t].alive

\* A live pane in reach that nobody has just found.
Stray == ~exposed /\ Reachable /\ pane.is = "live" /\ \A v \in Tasks : ~Folds(v)

EndedRow == row.status = "terminated" \/ (row.status = "gone" /\ place = "local")

\* Nobody ends a row over a live pane; one whose row has ended, or is not alive,
\* has a task that minds it; and no restart takes it for gone.
StrayInv ==
  Stray => /\ \A t \in Tasks : ~MidStop(t) /\ ~TakesForGone(t)
           /\ EndedRow => \E v \in Tasks : Minds(v)
           /\ Running /\ ~row.alive => \E v \in Tasks : Reviver(v)

\* A step that strays no pane.
LEMMA StrayKept ==
  ASSUME StrayInv, NEW t \in Tasks, NEW o, NEW p, Turns(t, o, p),
         Stray' => ~exposed /\ Reachable /\ pane.is = "live" /\ ~Folds(t),
         Stray' /\ ~MidStop(t) /\ ~TakesForGone(t) =>
           /\ ~MidStop(t)' /\ ~TakesForGone(t)'
           /\ EndedRow' => EndedRow /\ (Minds(t) => Minds(t)')
           /\ Running' /\ ~row'.alive => Running /\ ~row.alive /\ (Reviver(t) => Reviver(t)')
  PROVE  StrayInv'
  <1> SUFFICES ASSUME Stray'
               PROVE  /\ \A u \in Tasks : ~MidStop(u)' /\ ~TakesForGone(u)'
                      /\ EndedRow' => \E v \in Tasks : Minds(v)'
                      /\ Running' /\ ~row'.alive => \E v \in Tasks : Reviver(v)'
    BY DEF StrayInv
  <1>1. \A u \in Tasks \ {t} : /\ MidStop(u)' = MidStop(u) /\ TakesForGone(u)' = TakesForGone(u)
                               /\ Minds(u)' = Minds(u) /\ Reviver(u)' = Reviver(u) /\ Folds(u)' = Folds(u)
    BY DEF Turns, MidStop, AtAs, TakesForGone, Minds, Reviver, Folds
  <1>2. \A u \in Tasks : ~Folds(u) BY <1>1 DEF Stray
  <1>3. Stray BY <1>2 DEF Stray
  <1>4. \A u \in Tasks : ~MidStop(u)' /\ ~TakesForGone(u)' BY <1>1, <1>3 DEF StrayInv
  <1>5. EndedRow' => \E v \in Tasks : Minds(v)' BY <1>1, <1>3 DEF StrayInv
  <1>6. Running' /\ ~row'.alive => \E v \in Tasks : Reviver(v)' BY <1>1, <1>3 DEF StrayInv
  <1> QED BY <1>4, <1>5, <1>6

\* The same, of a step of no task.
LEMMA StrayStill ==
  ASSUME StrayInv, UNCHANGED <<task, place, exposed>>, row'.status = row.status, row'.alive = row.alive,
         Stray' => Reachable /\ pane.is = "live"
  PROVE  StrayInv'
  <1> USE DEF MidStop, AtAs, TakesForGone, Minds, Reviver, Folds
  <1>1. Stray' => Stray BY DEF Stray
  <1> QED BY <1>1 DEF StrayInv, EndedRow, Running

\* What the other invariants add.
Apart == Launchers /\ KeysInv /\ Where /\ DeathFinds /\ CreateAlive

\* No step strays a pane but an exposed one.
LEMMA StrayStep == ASSUME TypeOK, Apart, StrayInv, [Next]_vars PROVE StrayInv'
<1> USE DEF At, AtAs, Free, NoPane, RowBecomes, Running, Exists, Exposes, Reachable, hostVars, dbVars, fixed
<1>0. TypeOK /\ OneLauncher /\ NothingYet /\ Where /\ DeathFinds /\ CreateAlive /\ StrayInv
  BY DEF Apart, Launchers
<1>e. \A t \in Tasks : InItsProgram(task[t]) /\ (lease = t <=> task[t].op = "restart") /\ t # None
  BY NoneAssumption DEF TypeOK
<1>d. DbOK /\ HostOK BY Parts
<1>1. ASSUME NEW t \in Tasks, Create(t) PROVE StrayInv'
  <2>1. pane'.is = "none" BY <1>0, <1>1 DEF Create, NothingYet
  <2> QED BY <2>1 DEF StrayInv, Stray
<1>2. ASSUME NEW t \in Tasks, Restart(t) PROVE StrayInv'
  <2>1. Turns(t, "restart", "kill") /\ task'[t].alive = row.alive BY <1>0, <1>2, RestartIs
  <2>2. UNCHANGED <<row, pane, place, online>> /\ (exposed => exposed') BY <1>2 DEF Restart
  <2>3. ~exposed' => \A u \in Tasks : ~Minds(u) /\ ~Folds(t)
    <3>1. ~exposed' => ~MeetsUnleased /\ lease = None BY <1>2 DEF Restart
    <3> QED BY <1>e, <3>1, <1>2 DEF Restart, MeetsUnleased, InDeathHandler, Minds, Reviver, Folds, InItsProgram
  <2>4. Stray' => Stray BY <2>1, <2>2, <2>3 DEF Stray, Turns, Folds
  <2>5. Stray' => Running /\ row.alive
    BY <1>0, <2>2, <2>3, <2>4, <1>2 DEF Restart, StrayInv, EndedRow, Minds, Stray
  <2>6. ~Folds(t) /\ ~MidStop(t)' BY <1>e, <2>1, <1>2 DEF Restart, Folds, MidStop, Turns, InItsProgram
  <2>7. Stray' => ~TakesForGone(t)' BY <2>1, <2>5 DEF TakesForGone, Turns
  <2> QED BY <1>0, <2>1, <2>2, <2>4, <2>5, <2>6, <2>7, StrayKept DEF Stray, EndedRow
<1>3. ASSUME NEW t \in Tasks, Stop(t) PROVE StrayInv'
  <2>1. Turns(t, "stop", "kill")
    BY <1>0, <1>3, BeginsIs DEF Stop
  <2>2. Stray' => ~exposed /\ Reachable /\ pane.is = "live" /\ ~Folds(t)
    BY <1>d, <1>e, <1>3, <2>1 DEF Stop, Stray, HostOK, Folds, Turns, InItsProgram, Reviving
  <2>3. Stray' /\ ~MidStop(t) /\ ~TakesForGone(t) =>
          /\ ~MidStop(t)' /\ ~TakesForGone(t)'
          /\ EndedRow' => EndedRow /\ (Minds(t) => Minds(t)')
          /\ Running' /\ ~row'.alive => Running /\ ~row.alive /\ (Reviver(t) => Reviver(t)')
    BY <1>d, <1>e, <1>3, <2>1 DEF Stop, Stray, DbOK, HostOK, MidStop, TakesForGone, EndedRow, Minds, Reviver,
                               Turns, InItsProgram, Reviving, AsRead, Finishes, NoRow
  <2> QED BY <1>0, <2>1, <2>2, <2>3, StrayKept
<1>4. ASSUME NEW t \in Tasks, Delete(t) PROVE StrayInv'
  <2>1. Turns(t, "delete", "kill")
    BY <1>0, <1>4, BeginsIs DEF Delete
  <2>2. Stray' => ~exposed /\ Reachable /\ pane.is = "live" /\ ~Folds(t)
    BY <1>d, <1>e, <1>4, <2>1 DEF Delete, Stray, HostOK, Folds, Turns, InItsProgram, Reviving
  <2>3. Stray' /\ ~MidStop(t) /\ ~TakesForGone(t) =>
          /\ ~MidStop(t)' /\ ~TakesForGone(t)'
          /\ EndedRow' => EndedRow /\ (Minds(t) => Minds(t)')
          /\ Running' /\ ~row'.alive => Running /\ ~row.alive /\ (Reviver(t) => Reviver(t)')
    BY <1>d, <1>e, <1>4, <2>1 DEF Delete, Stray, DbOK, HostOK, MidStop, TakesForGone, EndedRow, Minds, Reviver,
                               Turns, InItsProgram, Reviving, AsRead, Finishes, NoRow
  <2> QED BY <1>0, <2>1, <2>2, <2>3, StrayKept
<1>5. ASSUME NEW t \in Tasks, Sweep(t) PROVE StrayInv'
  <2>1. Turns(t, "sweep", "row")
    BY <1>0, <1>5, SweepIs DEF Sweep
  <2>2. Stray' => ~exposed /\ Reachable /\ pane.is = "live" /\ ~Folds(t)
    BY <1>d, <1>e, <1>5, <2>1 DEF Sweep, Stray, HostOK, Folds, Turns, InItsProgram, Reviving
  <2>3. Stray' /\ ~MidStop(t) /\ ~TakesForGone(t) =>
          /\ ~MidStop(t)' /\ ~TakesForGone(t)'
          /\ EndedRow' => EndedRow /\ (Minds(t) => Minds(t)')
          /\ Running' /\ ~row'.alive => Running /\ ~row.alive /\ (Reviver(t) => Reviver(t)')
    BY <1>d, <1>e, <1>5, <2>1 DEF Sweep, Stray, DbOK, HostOK, MidStop, TakesForGone, EndedRow, Minds, Reviver,
                               Turns, InItsProgram, Reviving, AsRead, Finishes, NoRow
  <2> QED BY <1>0, <2>1, <2>2, <2>3, StrayKept
<1>6. ASSUME NEW t \in Tasks, Report(t) PROVE StrayInv'
  <2>1. UNCHANGED <<exposed, pane, row, place, online>> BY <1>6 DEF Report
  <2>2. task' = task \/ Turns(t, "death", "check") BY <1>0, <1>6, ReportIs
  <2>3. CASE task' = task BY <1>0, <2>1, <2>3, StrayStill DEF Stray
  <2>4. CASE Turns(t, "death", "check")
    <3>1. ~Folds(t) /\ ~Minds(t) /\ ~Reviver(t) BY <1>e, <1>6 DEF Report, Folds, Minds, Reviver, InItsProgram
    <3>2. ~MidStop(t)' /\ ~TakesForGone(t)' BY <2>4 DEF Turns, MidStop, TakesForGone
    <3> QED BY <1>0, <2>1, <2>4, <3>1, <3>2, StrayKept DEF Stray, EndedRow
  <2> QED BY <2>2, <2>3, <2>4
<1>7. ASSUME NEW t \in Tasks, NodeReports(t) PROVE StrayInv'
  <2>1. pane'.is # "live" BY <1>d, <1>7 DEF NodeReports, HostOK
  <2> QED BY <2>1 DEF StrayInv, Stray
<1>8. ASSUME NEW t \in Tasks, LinkReturns(t) PROVE StrayInv'
  <2>1. pane' = pane /\ UNCHANGED <<exposed, row, place>> BY <1>8 DEF LinkReturns
  <2>2. CASE pane.is = "live"
    <3>1. Folds(t)' BY <1>0, <1>8, <2>2, LinkReturnsIs DEF Folds, Turns
    <3> QED BY <3>1 DEF StrayInv, Stray
  <2>3. CASE pane.is # "live" BY <2>1, <2>3 DEF StrayInv, Stray
  <2> QED BY <2>2, <2>3
<1>9. ASSUME NEW t \in Tasks, Mint(t) PROVE StrayInv'
  <2>1. Turns(t, task[t].op, "link")
    BY <1>0, <1>9, MintIs DEF Mint
  <2>2. Stray' => ~exposed /\ Reachable /\ pane.is = "live" /\ ~Folds(t)
    BY <1>d, <1>e, <1>9, <2>1 DEF Mint, Stray, HostOK, Folds, Turns, InItsProgram, Reviving
  <2>3. Stray' /\ ~MidStop(t) /\ ~TakesForGone(t) =>
          /\ ~MidStop(t)' /\ ~TakesForGone(t)'
          /\ EndedRow' => EndedRow /\ (Minds(t) => Minds(t)')
          /\ Running' /\ ~row'.alive => Running /\ ~row.alive /\ (Reviver(t) => Reviver(t)')
    BY <1>d, <1>e, <1>9, <2>1 DEF Mint, Stray, DbOK, HostOK, MidStop, TakesForGone, EndedRow, Minds, Reviver,
                               Turns, InItsProgram, Reviving, AsRead, Finishes, NoRow
  <2> QED BY <1>0, <2>1, <2>2, <2>3, StrayKept
<1>10. ASSUME NEW t \in Tasks, Link(t) PROVE StrayInv'
  <2>1. \E p \in {"launch", "look"} : Turns(t, task[t].op, p)
    BY <1>0, <1>10, GotoIs DEF Link
  <2>2. Stray' => ~exposed /\ Reachable /\ pane.is = "live" /\ ~Folds(t)
    BY <1>d, <1>e, <1>10, <2>1 DEF Link, Stray, HostOK, Folds, Turns, InItsProgram, Reviving
  <2>3. Stray' /\ ~MidStop(t) /\ ~TakesForGone(t) =>
          /\ ~MidStop(t)' /\ ~TakesForGone(t)'
          /\ EndedRow' => EndedRow /\ (Minds(t) => Minds(t)')
          /\ Running' /\ ~row'.alive => Running /\ ~row.alive /\ (Reviver(t) => Reviver(t)')
    BY <1>d, <1>e, <1>10, <2>1 DEF Link, Stray, DbOK, HostOK, MidStop, TakesForGone, EndedRow, Minds, Reviver,
                               Turns, InItsProgram, Reviving, AsRead, Finishes, NoRow
  <2> QED BY <1>0, <2>1, <2>2, <2>3, StrayKept
<1>11. ASSUME NEW t \in Tasks, LaunchSucceeds(t) PROVE StrayInv'
  <2>1. Turns(t, task[t].op, IF task[t].op = "create" THEN "settle" ELSE "revive") BY <1>0, <1>11, GotoIs DEF LaunchSucceeds
  <2>2. task[t].op \in {"create", "restart", "death"} BY <1>e, <1>11 DEF LaunchSucceeds, InItsProgram
  <2>3. UNCHANGED <<row, place>> /\ (exposed => exposed') BY <1>11 DEF LaunchSucceeds
  <2>4. ~exposed' => \A u \in Tasks : ~MidStop(u) BY <1>11 DEF LaunchSucceeds
  <2>5. ~exposed' => \A u \in Tasks \ {t} : ~Launcher(u)
    BY <1>0, <2>2, <2>3, <1>11 DEF LaunchSucceeds, OneLauncher, Launcher, InDeathHandler
  <2>6. ~exposed' => \A u \in Tasks : ~MidStop(u)' BY <2>1, <2>4 DEF MidStop, Turns
  <2>7. ~exposed' => \A u \in Tasks : ~TakesForGone(u)'
    BY <2>1, <2>3, <2>5, <1>11 DEF LaunchSucceeds, TakesForGone, Turns, Launcher
  <2>8. ~exposed' => Minds(t)' BY <2>1, <2>2, <1>11 DEF LaunchSucceeds, Minds, Reviver, Turns
  <2>9. ~exposed' /\ Running /\ ~row.alive => Reviver(t)'
    <3>1. ~exposed' /\ Running /\ ~row.alive => task[t].op # "create" BY <1>0, <2>3, <2>4 DEF CreateAlive
    <3> QED BY <2>1, <2>2, <3>1, <1>11 DEF LaunchSucceeds, Reviver, Turns
  <2> QED BY <2>3, <2>6, <2>7, <2>8, <2>9 DEF StrayInv, Stray
<1>12. ASSUME NEW t \in Tasks, LaunchRefused(t) PROVE StrayInv'
  <2>1. Turns(t, task[t].op, "unwind")
    BY <1>0, <1>12, GotoIs DEF LaunchRefused
  <2>2. Stray' => ~exposed /\ Reachable /\ pane.is = "live" /\ ~Folds(t)
    BY <1>d, <1>e, <1>12, <2>1 DEF LaunchRefused, Stray, HostOK, Folds, Turns, InItsProgram, Reviving
  <2>3. Stray' /\ ~MidStop(t) /\ ~TakesForGone(t) =>
          /\ ~MidStop(t)' /\ ~TakesForGone(t)'
          /\ EndedRow' => EndedRow /\ (Minds(t) => Minds(t)')
          /\ Running' /\ ~row'.alive => Running /\ ~row.alive /\ (Reviver(t) => Reviver(t)')
    BY <1>d, <1>e, <1>12, <2>1 DEF LaunchRefused, Stray, DbOK, HostOK, MidStop, TakesForGone, EndedRow, Minds, Reviver,
                               Turns, InItsProgram, Reviving, AsRead, Finishes, NoRow
  <2> QED BY <1>0, <2>1, <2>2, <2>3, StrayKept
<1>13. ASSUME NEW t \in Tasks, LaunchBreaks(t) PROVE StrayInv'
  <2>1. Turns(t, task[t].op, "unwind") BY <1>0, <1>13, GotoIs DEF LaunchBreaks
  <2>2. task[t].op \in {"create", "restart", "death"} BY <1>e, <1>13 DEF LaunchBreaks, InItsProgram
  <2>3. UNCHANGED <<row, place>> /\ (exposed => exposed') BY <1>13 DEF LaunchBreaks
  <2>4. ~exposed' => \A u \in Tasks : ~MidStop(u) BY <1>13 DEF LaunchBreaks
  <2>5. ~exposed' => \A u \in Tasks \ {t} : ~Launcher(u)
    BY <1>0, <2>2, <2>3, <1>13 DEF LaunchBreaks, OneLauncher, Launcher, InDeathHandler
  <2>6. ~exposed' => \A u \in Tasks : ~MidStop(u)' BY <2>1, <2>4 DEF MidStop, Turns
  <2>7. ~exposed' => \A u \in Tasks : ~TakesForGone(u)'
    BY <2>1, <2>3, <2>5, <1>13 DEF LaunchBreaks, TakesForGone, Turns, Launcher
  <2>8. ~exposed' => Minds(t)' BY <2>1, <2>2, <1>13 DEF LaunchBreaks, Minds, Reviver, Turns
  <2>9. ~exposed' /\ Running /\ ~row.alive => Reviver(t)'
    <3>1. ~exposed' /\ Running /\ ~row.alive => task[t].op # "create" BY <1>0, <2>3, <2>4 DEF CreateAlive
    <3> QED BY <2>1, <2>2, <3>1, <1>13 DEF LaunchBreaks, Reviver, Turns
  <2> QED BY <2>3, <2>6, <2>7, <2>8, <2>9 DEF StrayInv, Stray
<1>14. ASSUME NEW t \in Tasks, Settle(t) PROVE StrayInv'
  <2>1. (Running /\ Turns(t, "idle", "end")) \/ (~Running /\ Turns(t, task[t].op, "orphan"))
    BY <1>0, <1>14, GotoIs, FinishesIs DEF Settle
  <2>2. Stray' => ~exposed /\ Reachable /\ pane.is = "live" /\ ~Folds(t)
    BY <1>d, <1>e, <1>14, <2>1 DEF Settle, Stray, HostOK, Folds, Turns, InItsProgram, Reviving
  <2>3. Stray' /\ ~MidStop(t) /\ ~TakesForGone(t) =>
          /\ ~MidStop(t)' /\ ~TakesForGone(t)'
          /\ EndedRow' => EndedRow /\ (Minds(t) => Minds(t)')
          /\ Running' /\ ~row'.alive => Running /\ ~row.alive /\ (Reviver(t) => Reviver(t)')
    BY <1>d, <1>e, <1>14, <2>1 DEF Settle, Stray, DbOK, HostOK, MidStop, TakesForGone, EndedRow, Minds, Reviver,
                               Turns, InItsProgram, Reviving, AsRead, Finishes, NoRow
  <2> QED BY <1>0, <2>1, <2>2, <2>3, StrayKept
<1>15. ASSUME NEW t \in Tasks, UnwindCreate(t) PROVE StrayInv'
  <2>1. Reachable' => pane'.is = "none" BY <1>d, <1>15 DEF UnwindCreate, HostOK
  <2> QED BY <2>1 DEF StrayInv, Stray
<1>16. ASSUME NEW t \in Tasks, Mark(t) PROVE StrayInv'
  <2>1. Turns(t, task[t].op, "retire")
    BY <1>0, <1>16, GotoIs DEF Mark
  <2>2. Stray' => ~exposed /\ Reachable /\ pane.is = "live" /\ ~Folds(t)
    BY <1>d, <1>e, <1>16, <2>1 DEF Mark, Stray, HostOK, Folds, Turns, InItsProgram, Reviving
  <2>3. Stray' /\ ~MidStop(t) /\ ~TakesForGone(t) =>
          /\ ~MidStop(t)' /\ ~TakesForGone(t)'
          /\ EndedRow' => EndedRow /\ (Minds(t) => Minds(t)')
          /\ Running' /\ ~row'.alive => Running /\ ~row.alive /\ (Reviver(t) => Reviver(t)')
    BY <1>d, <1>e, <1>16, <2>1 DEF Mark, Stray, DbOK, HostOK, MidStop, TakesForGone, EndedRow, Minds, Reviver,
                               Turns, InItsProgram, Reviving, AsRead, Finishes, NoRow
  <2> QED BY <1>0, <2>1, <2>2, <2>3, StrayKept
<1>17. ASSUME NEW t \in Tasks, Retire(t) PROVE StrayInv'
  <2>1. Turns(t, "idle", "end") \/ Turns(t, task[t].op, "settled")
    BY <1>0, <1>17, GotoIs, FinishesIs DEF Retire
  <2>2. Stray' => ~exposed /\ Reachable /\ pane.is = "live" /\ ~Folds(t)
    BY <1>d, <1>e, <1>17, <2>1 DEF Retire, Stray, HostOK, Folds, Turns, InItsProgram, Reviving
  <2>3. Stray' /\ ~MidStop(t) /\ ~TakesForGone(t) =>
          /\ ~MidStop(t)' /\ ~TakesForGone(t)'
          /\ EndedRow' => EndedRow /\ (Minds(t) => Minds(t)')
          /\ Running' /\ ~row'.alive => Running /\ ~row.alive /\ (Reviver(t) => Reviver(t)')
    BY <1>d, <1>e, <1>17, <2>1 DEF Retire, Stray, DbOK, HostOK, MidStop, TakesForGone, EndedRow, Minds, Reviver,
                               Turns, InItsProgram, Reviving, AsRead, Finishes, NoRow
  <2> QED BY <1>0, <2>1, <2>2, <2>3, StrayKept
<1>18. ASSUME NEW t \in Tasks, KillOld(t) PROVE StrayInv'
  <2>1. Turns(t, "idle", "end") \/ Turns(t, task[t].op, "park")
    BY <1>0, <1>18, GotoIs, FinishesIs DEF KillOld
  <2>2. Stray' => ~exposed /\ Reachable /\ pane.is = "live" /\ ~Folds(t)
    BY <1>d, <1>e, <1>18, <2>1 DEF KillOld, Stray, HostOK, Folds, Turns, InItsProgram, Reviving
  <2>3. Stray' /\ ~MidStop(t) /\ ~TakesForGone(t) =>
          /\ ~MidStop(t)' /\ ~TakesForGone(t)'
          /\ EndedRow' => EndedRow /\ (Minds(t) => Minds(t)')
          /\ Running' /\ ~row'.alive => Running /\ ~row.alive /\ (Reviver(t) => Reviver(t)')
    BY <1>d, <1>e, <1>18, <2>1 DEF KillOld, Stray, DbOK, HostOK, MidStop, TakesForGone, EndedRow, Minds, Reviver,
                               Turns, InItsProgram, Reviving, AsRead, Finishes, NoRow
  <2> QED BY <1>0, <2>1, <2>2, <2>3, StrayKept
<1>19. ASSUME NEW t \in Tasks, Park(t) PROVE StrayInv'
  <2>1. Turns(t, "restart", "revoke") \/ Turns(t, "idle", "end")
    BY <1>0, <1>19, ParkIs DEF Park
  <2>2. Stray' => ~exposed /\ Reachable /\ pane.is = "live" /\ ~Folds(t)
    BY <1>d, <1>e, <1>19, <2>1 DEF Park, Stray, HostOK, Folds, Turns, InItsProgram, Reviving
  <2>3. Stray' /\ ~MidStop(t) /\ ~TakesForGone(t) =>
          /\ ~MidStop(t)' /\ ~TakesForGone(t)'
          /\ EndedRow' => EndedRow /\ (Minds(t) => Minds(t)')
          /\ Running' /\ ~row'.alive => Running /\ ~row.alive /\ (Reviver(t) => Reviver(t)')
    BY <1>d, <1>e, <1>19, <2>1 DEF Park, Stray, DbOK, HostOK, MidStop, TakesForGone, EndedRow, Minds, Reviver,
                               Turns, InItsProgram, Reviving, AsRead, Finishes, NoRow
  <2> QED BY <1>0, <2>1, <2>2, <2>3, StrayKept
<1>20. ASSUME NEW t \in Tasks, UnwindRestart(t) PROVE StrayInv'
  <2>1. Turns(t, task[t].op, "mark")
    BY <1>0, <1>20, GotoIs DEF UnwindRestart
  <2>2. Stray' => ~exposed /\ Reachable /\ pane.is = "live" /\ ~Folds(t)
    BY <1>d, <1>e, <1>20, <2>1 DEF UnwindRestart, Stray, HostOK, Folds, Turns, InItsProgram, Reviving
  <2>3. Stray' /\ ~MidStop(t) /\ ~TakesForGone(t) =>
          /\ ~MidStop(t)' /\ ~TakesForGone(t)'
          /\ EndedRow' => EndedRow /\ (Minds(t) => Minds(t)')
          /\ Running' /\ ~row'.alive => Running /\ ~row.alive /\ (Reviver(t) => Reviver(t)')
    BY <1>d, <1>e, <1>20, <2>1 DEF UnwindRestart, Stray, DbOK, HostOK, MidStop, TakesForGone, EndedRow, Minds, Reviver,
                               Turns, InItsProgram, Reviving, AsRead, Finishes, NoRow
  <2> QED BY <1>0, <2>1, <2>2, <2>3, StrayKept
<1>21. ASSUME NEW t \in Tasks, CannotCompose(t) PROVE StrayInv'
  <2>1. Turns(t, task[t].op, "unwind")
    BY <1>0, <1>21, GotoIs DEF CannotCompose
  <2>2. Stray' => ~exposed /\ Reachable /\ pane.is = "live" /\ ~Folds(t)
    BY <1>d, <1>e, <1>21, <2>1 DEF CannotCompose, Stray, HostOK, Folds, Turns, InItsProgram, Reviving
  <2>3. Stray' /\ ~MidStop(t) /\ ~TakesForGone(t) =>
          /\ ~MidStop(t)' /\ ~TakesForGone(t)'
          /\ EndedRow' => EndedRow /\ (Minds(t) => Minds(t)')
          /\ Running' /\ ~row'.alive => Running /\ ~row.alive /\ (Reviver(t) => Reviver(t)')
    BY <1>d, <1>e, <1>21, <2>1 DEF CannotCompose, Stray, DbOK, HostOK, MidStop, TakesForGone, EndedRow, Minds, Reviver,
                               Turns, InItsProgram, Reviving, AsRead, Finishes, NoRow
  <2> QED BY <1>0, <2>1, <2>2, <2>3, StrayKept
<1>22. ASSUME NEW t \in Tasks, RotateKey(t) PROVE StrayInv'
  <2>1. Turns(t, task[t].op, "mint")
    BY <1>0, <1>22, GotoIs DEF RotateKey
  <2>2. Stray' => ~exposed /\ Reachable /\ pane.is = "live" /\ ~Folds(t)
    BY <1>d, <1>e, <1>22, <2>1 DEF RotateKey, Stray, HostOK, Folds, Turns, InItsProgram, Reviving
  <2>3. Stray' /\ ~MidStop(t) /\ ~TakesForGone(t) =>
          /\ ~MidStop(t)' /\ ~TakesForGone(t)'
          /\ EndedRow' => EndedRow /\ (Minds(t) => Minds(t)')
          /\ Running' /\ ~row'.alive => Running /\ ~row.alive /\ (Reviver(t) => Reviver(t)')
    BY <1>d, <1>e, <1>22, <2>1 DEF RotateKey, Stray, DbOK, HostOK, MidStop, TakesForGone, EndedRow, Minds, Reviver,
                               Turns, InItsProgram, Reviving, AsRead, Finishes, NoRow
  <2> QED BY <1>0, <2>1, <2>2, <2>3, StrayKept
<1>23. ASSUME NEW t \in Tasks, Look(t) PROVE StrayInv'
  <2>1. Turns(t, task[t].op, "launch") \/ Turns(t, task[t].op, "retire")
    BY <1>0, <1>23, GotoIs DEF Look
  <2>2. Stray' => ~exposed /\ Reachable /\ pane.is = "live" /\ ~Folds(t)
    BY <1>d, <1>e, <1>23, <2>1 DEF Look, Stray, HostOK, Folds, Turns, InItsProgram, Reviving
  <2>3. Stray' /\ ~MidStop(t) /\ ~TakesForGone(t) =>
          /\ ~MidStop(t)' /\ ~TakesForGone(t)'
          /\ EndedRow' => EndedRow /\ (Minds(t) => Minds(t)')
          /\ Running' /\ ~row'.alive => Running /\ ~row.alive /\ (Reviver(t) => Reviver(t)')
    BY <1>d, <1>e, <1>23, <2>1 DEF Look, Stray, DbOK, HostOK, MidStop, TakesForGone, EndedRow, Minds, Reviver,
                               Turns, InItsProgram, Reviving, AsRead, Finishes, NoRow
  <2> QED BY <1>0, <2>1, <2>2, <2>3, StrayKept
<1>24. ASSUME NEW t \in Tasks, Revive(t) PROVE StrayInv'
  <2>1. (Running /\ Turns(t, "idle", "end")) \/ (~Running /\ Turns(t, task[t].op, "orphan"))
    BY <1>0, <1>24, GotoIs, FinishesIs DEF Revive
  <2>2. Stray' => ~exposed /\ Reachable /\ pane.is = "live" /\ ~Folds(t)
    BY <1>d, <1>e, <1>24, <2>1 DEF Revive, Stray, HostOK, Folds, Turns, InItsProgram, Reviving
  <2>3. Stray' /\ ~MidStop(t) /\ ~TakesForGone(t) =>
          /\ ~MidStop(t)' /\ ~TakesForGone(t)'
          /\ EndedRow' => EndedRow /\ (Minds(t) => Minds(t)')
          /\ Running' /\ ~row'.alive => Running /\ ~row.alive /\ (Reviver(t) => Reviver(t)')
    BY <1>d, <1>e, <1>24, <2>1 DEF Revive, Stray, DbOK, HostOK, MidStop, TakesForGone, EndedRow, Minds, Reviver,
                               Turns, InItsProgram, Reviving, AsRead, Finishes, NoRow
  <2> QED BY <1>0, <2>1, <2>2, <2>3, StrayKept
<1>25. ASSUME NEW t \in Tasks, KillOrphan(t) PROVE StrayInv'
  <2>1. Reachable' => pane'.is = "none" BY <1>d, <1>25 DEF KillOrphan, HostOK
  <2> QED BY <2>1 DEF StrayInv, Stray
<1>26. ASSUME NEW t \in Tasks, StopKills(t) PROVE StrayInv'
  <2>1. Reachable' => pane'.is = "none" BY <1>d, <1>26 DEF StopKills, HostOK
  <2> QED BY <2>1 DEF StrayInv, Stray
<1>27. ASSUME NEW t \in Tasks, KillFails(t) PROVE StrayInv'
  <2>1. Turns(t, "idle", "end")
    BY <1>0, <1>27, FinishesIs DEF KillFails
  <2>2. Stray' => ~exposed /\ Reachable /\ pane.is = "live" /\ ~Folds(t)
    BY <1>d, <1>e, <1>27, <2>1 DEF KillFails, Stray, HostOK, Folds, Turns, InItsProgram, Reviving
  <2>3. Stray' /\ ~MidStop(t) /\ ~TakesForGone(t) =>
          /\ ~MidStop(t)' /\ ~TakesForGone(t)'
          /\ EndedRow' => EndedRow /\ (Minds(t) => Minds(t)')
          /\ Running' /\ ~row'.alive => Running /\ ~row.alive /\ (Reviver(t) => Reviver(t)')
    BY <1>d, <1>e, <1>27, <2>1 DEF KillFails, Stray, DbOK, HostOK, MidStop, TakesForGone, EndedRow, Minds, Reviver,
                               Turns, InItsProgram, Reviving, AsRead, Finishes, NoRow
  <2> QED BY <1>0, <2>1, <2>2, <2>3, StrayKept
<1>28. ASSUME NEW t \in Tasks, StopClaims(t) PROVE StrayInv'
  <2>1. Turns(t, task[t].op, "mark")
    BY <1>0, <1>28, GotoIs DEF StopClaims
  <2>2. Stray' => ~exposed /\ Reachable /\ pane.is = "live" /\ ~Folds(t)
    BY <1>d, <1>e, <1>28, <2>1 DEF StopClaims, Stray, HostOK, Folds, Turns, InItsProgram, Reviving
  <2>3. Stray' /\ ~MidStop(t) /\ ~TakesForGone(t) =>
          /\ ~MidStop(t)' /\ ~TakesForGone(t)'
          /\ EndedRow' => EndedRow /\ (Minds(t) => Minds(t)')
          /\ Running' /\ ~row'.alive => Running /\ ~row.alive /\ (Reviver(t) => Reviver(t)')
    BY <1>d, <1>e, <1>28, <2>1 DEF StopClaims, Stray, DbOK, HostOK, MidStop, TakesForGone, EndedRow, Minds, Reviver,
                               Turns, InItsProgram, Reviving, AsRead, Finishes, NoRow
  <2> QED BY <1>0, <2>1, <2>2, <2>3, StrayKept
<1>29. ASSUME NEW t \in Tasks, DeleteKills(t) PROVE StrayInv'
  <2>1. Reachable' => pane'.is = "none" BY <1>d, <1>29 DEF DeleteKills, HostOK
  <2> QED BY <2>1 DEF StrayInv, Stray
<1>30. ASSUME NEW t \in Tasks, DeleteRevokes(t) PROVE StrayInv'
  <2>1. Turns(t, task[t].op, "drop")
    BY <1>0, <1>30, GotoIs DEF DeleteRevokes
  <2>2. Stray' => ~exposed /\ Reachable /\ pane.is = "live" /\ ~Folds(t)
    BY <1>d, <1>e, <1>30, <2>1 DEF DeleteRevokes, Stray, HostOK, Folds, Turns, InItsProgram, Reviving
  <2>3. Stray' /\ ~MidStop(t) /\ ~TakesForGone(t) =>
          /\ ~MidStop(t)' /\ ~TakesForGone(t)'
          /\ EndedRow' => EndedRow /\ (Minds(t) => Minds(t)')
          /\ Running' /\ ~row'.alive => Running /\ ~row.alive /\ (Reviver(t) => Reviver(t)')
    BY <1>d, <1>e, <1>30, <2>1 DEF DeleteRevokes, Stray, DbOK, HostOK, MidStop, TakesForGone, EndedRow, Minds, Reviver,
                               Turns, InItsProgram, Reviving, AsRead, Finishes, NoRow
  <2> QED BY <1>0, <2>1, <2>2, <2>3, StrayKept
<1>31. ASSUME NEW t \in Tasks, DeleteRow(t) PROVE StrayInv'
  <2>1. Turns(t, "idle", "end")
    BY <1>0, <1>31, EndsIs DEF DeleteRow
  <2>2. Stray' => ~exposed /\ Reachable /\ pane.is = "live" /\ ~Folds(t)
    BY <1>d, <1>e, <1>31, <2>1 DEF DeleteRow, Stray, HostOK, Folds, Turns, InItsProgram, Reviving
  <2>3. Stray' /\ ~MidStop(t) /\ ~TakesForGone(t) =>
          /\ ~MidStop(t)' /\ ~TakesForGone(t)'
          /\ EndedRow' => EndedRow /\ (Minds(t) => Minds(t)')
          /\ Running' /\ ~row'.alive => Running /\ ~row.alive /\ (Reviver(t) => Reviver(t)')
    BY <1>d, <1>e, <1>31, <2>1 DEF DeleteRow, Stray, DbOK, HostOK, MidStop, TakesForGone, EndedRow, Minds, Reviver,
                               Turns, InItsProgram, Reviving, AsRead, Finishes, NoRow
  <2> QED BY <1>0, <2>1, <2>2, <2>3, StrayKept
<1>32. ASSUME NEW t \in Tasks, SweepRow(t) PROVE StrayInv'
  <2>1. Turns(t, "idle", "end") \/ Turns(t, task[t].op, "probe")
    BY <1>0, <1>32, GotoIs, EndsIs DEF SweepRow
  <2>2. Stray' => ~exposed /\ Reachable /\ pane.is = "live" /\ ~Folds(t)
    BY <1>d, <1>e, <1>32, <2>1 DEF SweepRow, Stray, HostOK, Folds, Turns, InItsProgram, Reviving
  <2>3. Stray' /\ ~MidStop(t) /\ ~TakesForGone(t) =>
          /\ ~MidStop(t)' /\ ~TakesForGone(t)'
          /\ EndedRow' => EndedRow /\ (Minds(t) => Minds(t)')
          /\ Running' /\ ~row'.alive => Running /\ ~row.alive /\ (Reviver(t) => Reviver(t)')
    BY <1>d, <1>e, <1>32, <2>1 DEF SweepRow, Stray, DbOK, HostOK, MidStop, TakesForGone, EndedRow, Minds, Reviver,
                               Turns, InItsProgram, Reviving, AsRead, Finishes, NoRow
  <2> QED BY <1>0, <2>1, <2>2, <2>3, StrayKept
<1>33. ASSUME NEW t \in Tasks, Probe(t) PROVE StrayInv'
  <2>1. \/ Turns(t, task[t].op, "patch") \/ Turns(t, "sweep", "fold")
        \/ Turns(t, "death", "check") \/ Turns(t, "idle", "end")
    BY <1>0, <1>33, ProbeIs DEF Probe
  <2>2. Stray' => ~exposed /\ Reachable /\ pane.is = "live" /\ ~Folds(t)
    BY <1>d, <1>e, <1>33, <2>1 DEF Probe, Stray, HostOK, Folds, Turns, InItsProgram, Reviving
  <2>3. Stray' /\ ~MidStop(t) /\ ~TakesForGone(t) =>
          /\ ~MidStop(t)' /\ ~TakesForGone(t)'
          /\ EndedRow' => EndedRow /\ (Minds(t) => Minds(t)')
          /\ Running' /\ ~row'.alive => Running /\ ~row.alive /\ (Reviver(t) => Reviver(t)')
    BY <1>d, <1>e, <1>33, <2>1 DEF Probe, Stray, DbOK, HostOK, MidStop, TakesForGone, EndedRow, Minds, Reviver,
                               Turns, InItsProgram, Reviving, AsRead, Finishes, NoRow
  <2> QED BY <1>0, <2>1, <2>2, <2>3, StrayKept
<1>34. ASSUME NEW t \in Tasks, PatchAlive(t) PROVE StrayInv'
  <2>1. Turns(t, "idle", "end")
    BY <1>0, <1>34, EndsIs DEF PatchAlive
  <2>2. Stray' => ~exposed /\ Reachable /\ pane.is = "live" /\ ~Folds(t)
    BY <1>d, <1>e, <1>34, <2>1 DEF PatchAlive, Stray, HostOK, Folds, Turns, InItsProgram, Reviving
  <2>3. Stray' /\ ~MidStop(t) /\ ~TakesForGone(t) =>
          /\ ~MidStop(t)' /\ ~TakesForGone(t)'
          /\ EndedRow' => EndedRow /\ (Minds(t) => Minds(t)')
          /\ Running' /\ ~row'.alive => Running /\ ~row.alive /\ (Reviver(t) => Reviver(t)')
    BY <1>d, <1>e, <1>34, <2>1 DEF PatchAlive, Stray, DbOK, HostOK, MidStop, TakesForGone, EndedRow, Minds, Reviver,
                               Turns, InItsProgram, Reviving, AsRead, Finishes, NoRow
  <2> QED BY <1>0, <2>1, <2>2, <2>3, StrayKept
<1>35. ASSUME NEW t \in Tasks, FoldAlive(t) PROVE StrayInv'
  <2>1. UNCHANGED <<pane, place, online>> /\ (exposed => exposed') BY <1>35 DEF FoldAlive
  <2>2. ~exposed' => lease = None /\ \A u \in Tasks : ~MidStop(u) BY <1>35 DEF FoldAlive
  <2>3. CASE Goto(t, "bestKill")
    <3>1. Folds(t)' BY <1>0, <2>3, GotoIs DEF Folds, Turns
    <3> QED BY <3>1 DEF StrayInv, Stray
  <2>4. CASE Ends(t)
    <3>1. Turns(t, "idle", "end") BY <1>0, <2>4, EndsIs
    <3>2. ~exposed' => \A u \in Tasks : ~MidStop(u)' /\ ~TakesForGone(u)'
      BY <1>e, <2>2, <3>1 DEF MidStop, TakesForGone, Turns
    <3>3. ~exposed' => ~EndedRow' /\ ~(Running' /\ ~row'.alive)
      <4>1. place = "agent" BY <1>0, <1>35 DEF FoldAlive, Where
      <4>2. task'[t].pc = "end" BY <3>1 DEF Turns
      <4>3. ~Goto(t, "bestKill") BY <1>0, <4>2, GotoIs DEF Turns
      <4> QED BY <1>d, <2>1, <2>2, <4>1, <4>3, <1>35, PlacesAssumption DEF FoldAlive, EndedRow, DbOK
    <3> QED BY <3>2, <3>3 DEF StrayInv, Stray
  <2> QED BY <1>35, <2>3, <2>4 DEF FoldAlive
<1>36. ASSUME NEW t \in Tasks, BestEffortKill(t) PROVE StrayInv'
  <2>1. Reachable' => pane'.is = "none" BY <1>d, <1>36 DEF BestEffortKill, HostOK
  <2> QED BY <2>1 DEF StrayInv, Stray
<1>37. ASSUME NEW t \in Tasks, CheckLease(t) PROVE StrayInv'
  <2>1. Turns(t, "idle", "end") \/ Turns(t, "death", "fresh")
    BY <1>0, <1>37, GotoIs, EndsIs DEF CheckLease
  <2>2. Stray' => ~exposed /\ Reachable /\ pane.is = "live" /\ ~Folds(t)
    BY <1>d, <1>e, <1>37, <2>1 DEF CheckLease, Stray, HostOK, Folds, Turns, InItsProgram, Reviving
  <2>3. Stray' /\ ~MidStop(t) /\ ~TakesForGone(t) =>
          /\ ~MidStop(t)' /\ ~TakesForGone(t)'
          /\ EndedRow' => EndedRow /\ (Minds(t) => Minds(t)')
          /\ Running' /\ ~row'.alive => Running /\ ~row.alive /\ (Reviver(t) => Reviver(t)')
    BY <1>d, <1>e, <1>37, <2>1 DEF CheckLease, Stray, DbOK, HostOK, MidStop, TakesForGone, EndedRow, Minds, Reviver,
                               Turns, InItsProgram, Reviving, AsRead, Finishes, NoRow
  <2> QED BY <1>0, <2>1, <2>2, <2>3, StrayKept
<1>38. ASSUME NEW t \in Tasks, FreshRow(t) PROVE StrayInv'
  <2>1. Turns(t, "idle", "end") \/ \E p \in {"claim", "schedule", "settled"} : Turns(t, "death", p)
    BY <1>0, <1>38, FreshRowIs DEF FreshRow
  <2>2. Stray' => ~exposed /\ Reachable /\ pane.is = "live" /\ ~Folds(t)
    BY <1>d, <1>e, <1>38, <2>1 DEF FreshRow, Stray, HostOK, Folds, Turns, InItsProgram, Reviving
  <2>3. Stray' /\ ~MidStop(t) /\ ~TakesForGone(t) =>
          /\ ~MidStop(t)' /\ ~TakesForGone(t)'
          /\ EndedRow' => EndedRow /\ (Minds(t) => Minds(t)')
          /\ Running' /\ ~row'.alive => Running /\ ~row.alive /\ (Reviver(t) => Reviver(t)')
    BY <1>d, <1>e, <1>38, <2>1 DEF FreshRow, Stray, DbOK, HostOK, MidStop, TakesForGone, EndedRow, Minds, Reviver,
                               Turns, InItsProgram, Reviving, AsRead, Finishes, NoRow
  <2> QED BY <1>0, <2>1, <2>2, <2>3, StrayKept
<1>39. ASSUME NEW t \in Tasks, ClaimDeath(t) PROVE StrayInv'
  <2>1. ~exposed' => pane'.is # "live" BY <1>0, <1>39 DEF ClaimDeath, DeathFinds, FindsNone, Finding
  <2> QED BY <2>1 DEF StrayInv, Stray
<1>40. ASSUME NEW t \in Tasks, Schedule(t) PROVE StrayInv'
  <2>1. Turns(t, task[t].op, "gates")
    BY <1>0, <1>40, GotoIs DEF Schedule
  <2>2. Stray' => ~exposed /\ Reachable /\ pane.is = "live" /\ ~Folds(t)
    BY <1>d, <1>e, <1>40, <2>1 DEF Schedule, Stray, HostOK, Folds, Turns, InItsProgram, Reviving
  <2>3. Stray' /\ ~MidStop(t) /\ ~TakesForGone(t) =>
          /\ ~MidStop(t)' /\ ~TakesForGone(t)'
          /\ EndedRow' => EndedRow /\ (Minds(t) => Minds(t)')
          /\ Running' /\ ~row'.alive => Running /\ ~row.alive /\ (Reviver(t) => Reviver(t)')
    BY <1>d, <1>e, <1>40, <2>1 DEF Schedule, Stray, DbOK, HostOK, MidStop, TakesForGone, EndedRow, Minds, Reviver,
                               Turns, InItsProgram, Reviving, AsRead, Finishes, NoRow
  <2> QED BY <1>0, <2>1, <2>2, <2>3, StrayKept
<1>41. ASSUME NEW t \in Tasks, Defer(t) PROVE StrayInv'
  <2>1. Turns(t, task[t].op, "settled")
    BY <1>0, <1>41, GotoIs DEF Defer
  <2>2. Stray' => ~exposed /\ Reachable /\ pane.is = "live" /\ ~Folds(t)
    BY <1>d, <1>e, <1>41, <2>1 DEF Defer, Stray, HostOK, Folds, Turns, InItsProgram, Reviving
  <2>3. Stray' /\ ~MidStop(t) /\ ~TakesForGone(t) =>
          /\ ~MidStop(t)' /\ ~TakesForGone(t)'
          /\ EndedRow' => EndedRow /\ (Minds(t) => Minds(t)')
          /\ Running' /\ ~row'.alive => Running /\ ~row.alive /\ (Reviver(t) => Reviver(t)')
    BY <1>d, <1>e, <1>41, <2>1 DEF Defer, Stray, DbOK, HostOK, MidStop, TakesForGone, EndedRow, Minds, Reviver,
                               Turns, InItsProgram, Reviving, AsRead, Finishes, NoRow
  <2> QED BY <1>0, <2>1, <2>2, <2>3, StrayKept
<1>42. ASSUME NEW t \in Tasks, AutoRestart(t) PROVE StrayInv'
  <2>1. Turns(t, task[t].op, "revoke")
    BY <1>0, <1>42, AutoRestartIs DEF AutoRestart
  <2>2. Stray' => ~exposed /\ Reachable /\ pane.is = "live" /\ ~Folds(t)
    BY <1>d, <1>e, <1>42, <2>1 DEF AutoRestart, Stray, HostOK, Folds, Turns, InItsProgram, Reviving
  <2>3. Stray' /\ ~MidStop(t) /\ ~TakesForGone(t) =>
          /\ ~MidStop(t)' /\ ~TakesForGone(t)'
          /\ EndedRow' => EndedRow /\ (Minds(t) => Minds(t)')
          /\ Running' /\ ~row'.alive => Running /\ ~row.alive /\ (Reviver(t) => Reviver(t)')
    BY <1>d, <1>e, <1>42, <2>1 DEF AutoRestart, Stray, DbOK, HostOK, MidStop, TakesForGone, EndedRow, Minds, Reviver,
                               Turns, InItsProgram, Reviving, AsRead, Finishes, NoRow
  <2> QED BY <1>0, <2>1, <2>2, <2>3, StrayKept
<1>43. ASSUME NEW t \in Tasks, UnwindAuto(t) PROVE StrayInv'
  <2>1. Turns(t, task[t].op, "settled")
    BY <1>0, <1>43, GotoIs DEF UnwindAuto
  <2>2. Stray' => ~exposed /\ Reachable /\ pane.is = "live" /\ ~Folds(t)
    BY <1>d, <1>e, <1>43, <2>1 DEF UnwindAuto, Stray, HostOK, Folds, Turns, InItsProgram, Reviving
  <2>3. Stray' /\ ~MidStop(t) /\ ~TakesForGone(t) =>
          /\ ~MidStop(t)' /\ ~TakesForGone(t)'
          /\ EndedRow' => EndedRow /\ (Minds(t) => Minds(t)')
          /\ Running' /\ ~row'.alive => Running /\ ~row.alive /\ (Reviver(t) => Reviver(t)')
    BY <1>d, <1>e, <1>43, <2>1 DEF UnwindAuto, Stray, DbOK, HostOK, MidStop, TakesForGone, EndedRow, Minds, Reviver,
                               Turns, InItsProgram, Reviving, AsRead, Finishes, NoRow
  <2> QED BY <1>0, <2>1, <2>2, <2>3, StrayKept
<1>44. ASSUME NEW t \in Tasks, Bury(t) PROVE StrayInv'
  <2>1. Turns(t, "idle", "end") \/ Turns(t, task[t].op, "reap")
    BY <1>0, <1>44, GotoIs, EndsIs DEF Bury
  <2>2. Stray' => ~exposed /\ Reachable /\ pane.is = "live" /\ ~Folds(t)
    BY <1>d, <1>e, <1>44, <2>1 DEF Bury, Stray, HostOK, Folds, Turns, InItsProgram, Reviving
  <2>3. Stray' /\ ~MidStop(t) /\ ~TakesForGone(t) =>
          /\ ~MidStop(t)' /\ ~TakesForGone(t)'
          /\ EndedRow' => EndedRow /\ (Minds(t) => Minds(t)')
          /\ Running' /\ ~row'.alive => Running /\ ~row.alive /\ (Reviver(t) => Reviver(t)')
    BY <1>d, <1>e, <1>44, <2>1 DEF Bury, Stray, DbOK, HostOK, MidStop, TakesForGone, EndedRow, Minds, Reviver,
                               Turns, InItsProgram, Reviving, AsRead, Finishes, NoRow
  <2> QED BY <1>0, <2>1, <2>2, <2>3, StrayKept
<1>45. ASSUME NEW t \in Tasks, Reap(t) PROVE StrayInv'
  <2>1. Reachable' => pane'.is = "none" BY <1>d, <1>45 DEF Reap, HostOK
  <2> QED BY <2>1 DEF StrayInv, Stray
<1>46. ASSUME PaneDies PROVE StrayInv'
  BY <1>0, <1>d, <1>46, StrayStill DEF PaneDies, Stray, DbOK, HostOK
<1>47. ASSUME ReportIsLost PROVE StrayInv'
  BY <1>0, <1>d, <1>47, StrayStill DEF ReportIsLost, Stray, DbOK, HostOK
<1>48. ASSUME LinkDrops PROVE StrayInv'
  BY <1>0, <1>d, <1>48, StrayStill DEF LinkDrops, Stray, DbOK, HostOK
<1>49. ASSUME RetryFallsDue PROVE StrayInv'
  BY <1>0, <1>d, <1>49, StrayStill DEF RetryFallsDue, Stray, DbOK, HostOK
<1>50. ASSUME UNCHANGED vars PROVE StrayInv'
  BY <1>0, <1>d, <1>50, StrayStill DEF vars, Stray, DbOK, HostOK
<1> QED
  BY <1>1, <1>2, <1>3, <1>4, <1>5, <1>6, <1>7, <1>8, <1>9, <1>10, <1>11, <1>12, <1>13,
     <1>14, <1>15, <1>16, <1>17, <1>18, <1>19, <1>20, <1>21, <1>22, <1>23, <1>24, <1>25, <1>26,
     <1>27, <1>28, <1>29, <1>30, <1>31, <1>32, <1>33, <1>34, <1>35, <1>36, <1>37, <1>38, <1>39,
     <1>40, <1>41, <1>42, <1>43, <1>44, <1>45, <1>46, <1>47, <1>48, <1>49, <1>50
     DEF Next, Operation, Continue, Launching, Restarting, Stopping, Sweeping, Burying

-----------------------------------------------------------------------------
(* A running pane holds its row's key                                      *)

\* A restart that has read the row and not yet parked it.
HasRead(t) == task[t].op = "restart" /\ task[t].pc \in {"kill", "park"}

\* A stop that has yet to revoke finds its row ended, and a restart that read an
\* ended row is alone with it.
StopsLast ==
  /\ \A t \in Tasks : HasRead(t) /\ task[t].status # "running" =>
       /\ task[t].status = "terminated" /\ ~Running
       /\ ~exposed => \A u \in Tasks : task[u].op # "stop"
  /\ ~exposed => \A t \in Tasks : AtAs(t, "retire", {"stop"}) => ~Running

\* A step that neither begins a stop nor runs the row again.
LEMMA StopsKept ==
  ASSUME StopsLast, NEW t \in Tasks, NEW o, NEW p, Turns(t, o, p), exposed => exposed',
         Running' => Running,
         HasRead(t)' => HasRead(t) /\ task'[t].status = task[t].status,
         o = "stop" => task[t].op = "stop",
         o = "stop" /\ p = "retire" => ~Running'
  PROVE  StopsLast'
  BY DEF StopsLast, Turns, HasRead, AtAs

\* The same, of a step of no task.
LEMMA StopsStill ==
  ASSUME StopsLast, UNCHANGED <<task, exposed>>, row'.status = row.status PROVE StopsLast'
  BY DEF StopsLast, HasRead, AtAs, Running

LEMMA StopsStep == ASSUME TypeOK, Launchers, StopsLast, [Next]_vars PROVE StopsLast'
<1> USE DEF At, AtAs, Free, RowBecomes, Running, Exists, Exposes, hostVars, dbVars, fixed
<1>0. TypeOK /\ OneLauncher /\ NothingYet /\ StopsLast BY DEF Launchers
<1>e. \A t \in Tasks : InItsProgram(task[t]) /\ (lease = t <=> task[t].op = "restart") /\ t # None
  BY NoneAssumption DEF TypeOK
<1>d. DbOK BY Parts
<1>1. ASSUME NEW t \in Tasks, Create(t) PROVE StopsLast'
  <2>1. Turns(t, "create", "mint") BY <1>0, <1>1, BeginsIs DEF Create
  <2>2. \A u \in Tasks : Free(u) BY <1>0, <1>1 DEF Create, NothingYet
  <2> QED BY <2>1, <2>2 DEF StopsLast, Turns, HasRead
<1>2. ASSUME NEW t \in Tasks, Restart(t) PROVE StopsLast'
  <2>1. Turns(t, "restart", "kill") /\ task'[t].status = row.status BY <1>0, <1>2, RestartIs
  <2>2. row' = row /\ lease = None /\ (exposed => exposed') BY <1>2 DEF Restart
  <2>3. row.status \in {"running", "terminated"} BY <1>2 DEF Restart
  <2>4. row.status = "terminated" /\ ~exposed' => \A u \in Tasks : task[u].op # "stop"
    BY <1>2 DEF Restart, MeetsUnleased
  <2>5. \A u \in Tasks : ~HasRead(u) BY <1>e, <2>2 DEF HasRead
  <2> QED BY <1>0, <2>1, <2>2, <2>3, <2>4, <2>5 DEF StopsLast, Turns, HasRead
<1>3. ASSUME NEW t \in Tasks, Stop(t) PROVE StopsLast'
  <2>1. Turns(t, "stop", "kill") BY <1>0, <1>3, BeginsIs DEF Stop
  <2>2. row' = row /\ (exposed => exposed') BY <1>3 DEF Stop
  <2>3. \A u \in Tasks : HasRead(u) /\ task[u].status # "running" => exposed'
    <3>1. ASSUME NEW u \in Tasks, HasRead(u), task[u].status # "running" PROVE exposed'
      <4>1. lease # None BY <1>e, <3>1 DEF HasRead
      <4>2. row.status = "terminated" BY <1>0, <1>d, <3>1, <1>3 DEF StopsLast, Stop, DbOK, Statuses
      <4> QED BY <4>1, <4>2, <1>3 DEF Stop
    <3> QED BY <3>1
  <2> QED BY <1>0, <2>1, <2>2, <2>3 DEF StopsLast, Turns, HasRead
<1>4. ASSUME NEW t \in Tasks, Delete(t) PROVE StopsLast'
  <2>1. Turns(t, "delete", "kill")
    BY <1>0, <1>4, BeginsIs DEF Delete
  <2>2. (exposed => exposed') /\ (Running' => Running)
    BY <1>d, <1>4 DEF Delete, DbOK, NoRow
  <2>3. HasRead(t)' => HasRead(t) /\ task'[t].status = task[t].status
    BY <1>0, <1>e, <1>4, <2>1, GotoIs DEF Delete, HasRead, Turns, InItsProgram, Reviving
  <2>4. task'[t].op = "stop" => task[t].op = "stop" /\ task'[t].pc # "retire"
    BY <1>e, <1>4, <2>1 DEF Delete, Turns, InItsProgram, Reviving
  <2> QED BY <1>0, <2>1, <2>2, <2>3, <2>4, StopsKept DEF Turns
<1>5. ASSUME NEW t \in Tasks, Sweep(t) PROVE StopsLast'
  <2>1. Turns(t, "sweep", "row")
    BY <1>0, <1>5, SweepIs DEF Sweep
  <2>2. (exposed => exposed') /\ (Running' => Running)
    BY <1>d, <1>5 DEF Sweep, DbOK, NoRow
  <2>3. HasRead(t)' => HasRead(t) /\ task'[t].status = task[t].status
    BY <1>0, <1>e, <1>5, <2>1, GotoIs DEF Sweep, HasRead, Turns, InItsProgram, Reviving
  <2>4. task'[t].op = "stop" => task[t].op = "stop" /\ task'[t].pc # "retire"
    BY <1>e, <1>5, <2>1 DEF Sweep, Turns, InItsProgram, Reviving
  <2> QED BY <1>0, <2>1, <2>2, <2>3, <2>4, StopsKept DEF Turns
<1>6. ASSUME NEW t \in Tasks, Report(t) PROVE StopsLast'
  <2>1. task' = task \/ Turns(t, "death", "check") BY <1>0, <1>6, ReportIs
  <2>2. UNCHANGED <<exposed, row>> BY <1>6 DEF Report
  <2>3. CASE task' = task BY <1>0, <2>2, <2>3, StopsStill
  <2>4. CASE Turns(t, "death", "check") BY <1>0, <2>2, <2>4, StopsKept DEF HasRead, Turns
  <2> QED BY <2>1, <2>3, <2>4
<1>7. ASSUME NEW t \in Tasks, NodeReports(t) PROVE StopsLast'
  <2>1. task' = task \/ Turns(t, "death", "check") BY <1>0, <1>7, NodeReportsIs
  <2>2. UNCHANGED <<exposed, row>> BY <1>7 DEF NodeReports
  <2>3. CASE task' = task BY <1>0, <2>2, <2>3, StopsStill
  <2>4. CASE Turns(t, "death", "check") BY <1>0, <2>2, <2>4, StopsKept DEF HasRead, Turns
  <2> QED BY <2>1, <2>3, <2>4
<1>8. ASSUME NEW t \in Tasks, LinkReturns(t) PROVE StopsLast'
  <2>1. task' = task \/ (Turns(t, "death", "check") \/ Turns(t, "census", "fold")) BY <1>0, <1>8, LinkReturnsIs
  <2>2. UNCHANGED <<exposed, row>> BY <1>8 DEF LinkReturns
  <2>3. CASE task' = task BY <1>0, <2>2, <2>3, StopsStill
  <2>4. CASE (Turns(t, "death", "check") \/ Turns(t, "census", "fold")) BY <1>0, <2>2, <2>4, StopsKept DEF HasRead, Turns
  <2> QED BY <2>1, <2>3, <2>4
<1>9. ASSUME NEW t \in Tasks, Mint(t) PROVE StopsLast'
  <2>1. Turns(t, task[t].op, "link")
    BY <1>0, <1>9, MintIs DEF Mint
  <2>2. (exposed => exposed') /\ (Running' => Running)
    BY <1>d, <1>9 DEF Mint, DbOK, NoRow
  <2>3. HasRead(t)' => HasRead(t) /\ task'[t].status = task[t].status
    BY <1>0, <1>e, <1>9, <2>1, GotoIs DEF Mint, HasRead, Turns, InItsProgram, Reviving
  <2>4. task'[t].op = "stop" => task[t].op = "stop" /\ task'[t].pc # "retire"
    BY <1>e, <1>9, <2>1 DEF Mint, Turns, InItsProgram, Reviving
  <2> QED BY <1>0, <2>1, <2>2, <2>3, <2>4, StopsKept DEF Turns
<1>10. ASSUME NEW t \in Tasks, Link(t) PROVE StopsLast'
  <2>1. \E p \in {"launch", "look"} : Turns(t, task[t].op, p)
    BY <1>0, <1>10, GotoIs DEF Link
  <2>2. (exposed => exposed') /\ (Running' => Running)
    BY <1>d, <1>10 DEF Link, DbOK, NoRow
  <2>3. HasRead(t)' => HasRead(t) /\ task'[t].status = task[t].status
    BY <1>0, <1>e, <1>10, <2>1, GotoIs DEF Link, HasRead, Turns, InItsProgram, Reviving
  <2>4. task'[t].op = "stop" => task[t].op = "stop" /\ task'[t].pc # "retire"
    BY <1>e, <1>10, <2>1 DEF Link, Turns, InItsProgram, Reviving
  <2> QED BY <1>0, <2>1, <2>2, <2>3, <2>4, StopsKept DEF Turns
<1>11. ASSUME NEW t \in Tasks, LaunchSucceeds(t) PROVE StopsLast'
  <2>1. Turns(t, task[t].op, IF task[t].op = "create" THEN "settle" ELSE "revive")
    BY <1>0, <1>11, GotoIs DEF LaunchSucceeds
  <2>2. (exposed => exposed') /\ (Running' => Running)
    BY <1>d, <1>11 DEF LaunchSucceeds, DbOK, NoRow
  <2>3. HasRead(t)' => HasRead(t) /\ task'[t].status = task[t].status
    BY <1>0, <1>e, <1>11, <2>1, GotoIs DEF LaunchSucceeds, HasRead, Turns, InItsProgram, Reviving
  <2>4. task'[t].op = "stop" => task[t].op = "stop" /\ task'[t].pc # "retire"
    BY <1>e, <1>11, <2>1 DEF LaunchSucceeds, Turns, InItsProgram, Reviving
  <2> QED BY <1>0, <2>1, <2>2, <2>3, <2>4, StopsKept DEF Turns
<1>12. ASSUME NEW t \in Tasks, LaunchRefused(t) PROVE StopsLast'
  <2>1. Turns(t, task[t].op, "unwind")
    BY <1>0, <1>12, GotoIs DEF LaunchRefused
  <2>2. (exposed => exposed') /\ (Running' => Running)
    BY <1>d, <1>12 DEF LaunchRefused, DbOK, NoRow
  <2>3. HasRead(t)' => HasRead(t) /\ task'[t].status = task[t].status
    BY <1>0, <1>e, <1>12, <2>1, GotoIs DEF LaunchRefused, HasRead, Turns, InItsProgram, Reviving
  <2>4. task'[t].op = "stop" => task[t].op = "stop" /\ task'[t].pc # "retire"
    BY <1>e, <1>12, <2>1 DEF LaunchRefused, Turns, InItsProgram, Reviving
  <2> QED BY <1>0, <2>1, <2>2, <2>3, <2>4, StopsKept DEF Turns
<1>13. ASSUME NEW t \in Tasks, LaunchBreaks(t) PROVE StopsLast'
  <2>1. Turns(t, task[t].op, "unwind")
    BY <1>0, <1>13, GotoIs DEF LaunchBreaks
  <2>2. (exposed => exposed') /\ (Running' => Running)
    BY <1>d, <1>13 DEF LaunchBreaks, DbOK, NoRow
  <2>3. HasRead(t)' => HasRead(t) /\ task'[t].status = task[t].status
    BY <1>0, <1>e, <1>13, <2>1, GotoIs DEF LaunchBreaks, HasRead, Turns, InItsProgram, Reviving
  <2>4. task'[t].op = "stop" => task[t].op = "stop" /\ task'[t].pc # "retire"
    BY <1>e, <1>13, <2>1 DEF LaunchBreaks, Turns, InItsProgram, Reviving
  <2> QED BY <1>0, <2>1, <2>2, <2>3, <2>4, StopsKept DEF Turns
<1>14. ASSUME NEW t \in Tasks, Settle(t) PROVE StopsLast'
  <2>1. (Running /\ Turns(t, "idle", "end")) \/ (~Running /\ Turns(t, task[t].op, "orphan"))
    BY <1>0, <1>14, GotoIs, FinishesIs DEF Settle
  <2>2. (exposed => exposed') /\ (Running' => Running)
    BY <1>d, <1>14 DEF Settle, DbOK, NoRow
  <2>3. HasRead(t)' => HasRead(t) /\ task'[t].status = task[t].status
    BY <1>0, <1>e, <1>14, <2>1, GotoIs DEF Settle, HasRead, Turns, InItsProgram, Reviving
  <2>4. task'[t].op = "stop" => task[t].op = "stop" /\ task'[t].pc # "retire"
    BY <1>e, <1>14, <2>1 DEF Settle, Turns, InItsProgram, Reviving
  <2> QED BY <1>0, <2>1, <2>2, <2>3, <2>4, StopsKept DEF Turns
<1>15. ASSUME NEW t \in Tasks, UnwindCreate(t) PROVE StopsLast'
  <2>1. Turns(t, task[t].op, "mark")
    BY <1>0, <1>15, GotoIs DEF UnwindCreate
  <2>2. (exposed => exposed') /\ (Running' => Running)
    BY <1>d, <1>15 DEF UnwindCreate, DbOK, NoRow
  <2>3. HasRead(t)' => HasRead(t) /\ task'[t].status = task[t].status
    BY <1>0, <1>e, <1>15, <2>1, GotoIs DEF UnwindCreate, HasRead, Turns, InItsProgram, Reviving
  <2>4. task'[t].op = "stop" => task[t].op = "stop" /\ task'[t].pc # "retire"
    BY <1>e, <1>15, <2>1 DEF UnwindCreate, Turns, InItsProgram, Reviving
  <2> QED BY <1>0, <2>1, <2>2, <2>3, <2>4, StopsKept DEF Turns
<1>16. ASSUME NEW t \in Tasks, Mark(t) PROVE StopsLast'
  <2>1. Turns(t, task[t].op, "retire") BY <1>0, <1>16, GotoIs DEF Mark
  <2>2. exposed' = exposed /\ ~Running' BY <1>d, <1>16 DEF Mark, DbOK
  <2> QED BY <1>0, <2>1, <2>2, StopsKept DEF HasRead, Turns
<1>17. ASSUME NEW t \in Tasks, Retire(t) PROVE StopsLast'
  <2>1. Turns(t, "idle", "end") \/ Turns(t, task[t].op, "settled")
    BY <1>0, <1>17, GotoIs, FinishesIs DEF Retire
  <2>2. (exposed => exposed') /\ (Running' => Running)
    BY <1>d, <1>17 DEF Retire, DbOK, NoRow
  <2>3. HasRead(t)' => HasRead(t) /\ task'[t].status = task[t].status
    BY <1>0, <1>e, <1>17, <2>1, GotoIs DEF Retire, HasRead, Turns, InItsProgram, Reviving
  <2>4. task'[t].op = "stop" => task[t].op = "stop" /\ task'[t].pc # "retire"
    BY <1>e, <1>17, <2>1 DEF Retire, Turns, InItsProgram, Reviving
  <2> QED BY <1>0, <2>1, <2>2, <2>3, <2>4, StopsKept DEF Turns
<1>18. ASSUME NEW t \in Tasks, KillOld(t) PROVE StopsLast'
  <2>1. HasRead(t) /\ UNCHANGED <<row, exposed>> BY <1>18 DEF KillOld, HasRead
  <2>2. CASE Goto(t, "park") BY <1>0, <2>1, <2>2, GotoIs, StopsKept DEF HasRead
  <2>3. CASE Finishes(t)
    <3>1. Turns(t, "idle", "end") BY <1>0, <2>3, FinishesIs
    <3> QED BY <1>0, <2>1, <3>1, StopsKept DEF HasRead, Turns
  <2> QED BY <1>18, <2>2, <2>3 DEF KillOld
<1>19. ASSUME NEW t \in Tasks, Park(t) PROVE StopsLast'
  <2>1. exposed' = exposed /\ task[t].op = "restart" BY <1>e, <1>19 DEF Park, InItsProgram, Reviving
  <2>2. CASE ~AsRead(t)
    <3>1. Turns(t, "idle", "end") /\ row' = row BY <1>0, <2>2, <1>19, ParkIs DEF Park
    <3> QED BY <1>0, <2>1, <3>1, StopsKept DEF HasRead, Turns
  <2>3. CASE AsRead(t)
    <3>1. Turns(t, "restart", "revoke") BY <1>0, <2>3, <1>19, ParkIs
    <3>2. \A u \in Tasks \ {t} : ~HasRead(u) BY <1>e, <2>1 DEF HasRead
    <3>3. ~exposed => \A u \in Tasks : ~AtAs(u, "retire", {"stop"})
      BY <1>0, <2>1, <2>3, <1>19 DEF StopsLast, HasRead, AsRead, Park
    <3> QED BY <2>1, <3>1, <3>2, <3>3 DEF StopsLast, Turns, HasRead
  <2> QED BY <2>2, <2>3
<1>20. ASSUME NEW t \in Tasks, UnwindRestart(t) PROVE StopsLast'
  <2>1. Turns(t, task[t].op, "mark")
    BY <1>0, <1>20, GotoIs DEF UnwindRestart
  <2>2. (exposed => exposed') /\ (Running' => Running)
    BY <1>d, <1>20 DEF UnwindRestart, DbOK, NoRow
  <2>3. HasRead(t)' => HasRead(t) /\ task'[t].status = task[t].status
    BY <1>0, <1>e, <1>20, <2>1, GotoIs DEF UnwindRestart, HasRead, Turns, InItsProgram, Reviving
  <2>4. task'[t].op = "stop" => task[t].op = "stop" /\ task'[t].pc # "retire"
    BY <1>e, <1>20, <2>1 DEF UnwindRestart, Turns, InItsProgram, Reviving
  <2> QED BY <1>0, <2>1, <2>2, <2>3, <2>4, StopsKept DEF Turns
<1>21. ASSUME NEW t \in Tasks, CannotCompose(t) PROVE StopsLast'
  <2>1. Turns(t, task[t].op, "unwind")
    BY <1>0, <1>21, GotoIs DEF CannotCompose
  <2>2. (exposed => exposed') /\ (Running' => Running)
    BY <1>d, <1>21 DEF CannotCompose, DbOK, NoRow
  <2>3. HasRead(t)' => HasRead(t) /\ task'[t].status = task[t].status
    BY <1>0, <1>e, <1>21, <2>1, GotoIs DEF CannotCompose, HasRead, Turns, InItsProgram, Reviving
  <2>4. task'[t].op = "stop" => task[t].op = "stop" /\ task'[t].pc # "retire"
    BY <1>e, <1>21, <2>1 DEF CannotCompose, Turns, InItsProgram, Reviving
  <2> QED BY <1>0, <2>1, <2>2, <2>3, <2>4, StopsKept DEF Turns
<1>22. ASSUME NEW t \in Tasks, RotateKey(t) PROVE StopsLast'
  <2>1. Turns(t, task[t].op, "mint")
    BY <1>0, <1>22, GotoIs DEF RotateKey
  <2>2. (exposed => exposed') /\ (Running' => Running)
    BY <1>d, <1>22 DEF RotateKey, DbOK, NoRow
  <2>3. HasRead(t)' => HasRead(t) /\ task'[t].status = task[t].status
    BY <1>0, <1>e, <1>22, <2>1, GotoIs DEF RotateKey, HasRead, Turns, InItsProgram, Reviving
  <2>4. task'[t].op = "stop" => task[t].op = "stop" /\ task'[t].pc # "retire"
    BY <1>e, <1>22, <2>1 DEF RotateKey, Turns, InItsProgram, Reviving
  <2> QED BY <1>0, <2>1, <2>2, <2>3, <2>4, StopsKept DEF Turns
<1>23. ASSUME NEW t \in Tasks, Look(t) PROVE StopsLast'
  <2>1. Turns(t, task[t].op, "launch") \/ Turns(t, task[t].op, "retire")
    BY <1>0, <1>23, GotoIs DEF Look
  <2>2. (exposed => exposed') /\ (Running' => Running)
    BY <1>d, <1>23 DEF Look, DbOK, NoRow
  <2>3. HasRead(t)' => HasRead(t) /\ task'[t].status = task[t].status
    BY <1>0, <1>e, <1>23, <2>1, GotoIs DEF Look, HasRead, Turns, InItsProgram, Reviving
  <2>4. task'[t].op = "stop" => task[t].op = "stop" /\ task'[t].pc # "retire"
    BY <1>e, <1>23, <2>1 DEF Look, Turns, InItsProgram, Reviving
  <2> QED BY <1>0, <2>1, <2>2, <2>3, <2>4, StopsKept DEF Turns
<1>24. ASSUME NEW t \in Tasks, Revive(t) PROVE StopsLast'
  <2>1. (Running /\ Turns(t, "idle", "end")) \/ (~Running /\ Turns(t, task[t].op, "orphan"))
    BY <1>0, <1>24, GotoIs, FinishesIs DEF Revive
  <2>2. (exposed => exposed') /\ (Running' => Running)
    BY <1>d, <1>24 DEF Revive, DbOK, NoRow
  <2>3. HasRead(t)' => HasRead(t) /\ task'[t].status = task[t].status
    BY <1>0, <1>e, <1>24, <2>1, GotoIs DEF Revive, HasRead, Turns, InItsProgram, Reviving
  <2>4. task'[t].op = "stop" => task[t].op = "stop" /\ task'[t].pc # "retire"
    BY <1>e, <1>24, <2>1 DEF Revive, Turns, InItsProgram, Reviving
  <2> QED BY <1>0, <2>1, <2>2, <2>3, <2>4, StopsKept DEF Turns
<1>25. ASSUME NEW t \in Tasks, KillOrphan(t) PROVE StopsLast'
  <2>1. Turns(t, task[t].op, "retire") \/ Turns(t, task[t].op, "unwind")
    BY <1>0, <1>25, GotoIs DEF KillOrphan
  <2>2. (exposed => exposed') /\ (Running' => Running)
    BY <1>d, <1>25 DEF KillOrphan, DbOK, NoRow
  <2>3. HasRead(t)' => HasRead(t) /\ task'[t].status = task[t].status
    BY <1>0, <1>e, <1>25, <2>1, GotoIs DEF KillOrphan, HasRead, Turns, InItsProgram, Reviving
  <2>4. task'[t].op = "stop" => task[t].op = "stop" /\ task'[t].pc # "retire"
    BY <1>e, <1>25, <2>1 DEF KillOrphan, Turns, InItsProgram, Reviving
  <2> QED BY <1>0, <2>1, <2>2, <2>3, <2>4, StopsKept DEF Turns
<1>26. ASSUME NEW t \in Tasks, StopKills(t) PROVE StopsLast'
  <2>1. Turns(t, task[t].op, "claim")
    BY <1>0, <1>26, GotoIs DEF StopKills
  <2>2. (exposed => exposed') /\ (Running' => Running)
    BY <1>d, <1>26 DEF StopKills, DbOK, NoRow
  <2>3. HasRead(t)' => HasRead(t) /\ task'[t].status = task[t].status
    BY <1>0, <1>e, <1>26, <2>1, GotoIs DEF StopKills, HasRead, Turns, InItsProgram, Reviving
  <2>4. task'[t].op = "stop" => task[t].op = "stop" /\ task'[t].pc # "retire"
    BY <1>e, <1>26, <2>1 DEF StopKills, Turns, InItsProgram, Reviving
  <2> QED BY <1>0, <2>1, <2>2, <2>3, <2>4, StopsKept DEF Turns
<1>27. ASSUME NEW t \in Tasks, KillFails(t) PROVE StopsLast'
  <2>1. Turns(t, "idle", "end")
    BY <1>0, <1>27, FinishesIs DEF KillFails
  <2>2. (exposed => exposed') /\ (Running' => Running)
    BY <1>d, <1>27 DEF KillFails, DbOK, NoRow
  <2>3. HasRead(t)' => HasRead(t) /\ task'[t].status = task[t].status
    BY <1>0, <1>e, <1>27, <2>1, GotoIs DEF KillFails, HasRead, Turns, InItsProgram, Reviving
  <2>4. task'[t].op = "stop" => task[t].op = "stop" /\ task'[t].pc # "retire"
    BY <1>e, <1>27, <2>1 DEF KillFails, Turns, InItsProgram, Reviving
  <2> QED BY <1>0, <2>1, <2>2, <2>3, <2>4, StopsKept DEF Turns
<1>28. ASSUME NEW t \in Tasks, StopClaims(t) PROVE StopsLast'
  <2>1. Turns(t, task[t].op, "mark")
    BY <1>0, <1>28, GotoIs DEF StopClaims
  <2>2. (exposed => exposed') /\ (Running' => Running)
    BY <1>d, <1>28 DEF StopClaims, DbOK, NoRow
  <2>3. HasRead(t)' => HasRead(t) /\ task'[t].status = task[t].status
    BY <1>0, <1>e, <1>28, <2>1, GotoIs DEF StopClaims, HasRead, Turns, InItsProgram, Reviving
  <2>4. task'[t].op = "stop" => task[t].op = "stop" /\ task'[t].pc # "retire"
    BY <1>e, <1>28, <2>1 DEF StopClaims, Turns, InItsProgram, Reviving
  <2> QED BY <1>0, <2>1, <2>2, <2>3, <2>4, StopsKept DEF Turns
<1>29. ASSUME NEW t \in Tasks, DeleteKills(t) PROVE StopsLast'
  <2>1. Turns(t, task[t].op, "unlink")
    BY <1>0, <1>29, GotoIs DEF DeleteKills
  <2>2. (exposed => exposed') /\ (Running' => Running)
    BY <1>d, <1>29 DEF DeleteKills, DbOK, NoRow
  <2>3. HasRead(t)' => HasRead(t) /\ task'[t].status = task[t].status
    BY <1>0, <1>e, <1>29, <2>1, GotoIs DEF DeleteKills, HasRead, Turns, InItsProgram, Reviving
  <2>4. task'[t].op = "stop" => task[t].op = "stop" /\ task'[t].pc # "retire"
    BY <1>e, <1>29, <2>1 DEF DeleteKills, Turns, InItsProgram, Reviving
  <2> QED BY <1>0, <2>1, <2>2, <2>3, <2>4, StopsKept DEF Turns
<1>30. ASSUME NEW t \in Tasks, DeleteRevokes(t) PROVE StopsLast'
  <2>1. Turns(t, task[t].op, "drop")
    BY <1>0, <1>30, GotoIs DEF DeleteRevokes
  <2>2. (exposed => exposed') /\ (Running' => Running)
    BY <1>d, <1>30 DEF DeleteRevokes, DbOK, NoRow
  <2>3. HasRead(t)' => HasRead(t) /\ task'[t].status = task[t].status
    BY <1>0, <1>e, <1>30, <2>1, GotoIs DEF DeleteRevokes, HasRead, Turns, InItsProgram, Reviving
  <2>4. task'[t].op = "stop" => task[t].op = "stop" /\ task'[t].pc # "retire"
    BY <1>e, <1>30, <2>1 DEF DeleteRevokes, Turns, InItsProgram, Reviving
  <2> QED BY <1>0, <2>1, <2>2, <2>3, <2>4, StopsKept DEF Turns
<1>31. ASSUME NEW t \in Tasks, DeleteRow(t) PROVE StopsLast'
  <2>1. Turns(t, "idle", "end")
    BY <1>0, <1>31, EndsIs DEF DeleteRow
  <2>2. (exposed => exposed') /\ (Running' => Running)
    BY <1>d, <1>31 DEF DeleteRow, DbOK, NoRow
  <2>3. HasRead(t)' => HasRead(t) /\ task'[t].status = task[t].status
    BY <1>0, <1>e, <1>31, <2>1, GotoIs DEF DeleteRow, HasRead, Turns, InItsProgram, Reviving
  <2>4. task'[t].op = "stop" => task[t].op = "stop" /\ task'[t].pc # "retire"
    BY <1>e, <1>31, <2>1 DEF DeleteRow, Turns, InItsProgram, Reviving
  <2> QED BY <1>0, <2>1, <2>2, <2>3, <2>4, StopsKept DEF Turns
<1>32. ASSUME NEW t \in Tasks, SweepRow(t) PROVE StopsLast'
  <2>1. Turns(t, "idle", "end") \/ Turns(t, task[t].op, "probe")
    BY <1>0, <1>32, GotoIs, EndsIs DEF SweepRow
  <2>2. (exposed => exposed') /\ (Running' => Running)
    BY <1>d, <1>32 DEF SweepRow, DbOK, NoRow
  <2>3. HasRead(t)' => HasRead(t) /\ task'[t].status = task[t].status
    BY <1>0, <1>e, <1>32, <2>1, GotoIs DEF SweepRow, HasRead, Turns, InItsProgram, Reviving
  <2>4. task'[t].op = "stop" => task[t].op = "stop" /\ task'[t].pc # "retire"
    BY <1>e, <1>32, <2>1 DEF SweepRow, Turns, InItsProgram, Reviving
  <2> QED BY <1>0, <2>1, <2>2, <2>3, <2>4, StopsKept DEF Turns
<1>33. ASSUME NEW t \in Tasks, Probe(t) PROVE StopsLast'
  <2>1. \/ Turns(t, task[t].op, "patch") \/ Turns(t, "sweep", "fold")
        \/ Turns(t, "death", "check") \/ Turns(t, "idle", "end")
    BY <1>0, <1>33, ProbeIs DEF Probe
  <2>2. (exposed => exposed') /\ (Running' => Running)
    BY <1>d, <1>33 DEF Probe, DbOK, NoRow
  <2>3. HasRead(t)' => HasRead(t) /\ task'[t].status = task[t].status
    BY <1>0, <1>e, <1>33, <2>1, GotoIs DEF Probe, HasRead, Turns, InItsProgram, Reviving
  <2>4. task'[t].op = "stop" => task[t].op = "stop" /\ task'[t].pc # "retire"
    BY <1>e, <1>33, <2>1 DEF Probe, Turns, InItsProgram, Reviving
  <2> QED BY <1>0, <2>1, <2>2, <2>3, <2>4, StopsKept DEF Turns
<1>34. ASSUME NEW t \in Tasks, PatchAlive(t) PROVE StopsLast'
  <2>1. Turns(t, "idle", "end")
    BY <1>0, <1>34, EndsIs DEF PatchAlive
  <2>2. (exposed => exposed') /\ (Running' => Running)
    BY <1>d, <1>34 DEF PatchAlive, DbOK, NoRow
  <2>3. HasRead(t)' => HasRead(t) /\ task'[t].status = task[t].status
    BY <1>0, <1>e, <1>34, <2>1, GotoIs DEF PatchAlive, HasRead, Turns, InItsProgram, Reviving
  <2>4. task'[t].op = "stop" => task[t].op = "stop" /\ task'[t].pc # "retire"
    BY <1>e, <1>34, <2>1 DEF PatchAlive, Turns, InItsProgram, Reviving
  <2> QED BY <1>0, <2>1, <2>2, <2>3, <2>4, StopsKept DEF Turns
<1>35. ASSUME NEW t \in Tasks, FoldAlive(t) PROVE StopsLast'
  <2>1. Turns(t, "idle", "end") \/ Turns(t, task[t].op, "bestKill")
    BY <1>0, <1>35, GotoIs, EndsIs DEF FoldAlive
  <2>2. (exposed => exposed') /\ (Running' => Running)
    BY <1>d, <1>35 DEF FoldAlive, DbOK, NoRow
  <2>3. HasRead(t)' => HasRead(t) /\ task'[t].status = task[t].status
    BY <1>0, <1>e, <1>35, <2>1, GotoIs DEF FoldAlive, HasRead, Turns, InItsProgram, Reviving
  <2>4. task'[t].op = "stop" => task[t].op = "stop" /\ task'[t].pc # "retire"
    BY <1>e, <1>35, <2>1 DEF FoldAlive, Turns, InItsProgram, Reviving
  <2> QED BY <1>0, <2>1, <2>2, <2>3, <2>4, StopsKept DEF Turns
<1>36. ASSUME NEW t \in Tasks, BestEffortKill(t) PROVE StopsLast'
  <2>1. Turns(t, "idle", "end")
    BY <1>0, <1>36, EndsIs DEF BestEffortKill
  <2>2. (exposed => exposed') /\ (Running' => Running)
    BY <1>d, <1>36 DEF BestEffortKill, DbOK, NoRow
  <2>3. HasRead(t)' => HasRead(t) /\ task'[t].status = task[t].status
    BY <1>0, <1>e, <1>36, <2>1, GotoIs DEF BestEffortKill, HasRead, Turns, InItsProgram, Reviving
  <2>4. task'[t].op = "stop" => task[t].op = "stop" /\ task'[t].pc # "retire"
    BY <1>e, <1>36, <2>1 DEF BestEffortKill, Turns, InItsProgram, Reviving
  <2> QED BY <1>0, <2>1, <2>2, <2>3, <2>4, StopsKept DEF Turns
<1>37. ASSUME NEW t \in Tasks, CheckLease(t) PROVE StopsLast'
  <2>1. Turns(t, "idle", "end") \/ Turns(t, "death", "fresh")
    BY <1>0, <1>37, GotoIs, EndsIs DEF CheckLease
  <2>2. (exposed => exposed') /\ (Running' => Running)
    BY <1>d, <1>37 DEF CheckLease, DbOK, NoRow
  <2>3. HasRead(t)' => HasRead(t) /\ task'[t].status = task[t].status
    BY <1>0, <1>e, <1>37, <2>1, GotoIs DEF CheckLease, HasRead, Turns, InItsProgram, Reviving
  <2>4. task'[t].op = "stop" => task[t].op = "stop" /\ task'[t].pc # "retire"
    BY <1>e, <1>37, <2>1 DEF CheckLease, Turns, InItsProgram, Reviving
  <2> QED BY <1>0, <2>1, <2>2, <2>3, <2>4, StopsKept DEF Turns
<1>38. ASSUME NEW t \in Tasks, FreshRow(t) PROVE StopsLast'
  <2>1. Turns(t, "idle", "end") \/ \E p \in {"claim", "schedule", "settled"} : Turns(t, "death", p)
    BY <1>0, <1>38, FreshRowIs DEF FreshRow
  <2>2. (exposed => exposed') /\ (Running' => Running)
    BY <1>d, <1>38 DEF FreshRow, DbOK, NoRow
  <2>3. HasRead(t)' => HasRead(t) /\ task'[t].status = task[t].status
    BY <1>0, <1>e, <1>38, <2>1, GotoIs DEF FreshRow, HasRead, Turns, InItsProgram, Reviving
  <2>4. task'[t].op = "stop" => task[t].op = "stop" /\ task'[t].pc # "retire"
    BY <1>e, <1>38, <2>1 DEF FreshRow, Turns, InItsProgram, Reviving
  <2> QED BY <1>0, <2>1, <2>2, <2>3, <2>4, StopsKept DEF Turns
<1>39. ASSUME NEW t \in Tasks, ClaimDeath(t) PROVE StopsLast'
  <2>1. Turns(t, task[t].op, "settled")
    BY <1>0, <1>39, GotoIs DEF ClaimDeath
  <2>2. (exposed => exposed') /\ (Running' => Running)
    BY <1>d, <1>39 DEF ClaimDeath, DbOK, NoRow
  <2>3. HasRead(t)' => HasRead(t) /\ task'[t].status = task[t].status
    BY <1>0, <1>e, <1>39, <2>1, GotoIs DEF ClaimDeath, HasRead, Turns, InItsProgram, Reviving
  <2>4. task'[t].op = "stop" => task[t].op = "stop" /\ task'[t].pc # "retire"
    BY <1>e, <1>39, <2>1 DEF ClaimDeath, Turns, InItsProgram, Reviving
  <2> QED BY <1>0, <2>1, <2>2, <2>3, <2>4, StopsKept DEF Turns
<1>40. ASSUME NEW t \in Tasks, Schedule(t) PROVE StopsLast'
  <2>1. Turns(t, task[t].op, "gates")
    BY <1>0, <1>40, GotoIs DEF Schedule
  <2>2. (exposed => exposed') /\ (Running' => Running)
    BY <1>d, <1>40 DEF Schedule, DbOK, NoRow
  <2>3. HasRead(t)' => HasRead(t) /\ task'[t].status = task[t].status
    BY <1>0, <1>e, <1>40, <2>1, GotoIs DEF Schedule, HasRead, Turns, InItsProgram, Reviving
  <2>4. task'[t].op = "stop" => task[t].op = "stop" /\ task'[t].pc # "retire"
    BY <1>e, <1>40, <2>1 DEF Schedule, Turns, InItsProgram, Reviving
  <2> QED BY <1>0, <2>1, <2>2, <2>3, <2>4, StopsKept DEF Turns
<1>41. ASSUME NEW t \in Tasks, Defer(t) PROVE StopsLast'
  <2>1. Turns(t, task[t].op, "settled")
    BY <1>0, <1>41, GotoIs DEF Defer
  <2>2. (exposed => exposed') /\ (Running' => Running)
    BY <1>d, <1>41 DEF Defer, DbOK, NoRow
  <2>3. HasRead(t)' => HasRead(t) /\ task'[t].status = task[t].status
    BY <1>0, <1>e, <1>41, <2>1, GotoIs DEF Defer, HasRead, Turns, InItsProgram, Reviving
  <2>4. task'[t].op = "stop" => task[t].op = "stop" /\ task'[t].pc # "retire"
    BY <1>e, <1>41, <2>1 DEF Defer, Turns, InItsProgram, Reviving
  <2> QED BY <1>0, <2>1, <2>2, <2>3, <2>4, StopsKept DEF Turns
<1>42. ASSUME NEW t \in Tasks, AutoRestart(t) PROVE StopsLast'
  <2>1. Turns(t, task[t].op, "revoke")
    BY <1>0, <1>42, AutoRestartIs DEF AutoRestart
  <2>2. (exposed => exposed') /\ (Running' => Running)
    BY <1>d, <1>42 DEF AutoRestart, DbOK, NoRow
  <2>3. HasRead(t)' => HasRead(t) /\ task'[t].status = task[t].status
    BY <1>0, <1>e, <1>42, <2>1, GotoIs DEF AutoRestart, HasRead, Turns, InItsProgram, Reviving
  <2>4. task'[t].op = "stop" => task[t].op = "stop" /\ task'[t].pc # "retire"
    BY <1>e, <1>42, <2>1 DEF AutoRestart, Turns, InItsProgram, Reviving
  <2> QED BY <1>0, <2>1, <2>2, <2>3, <2>4, StopsKept DEF Turns
<1>43. ASSUME NEW t \in Tasks, UnwindAuto(t) PROVE StopsLast'
  <2>1. Turns(t, task[t].op, "settled")
    BY <1>0, <1>43, GotoIs DEF UnwindAuto
  <2>2. (exposed => exposed') /\ (Running' => Running)
    BY <1>d, <1>43 DEF UnwindAuto, DbOK, NoRow
  <2>3. HasRead(t)' => HasRead(t) /\ task'[t].status = task[t].status
    BY <1>0, <1>e, <1>43, <2>1, GotoIs DEF UnwindAuto, HasRead, Turns, InItsProgram, Reviving
  <2>4. task'[t].op = "stop" => task[t].op = "stop" /\ task'[t].pc # "retire"
    BY <1>e, <1>43, <2>1 DEF UnwindAuto, Turns, InItsProgram, Reviving
  <2> QED BY <1>0, <2>1, <2>2, <2>3, <2>4, StopsKept DEF Turns
<1>44. ASSUME NEW t \in Tasks, Bury(t) PROVE StopsLast'
  <2>1. Turns(t, "idle", "end") \/ Turns(t, task[t].op, "reap")
    BY <1>0, <1>44, GotoIs, EndsIs DEF Bury
  <2>2. (exposed => exposed') /\ (Running' => Running)
    BY <1>d, <1>44 DEF Bury, DbOK, NoRow
  <2>3. HasRead(t)' => HasRead(t) /\ task'[t].status = task[t].status
    BY <1>0, <1>e, <1>44, <2>1, GotoIs DEF Bury, HasRead, Turns, InItsProgram, Reviving
  <2>4. task'[t].op = "stop" => task[t].op = "stop" /\ task'[t].pc # "retire"
    BY <1>e, <1>44, <2>1 DEF Bury, Turns, InItsProgram, Reviving
  <2> QED BY <1>0, <2>1, <2>2, <2>3, <2>4, StopsKept DEF Turns
<1>45. ASSUME NEW t \in Tasks, Reap(t) PROVE StopsLast'
  <2>1. Turns(t, "idle", "end")
    BY <1>0, <1>45, EndsIs DEF Reap
  <2>2. (exposed => exposed') /\ (Running' => Running)
    BY <1>d, <1>45 DEF Reap, DbOK, NoRow
  <2>3. HasRead(t)' => HasRead(t) /\ task'[t].status = task[t].status
    BY <1>0, <1>e, <1>45, <2>1, GotoIs DEF Reap, HasRead, Turns, InItsProgram, Reviving
  <2>4. task'[t].op = "stop" => task[t].op = "stop" /\ task'[t].pc # "retire"
    BY <1>e, <1>45, <2>1 DEF Reap, Turns, InItsProgram, Reviving
  <2> QED BY <1>0, <2>1, <2>2, <2>3, <2>4, StopsKept DEF Turns
<1>46. ASSUME PaneDies PROVE StopsLast'
  BY <1>0, <1>d, <1>46, StopsStill DEF PaneDies, DbOK
<1>47. ASSUME ReportIsLost PROVE StopsLast'
  BY <1>0, <1>d, <1>47, StopsStill DEF ReportIsLost, DbOK
<1>48. ASSUME LinkDrops PROVE StopsLast'
  BY <1>0, <1>d, <1>48, StopsStill DEF LinkDrops, DbOK
<1>49. ASSUME RetryFallsDue PROVE StopsLast'
  BY <1>0, <1>d, <1>49, StopsStill DEF RetryFallsDue, DbOK
<1>50. ASSUME UNCHANGED vars PROVE StopsLast'
  BY <1>0, <1>d, <1>50, StopsStill DEF vars, DbOK
<1> QED
  BY <1>1, <1>2, <1>3, <1>4, <1>5, <1>6, <1>7, <1>8, <1>9, <1>10, <1>11, <1>12, <1>13,
     <1>14, <1>15, <1>16, <1>17, <1>18, <1>19, <1>20, <1>21, <1>22, <1>23, <1>24, <1>25, <1>26,
     <1>27, <1>28, <1>29, <1>30, <1>31, <1>32, <1>33, <1>34, <1>35, <1>36, <1>37, <1>38, <1>39,
     <1>40, <1>41, <1>42, <1>43, <1>44, <1>45, <1>46, <1>47, <1>48, <1>49, <1>50
     DEF Next, Operation, Continue, Launching, Restarting, Stopping, Sweeping, Burying

\* A task that will not give the pane up for what the row says: its row has ended,
\* or the pane is not alive.
Over(t) ==
  /\ At(t, "orphan") => ~Running
  /\ pane.is = "live" /\ (At(t, "retire") \/ AtAs(t, "unwind", {"death"}) \/ task[t].pc \in {"settled", "reap"})
     => ~Running

RowOver == ~exposed => \A t \in Tasks : Over(t)

\* A step that neither spawns nor runs the row again.
LEMMA OverKept ==
  ASSUME RowOver, NEW t \in Tasks, NEW o, NEW p, Turns(t, o, p), exposed => exposed',
         Running' => Running, pane'.is = "live" => pane.is = "live", ~exposed' => Over(t)'
  PROVE  RowOver'
  BY DEF RowOver, Over, Turns, At, AtAs

\* The same, of a step of no task.
LEMMA OverStill ==
  ASSUME RowOver, UNCHANGED <<task, exposed>>, row'.status = row.status, pane'.is = "live" => pane.is = "live"
  PROVE  RowOver'
  BY DEF RowOver, Over, At, AtAs, Running

\* On a node, a restart past its park works on a row that is not alive.
StaysDead ==
  ~exposed /\ place = "agent" => \A t \in Tasks : task[t].op = "restart" /\ ~HasRead(t) => ~row.alive

\* A step that does not set `alive`.
LEMMA DeadKept ==
  ASSUME StaysDead, NEW t \in Tasks, NEW o, NEW p, Turns(t, o, p), exposed => exposed', place' = place,
         place = "agent" /\ row'.alive => row.alive,
         o = "restart" => (task[t].op = "restart" /\ (HasRead(t) => HasRead(t)')) \/ HasRead(t)'
  PROVE  StaysDead'
  BY DEF StaysDead, HasRead, Turns

\* The same, of a step of no task.
LEMMA DeadStill ==
  ASSUME StaysDead, UNCHANGED <<task, exposed, place>>, row'.alive = row.alive PROVE StaysDead'
  BY DEF StaysDead, HasRead

LEMMA DeadStep == ASSUME TypeOK, Launchers, Where, StaysDead, [Next]_vars PROVE StaysDead'
<1> USE DEF At, AtAs, Free, RowBecomes, Running, Exists, Exposes, hostVars, dbVars, fixed
<1>0. TypeOK /\ OneLauncher /\ NothingYet /\ Where /\ StaysDead BY DEF Launchers
<1>e. \A t \in Tasks : InItsProgram(task[t]) /\ (lease = t <=> task[t].op = "restart") /\ t # None
  BY NoneAssumption DEF TypeOK
<1>d. DbOK BY Parts
<1>1. ASSUME NEW t \in Tasks, Create(t) PROVE StaysDead'
  <2>1. Turns(t, "create", "mint") BY <1>0, <1>1, BeginsIs DEF Create
  <2>2. \A u \in Tasks : Free(u) BY <1>0, <1>1 DEF Create, NothingYet
  <2> QED BY <2>1, <2>2 DEF StaysDead, Turns
<1>2. ASSUME NEW t \in Tasks, Restart(t) PROVE StaysDead'
  <2>1. Turns(t, "restart", "kill") BY <1>0, <1>2, RestartIs
  <2>2. UNCHANGED <<row, place>> /\ (exposed => exposed') BY <1>2 DEF Restart
  <2>3. HasRead(t)' BY <2>1 DEF HasRead, Turns
  <2> QED BY <1>0, <2>1, <2>2, <2>3, DeadKept
<1>3. ASSUME NEW t \in Tasks, Stop(t) PROVE StaysDead'
  <2>1. Turns(t, "stop", "kill")
    BY <1>0, <1>3, BeginsIs DEF Stop
  <2>2. (exposed => exposed') /\ place' = place /\ (place = "agent" /\ row'.alive => row.alive)
    BY <1>0, <1>d, <1>3 DEF Stop, DbOK, NoRow, Where
  <2>3. task'[t].op = "restart" => task[t].op = "restart" /\ (HasRead(t) => HasRead(t)')
    BY <1>e, <1>3, <2>1 DEF Stop, HasRead, Turns, InItsProgram, Reviving
  <2> QED BY <1>0, <2>1, <2>2, <2>3, DeadKept DEF Turns
<1>4. ASSUME NEW t \in Tasks, Delete(t) PROVE StaysDead'
  <2>1. Turns(t, "delete", "kill")
    BY <1>0, <1>4, BeginsIs DEF Delete
  <2>2. (exposed => exposed') /\ place' = place /\ (place = "agent" /\ row'.alive => row.alive)
    BY <1>0, <1>d, <1>4 DEF Delete, DbOK, NoRow, Where
  <2>3. task'[t].op = "restart" => task[t].op = "restart" /\ (HasRead(t) => HasRead(t)')
    BY <1>e, <1>4, <2>1 DEF Delete, HasRead, Turns, InItsProgram, Reviving
  <2> QED BY <1>0, <2>1, <2>2, <2>3, DeadKept DEF Turns
<1>5. ASSUME NEW t \in Tasks, Sweep(t) PROVE StaysDead'
  <2>1. Turns(t, "sweep", "row")
    BY <1>0, <1>5, SweepIs DEF Sweep
  <2>2. (exposed => exposed') /\ place' = place /\ (place = "agent" /\ row'.alive => row.alive)
    BY <1>0, <1>d, <1>5 DEF Sweep, DbOK, NoRow, Where
  <2>3. task'[t].op = "restart" => task[t].op = "restart" /\ (HasRead(t) => HasRead(t)')
    BY <1>e, <1>5, <2>1 DEF Sweep, HasRead, Turns, InItsProgram, Reviving
  <2> QED BY <1>0, <2>1, <2>2, <2>3, DeadKept DEF Turns
<1>6. ASSUME NEW t \in Tasks, Report(t) PROVE StaysDead'
  <2>1. task' = task \/ Turns(t, "death", "check") BY <1>0, <1>6, ReportIs
  <2>2. UNCHANGED <<exposed, row, place>> BY <1>6 DEF Report
  <2>3. CASE task' = task BY <1>0, <2>2, <2>3, DeadStill
  <2>4. CASE Turns(t, "death", "check") BY <1>0, <2>2, <2>4, DeadKept
  <2> QED BY <2>1, <2>3, <2>4
<1>7. ASSUME NEW t \in Tasks, NodeReports(t) PROVE StaysDead'
  <2>1. task' = task \/ Turns(t, "death", "check") BY <1>0, <1>7, NodeReportsIs
  <2>2. UNCHANGED <<exposed, row, place>> BY <1>7 DEF NodeReports
  <2>3. CASE task' = task BY <1>0, <2>2, <2>3, DeadStill
  <2>4. CASE Turns(t, "death", "check") BY <1>0, <2>2, <2>4, DeadKept
  <2> QED BY <2>1, <2>3, <2>4
<1>8. ASSUME NEW t \in Tasks, LinkReturns(t) PROVE StaysDead'
  <2>1. task' = task \/ (Turns(t, "death", "check") \/ Turns(t, "census", "fold")) BY <1>0, <1>8, LinkReturnsIs
  <2>2. UNCHANGED <<exposed, row, place>> BY <1>8 DEF LinkReturns
  <2>3. CASE task' = task BY <1>0, <2>2, <2>3, DeadStill
  <2>4. CASE (Turns(t, "death", "check") \/ Turns(t, "census", "fold")) BY <1>0, <2>2, <2>4, DeadKept
  <2> QED BY <2>1, <2>3, <2>4
<1>9. ASSUME NEW t \in Tasks, Mint(t) PROVE StaysDead'
  <2>1. Turns(t, task[t].op, "link")
    BY <1>0, <1>9, MintIs DEF Mint
  <2>2. (exposed => exposed') /\ place' = place /\ (place = "agent" /\ row'.alive => row.alive)
    BY <1>0, <1>d, <1>9 DEF Mint, DbOK, NoRow, Where
  <2>3. task'[t].op = "restart" => task[t].op = "restart" /\ (HasRead(t) => HasRead(t)')
    BY <1>e, <1>9, <2>1 DEF Mint, HasRead, Turns, InItsProgram, Reviving
  <2> QED BY <1>0, <2>1, <2>2, <2>3, DeadKept DEF Turns
<1>10. ASSUME NEW t \in Tasks, Link(t) PROVE StaysDead'
  <2>1. \E p \in {"launch", "look"} : Turns(t, task[t].op, p)
    BY <1>0, <1>10, GotoIs DEF Link
  <2>2. (exposed => exposed') /\ place' = place /\ (place = "agent" /\ row'.alive => row.alive)
    BY <1>0, <1>d, <1>10 DEF Link, DbOK, NoRow, Where
  <2>3. task'[t].op = "restart" => task[t].op = "restart" /\ (HasRead(t) => HasRead(t)')
    BY <1>e, <1>10, <2>1 DEF Link, HasRead, Turns, InItsProgram, Reviving
  <2> QED BY <1>0, <2>1, <2>2, <2>3, DeadKept DEF Turns
<1>11. ASSUME NEW t \in Tasks, LaunchSucceeds(t) PROVE StaysDead'
  <2>1. Turns(t, task[t].op, IF task[t].op = "create" THEN "settle" ELSE "revive")
    BY <1>0, <1>11, GotoIs DEF LaunchSucceeds
  <2>2. (exposed => exposed') /\ place' = place /\ (place = "agent" /\ row'.alive => row.alive)
    BY <1>0, <1>d, <1>11 DEF LaunchSucceeds, DbOK, NoRow, Where
  <2>3. task'[t].op = "restart" => task[t].op = "restart" /\ (HasRead(t) => HasRead(t)')
    BY <1>e, <1>11, <2>1 DEF LaunchSucceeds, HasRead, Turns, InItsProgram, Reviving
  <2> QED BY <1>0, <2>1, <2>2, <2>3, DeadKept DEF Turns
<1>12. ASSUME NEW t \in Tasks, LaunchRefused(t) PROVE StaysDead'
  <2>1. Turns(t, task[t].op, "unwind")
    BY <1>0, <1>12, GotoIs DEF LaunchRefused
  <2>2. (exposed => exposed') /\ place' = place /\ (place = "agent" /\ row'.alive => row.alive)
    BY <1>0, <1>d, <1>12 DEF LaunchRefused, DbOK, NoRow, Where
  <2>3. task'[t].op = "restart" => task[t].op = "restart" /\ (HasRead(t) => HasRead(t)')
    BY <1>e, <1>12, <2>1 DEF LaunchRefused, HasRead, Turns, InItsProgram, Reviving
  <2> QED BY <1>0, <2>1, <2>2, <2>3, DeadKept DEF Turns
<1>13. ASSUME NEW t \in Tasks, LaunchBreaks(t) PROVE StaysDead'
  <2>1. Turns(t, task[t].op, "unwind")
    BY <1>0, <1>13, GotoIs DEF LaunchBreaks
  <2>2. (exposed => exposed') /\ place' = place /\ (place = "agent" /\ row'.alive => row.alive)
    BY <1>0, <1>d, <1>13 DEF LaunchBreaks, DbOK, NoRow, Where
  <2>3. task'[t].op = "restart" => task[t].op = "restart" /\ (HasRead(t) => HasRead(t)')
    BY <1>e, <1>13, <2>1 DEF LaunchBreaks, HasRead, Turns, InItsProgram, Reviving
  <2> QED BY <1>0, <2>1, <2>2, <2>3, DeadKept DEF Turns
<1>14. ASSUME NEW t \in Tasks, Settle(t) PROVE StaysDead'
  <2>1. (Running /\ Turns(t, "idle", "end")) \/ (~Running /\ Turns(t, task[t].op, "orphan"))
    BY <1>0, <1>14, GotoIs, FinishesIs DEF Settle
  <2>2. (exposed => exposed') /\ place' = place /\ (place = "agent" /\ row'.alive => row.alive)
    BY <1>0, <1>d, <1>14 DEF Settle, DbOK, NoRow, Where
  <2>3. task'[t].op = "restart" => task[t].op = "restart" /\ (HasRead(t) => HasRead(t)')
    BY <1>e, <1>14, <2>1 DEF Settle, HasRead, Turns, InItsProgram, Reviving
  <2> QED BY <1>0, <2>1, <2>2, <2>3, DeadKept DEF Turns
<1>15. ASSUME NEW t \in Tasks, UnwindCreate(t) PROVE StaysDead'
  <2>1. Turns(t, task[t].op, "mark")
    BY <1>0, <1>15, GotoIs DEF UnwindCreate
  <2>2. (exposed => exposed') /\ place' = place /\ (place = "agent" /\ row'.alive => row.alive)
    BY <1>0, <1>d, <1>15 DEF UnwindCreate, DbOK, NoRow, Where
  <2>3. task'[t].op = "restart" => task[t].op = "restart" /\ (HasRead(t) => HasRead(t)')
    BY <1>e, <1>15, <2>1 DEF UnwindCreate, HasRead, Turns, InItsProgram, Reviving
  <2> QED BY <1>0, <2>1, <2>2, <2>3, DeadKept DEF Turns
<1>16. ASSUME NEW t \in Tasks, Mark(t) PROVE StaysDead'
  <2>1. Turns(t, task[t].op, "retire")
    BY <1>0, <1>16, GotoIs DEF Mark
  <2>2. (exposed => exposed') /\ place' = place /\ (place = "agent" /\ row'.alive => row.alive)
    BY <1>0, <1>d, <1>16 DEF Mark, DbOK, NoRow, Where
  <2>3. task'[t].op = "restart" => task[t].op = "restart" /\ (HasRead(t) => HasRead(t)')
    BY <1>e, <1>16, <2>1 DEF Mark, HasRead, Turns, InItsProgram, Reviving
  <2> QED BY <1>0, <2>1, <2>2, <2>3, DeadKept DEF Turns
<1>17. ASSUME NEW t \in Tasks, Retire(t) PROVE StaysDead'
  <2>1. Turns(t, "idle", "end") \/ Turns(t, task[t].op, "settled")
    BY <1>0, <1>17, GotoIs, FinishesIs DEF Retire
  <2>2. (exposed => exposed') /\ place' = place /\ (place = "agent" /\ row'.alive => row.alive)
    BY <1>0, <1>d, <1>17 DEF Retire, DbOK, NoRow, Where
  <2>3. task'[t].op = "restart" => task[t].op = "restart" /\ (HasRead(t) => HasRead(t)')
    BY <1>e, <1>17, <2>1 DEF Retire, HasRead, Turns, InItsProgram, Reviving
  <2> QED BY <1>0, <2>1, <2>2, <2>3, DeadKept DEF Turns
<1>18. ASSUME NEW t \in Tasks, KillOld(t) PROVE StaysDead'
  <2>1. Turns(t, "idle", "end") \/ Turns(t, task[t].op, "park")
    BY <1>0, <1>18, GotoIs, FinishesIs DEF KillOld
  <2>2. (exposed => exposed') /\ place' = place /\ (place = "agent" /\ row'.alive => row.alive)
    BY <1>0, <1>d, <1>18 DEF KillOld, DbOK, NoRow, Where
  <2>3. task'[t].op = "restart" => task[t].op = "restart" /\ (HasRead(t) => HasRead(t)')
    BY <1>e, <1>18, <2>1 DEF KillOld, HasRead, Turns, InItsProgram, Reviving
  <2> QED BY <1>0, <2>1, <2>2, <2>3, DeadKept DEF Turns
<1>19. ASSUME NEW t \in Tasks, Park(t) PROVE StaysDead'
  <2>1. exposed' = exposed /\ place' = place /\ task[t].op = "restart" BY <1>e, <1>19 DEF Park, InItsProgram, Reviving
  <2>2. CASE ~AsRead(t)
    <3>1. Turns(t, "idle", "end") /\ row' = row BY <1>0, <2>2, <1>19, ParkIs DEF Park
    <3> QED BY <1>0, <2>1, <3>1, DeadKept
  <2>3. CASE AsRead(t)
    <3>1. ~row'.alive BY <1>d, <2>3, <1>19 DEF Park, DbOK
    <3> QED BY <3>1 DEF StaysDead
  <2> QED BY <2>2, <2>3
<1>20. ASSUME NEW t \in Tasks, UnwindRestart(t) PROVE StaysDead'
  <2>1. Turns(t, task[t].op, "mark")
    BY <1>0, <1>20, GotoIs DEF UnwindRestart
  <2>2. (exposed => exposed') /\ place' = place /\ (place = "agent" /\ row'.alive => row.alive)
    BY <1>0, <1>d, <1>20 DEF UnwindRestart, DbOK, NoRow, Where
  <2>3. task'[t].op = "restart" => task[t].op = "restart" /\ (HasRead(t) => HasRead(t)')
    BY <1>e, <1>20, <2>1 DEF UnwindRestart, HasRead, Turns, InItsProgram, Reviving
  <2> QED BY <1>0, <2>1, <2>2, <2>3, DeadKept DEF Turns
<1>21. ASSUME NEW t \in Tasks, CannotCompose(t) PROVE StaysDead'
  <2>1. Turns(t, task[t].op, "unwind")
    BY <1>0, <1>21, GotoIs DEF CannotCompose
  <2>2. (exposed => exposed') /\ place' = place /\ (place = "agent" /\ row'.alive => row.alive)
    BY <1>0, <1>d, <1>21 DEF CannotCompose, DbOK, NoRow, Where
  <2>3. task'[t].op = "restart" => task[t].op = "restart" /\ (HasRead(t) => HasRead(t)')
    BY <1>e, <1>21, <2>1 DEF CannotCompose, HasRead, Turns, InItsProgram, Reviving
  <2> QED BY <1>0, <2>1, <2>2, <2>3, DeadKept DEF Turns
<1>22. ASSUME NEW t \in Tasks, RotateKey(t) PROVE StaysDead'
  <2>1. Turns(t, task[t].op, "mint")
    BY <1>0, <1>22, GotoIs DEF RotateKey
  <2>2. (exposed => exposed') /\ place' = place /\ (place = "agent" /\ row'.alive => row.alive)
    BY <1>0, <1>d, <1>22 DEF RotateKey, DbOK, NoRow, Where
  <2>3. task'[t].op = "restart" => task[t].op = "restart" /\ (HasRead(t) => HasRead(t)')
    BY <1>e, <1>22, <2>1 DEF RotateKey, HasRead, Turns, InItsProgram, Reviving
  <2> QED BY <1>0, <2>1, <2>2, <2>3, DeadKept DEF Turns
<1>23. ASSUME NEW t \in Tasks, Look(t) PROVE StaysDead'
  <2>1. Turns(t, task[t].op, "launch") \/ Turns(t, task[t].op, "retire")
    BY <1>0, <1>23, GotoIs DEF Look
  <2>2. (exposed => exposed') /\ place' = place /\ (place = "agent" /\ row'.alive => row.alive)
    BY <1>0, <1>d, <1>23 DEF Look, DbOK, NoRow, Where
  <2>3. task'[t].op = "restart" => task[t].op = "restart" /\ (HasRead(t) => HasRead(t)')
    BY <1>e, <1>23, <2>1 DEF Look, HasRead, Turns, InItsProgram, Reviving
  <2> QED BY <1>0, <2>1, <2>2, <2>3, DeadKept DEF Turns
<1>24. ASSUME NEW t \in Tasks, Revive(t) PROVE StaysDead'
  <2>1. Launcher(t) /\ exposed' = exposed BY <1>e, <1>24 DEF Revive, Launcher, InDeathHandler, InItsProgram
  <2>2. ~exposed => \A u \in Tasks \ {t} : task[u].op # "restart" BY <1>0, <2>1 DEF OneLauncher, Launcher
  <2>3. CASE Running
    <3>1. Turns(t, "idle", "end") BY <1>0, <1>24, <2>3, FinishesIs DEF Revive
    <3> QED BY <2>1, <2>2, <3>1 DEF StaysDead, Turns
  <2>4. CASE ~Running
    <3>1. Turns(t, task[t].op, "orphan") /\ UNCHANGED <<row, place>> BY <1>0, <1>24, <2>4, GotoIs DEF Revive
    <3> QED BY <1>0, <2>1, <3>1, <1>24, DeadKept DEF Revive, HasRead
  <2> QED BY <2>3, <2>4
<1>25. ASSUME NEW t \in Tasks, KillOrphan(t) PROVE StaysDead'
  <2>1. Turns(t, task[t].op, "retire") \/ Turns(t, task[t].op, "unwind")
    BY <1>0, <1>25, GotoIs DEF KillOrphan
  <2>2. (exposed => exposed') /\ place' = place /\ (place = "agent" /\ row'.alive => row.alive)
    BY <1>0, <1>d, <1>25 DEF KillOrphan, DbOK, NoRow, Where
  <2>3. task'[t].op = "restart" => task[t].op = "restart" /\ (HasRead(t) => HasRead(t)')
    BY <1>e, <1>25, <2>1 DEF KillOrphan, HasRead, Turns, InItsProgram, Reviving
  <2> QED BY <1>0, <2>1, <2>2, <2>3, DeadKept DEF Turns
<1>26. ASSUME NEW t \in Tasks, StopKills(t) PROVE StaysDead'
  <2>1. Turns(t, task[t].op, "claim")
    BY <1>0, <1>26, GotoIs DEF StopKills
  <2>2. (exposed => exposed') /\ place' = place /\ (place = "agent" /\ row'.alive => row.alive)
    BY <1>0, <1>d, <1>26 DEF StopKills, DbOK, NoRow, Where
  <2>3. task'[t].op = "restart" => task[t].op = "restart" /\ (HasRead(t) => HasRead(t)')
    BY <1>e, <1>26, <2>1 DEF StopKills, HasRead, Turns, InItsProgram, Reviving
  <2> QED BY <1>0, <2>1, <2>2, <2>3, DeadKept DEF Turns
<1>27. ASSUME NEW t \in Tasks, KillFails(t) PROVE StaysDead'
  <2>1. Turns(t, "idle", "end")
    BY <1>0, <1>27, FinishesIs DEF KillFails
  <2>2. (exposed => exposed') /\ place' = place /\ (place = "agent" /\ row'.alive => row.alive)
    BY <1>0, <1>d, <1>27 DEF KillFails, DbOK, NoRow, Where
  <2>3. task'[t].op = "restart" => task[t].op = "restart" /\ (HasRead(t) => HasRead(t)')
    BY <1>e, <1>27, <2>1 DEF KillFails, HasRead, Turns, InItsProgram, Reviving
  <2> QED BY <1>0, <2>1, <2>2, <2>3, DeadKept DEF Turns
<1>28. ASSUME NEW t \in Tasks, StopClaims(t) PROVE StaysDead'
  <2>1. Turns(t, task[t].op, "mark")
    BY <1>0, <1>28, GotoIs DEF StopClaims
  <2>2. (exposed => exposed') /\ place' = place /\ (place = "agent" /\ row'.alive => row.alive)
    BY <1>0, <1>d, <1>28 DEF StopClaims, DbOK, NoRow, Where
  <2>3. task'[t].op = "restart" => task[t].op = "restart" /\ (HasRead(t) => HasRead(t)')
    BY <1>e, <1>28, <2>1 DEF StopClaims, HasRead, Turns, InItsProgram, Reviving
  <2> QED BY <1>0, <2>1, <2>2, <2>3, DeadKept DEF Turns
<1>29. ASSUME NEW t \in Tasks, DeleteKills(t) PROVE StaysDead'
  <2>1. Turns(t, task[t].op, "unlink")
    BY <1>0, <1>29, GotoIs DEF DeleteKills
  <2>2. (exposed => exposed') /\ place' = place /\ (place = "agent" /\ row'.alive => row.alive)
    BY <1>0, <1>d, <1>29 DEF DeleteKills, DbOK, NoRow, Where
  <2>3. task'[t].op = "restart" => task[t].op = "restart" /\ (HasRead(t) => HasRead(t)')
    BY <1>e, <1>29, <2>1 DEF DeleteKills, HasRead, Turns, InItsProgram, Reviving
  <2> QED BY <1>0, <2>1, <2>2, <2>3, DeadKept DEF Turns
<1>30. ASSUME NEW t \in Tasks, DeleteRevokes(t) PROVE StaysDead'
  <2>1. Turns(t, task[t].op, "drop")
    BY <1>0, <1>30, GotoIs DEF DeleteRevokes
  <2>2. (exposed => exposed') /\ place' = place /\ (place = "agent" /\ row'.alive => row.alive)
    BY <1>0, <1>d, <1>30 DEF DeleteRevokes, DbOK, NoRow, Where
  <2>3. task'[t].op = "restart" => task[t].op = "restart" /\ (HasRead(t) => HasRead(t)')
    BY <1>e, <1>30, <2>1 DEF DeleteRevokes, HasRead, Turns, InItsProgram, Reviving
  <2> QED BY <1>0, <2>1, <2>2, <2>3, DeadKept DEF Turns
<1>31. ASSUME NEW t \in Tasks, DeleteRow(t) PROVE StaysDead'
  <2>1. Turns(t, "idle", "end")
    BY <1>0, <1>31, EndsIs DEF DeleteRow
  <2>2. (exposed => exposed') /\ place' = place /\ (place = "agent" /\ row'.alive => row.alive)
    BY <1>0, <1>d, <1>31 DEF DeleteRow, DbOK, NoRow, Where
  <2>3. task'[t].op = "restart" => task[t].op = "restart" /\ (HasRead(t) => HasRead(t)')
    BY <1>e, <1>31, <2>1 DEF DeleteRow, HasRead, Turns, InItsProgram, Reviving
  <2> QED BY <1>0, <2>1, <2>2, <2>3, DeadKept DEF Turns
<1>32. ASSUME NEW t \in Tasks, SweepRow(t) PROVE StaysDead'
  <2>1. Turns(t, "idle", "end") \/ Turns(t, task[t].op, "probe")
    BY <1>0, <1>32, GotoIs, EndsIs DEF SweepRow
  <2>2. (exposed => exposed') /\ place' = place /\ (place = "agent" /\ row'.alive => row.alive)
    BY <1>0, <1>d, <1>32 DEF SweepRow, DbOK, NoRow, Where
  <2>3. task'[t].op = "restart" => task[t].op = "restart" /\ (HasRead(t) => HasRead(t)')
    BY <1>e, <1>32, <2>1 DEF SweepRow, HasRead, Turns, InItsProgram, Reviving
  <2> QED BY <1>0, <2>1, <2>2, <2>3, DeadKept DEF Turns
<1>33. ASSUME NEW t \in Tasks, Probe(t) PROVE StaysDead'
  <2>1. \/ Turns(t, task[t].op, "patch") \/ Turns(t, "sweep", "fold")
        \/ Turns(t, "death", "check") \/ Turns(t, "idle", "end")
    BY <1>0, <1>33, ProbeIs DEF Probe
  <2>2. (exposed => exposed') /\ place' = place /\ (place = "agent" /\ row'.alive => row.alive)
    BY <1>0, <1>d, <1>33 DEF Probe, DbOK, NoRow, Where
  <2>3. task'[t].op = "restart" => task[t].op = "restart" /\ (HasRead(t) => HasRead(t)')
    BY <1>e, <1>33, <2>1 DEF Probe, HasRead, Turns, InItsProgram, Reviving
  <2> QED BY <1>0, <2>1, <2>2, <2>3, DeadKept DEF Turns
<1>34. ASSUME NEW t \in Tasks, PatchAlive(t) PROVE StaysDead'
  <2>1. Turns(t, "idle", "end")
    BY <1>0, <1>34, EndsIs DEF PatchAlive
  <2>2. (exposed => exposed') /\ place' = place /\ (place = "agent" /\ row'.alive => row.alive)
    BY <1>0, <1>d, <1>34 DEF PatchAlive, DbOK, NoRow, Where
  <2>3. task'[t].op = "restart" => task[t].op = "restart" /\ (HasRead(t) => HasRead(t)')
    BY <1>e, <1>34, <2>1 DEF PatchAlive, HasRead, Turns, InItsProgram, Reviving
  <2> QED BY <1>0, <2>1, <2>2, <2>3, DeadKept DEF Turns
<1>35. ASSUME NEW t \in Tasks, FoldAlive(t) PROVE StaysDead'
  <2>1. Turns(t, "idle", "end") \/ Turns(t, task[t].op, "bestKill") BY <1>0, <1>35, GotoIs, EndsIs DEF FoldAlive
  <2>2. ~exposed' => \A u \in Tasks : task[u].op # "restart" BY <1>e, <1>35 DEF FoldAlive
  <2>3. task[t].op # "restart" BY <1>e, <1>35 DEF FoldAlive, InItsProgram, Reviving
  <2> QED BY <2>1, <2>2, <2>3 DEF StaysDead, Turns
<1>36. ASSUME NEW t \in Tasks, BestEffortKill(t) PROVE StaysDead'
  <2>1. Turns(t, "idle", "end")
    BY <1>0, <1>36, EndsIs DEF BestEffortKill
  <2>2. (exposed => exposed') /\ place' = place /\ (place = "agent" /\ row'.alive => row.alive)
    BY <1>0, <1>d, <1>36 DEF BestEffortKill, DbOK, NoRow, Where
  <2>3. task'[t].op = "restart" => task[t].op = "restart" /\ (HasRead(t) => HasRead(t)')
    BY <1>e, <1>36, <2>1 DEF BestEffortKill, HasRead, Turns, InItsProgram, Reviving
  <2> QED BY <1>0, <2>1, <2>2, <2>3, DeadKept DEF Turns
<1>37. ASSUME NEW t \in Tasks, CheckLease(t) PROVE StaysDead'
  <2>1. Turns(t, "idle", "end") \/ Turns(t, "death", "fresh")
    BY <1>0, <1>37, GotoIs, EndsIs DEF CheckLease
  <2>2. (exposed => exposed') /\ place' = place /\ (place = "agent" /\ row'.alive => row.alive)
    BY <1>0, <1>d, <1>37 DEF CheckLease, DbOK, NoRow, Where
  <2>3. task'[t].op = "restart" => task[t].op = "restart" /\ (HasRead(t) => HasRead(t)')
    BY <1>e, <1>37, <2>1 DEF CheckLease, HasRead, Turns, InItsProgram, Reviving
  <2> QED BY <1>0, <2>1, <2>2, <2>3, DeadKept DEF Turns
<1>38. ASSUME NEW t \in Tasks, FreshRow(t) PROVE StaysDead'
  <2>1. Turns(t, "idle", "end") \/ \E p \in {"claim", "schedule", "settled"} : Turns(t, "death", p)
    BY <1>0, <1>38, FreshRowIs DEF FreshRow
  <2>2. (exposed => exposed') /\ place' = place /\ (place = "agent" /\ row'.alive => row.alive)
    BY <1>0, <1>d, <1>38 DEF FreshRow, DbOK, NoRow, Where
  <2>3. task'[t].op = "restart" => task[t].op = "restart" /\ (HasRead(t) => HasRead(t)')
    BY <1>e, <1>38, <2>1 DEF FreshRow, HasRead, Turns, InItsProgram, Reviving
  <2> QED BY <1>0, <2>1, <2>2, <2>3, DeadKept DEF Turns
<1>39. ASSUME NEW t \in Tasks, ClaimDeath(t) PROVE StaysDead'
  <2>1. Turns(t, task[t].op, "settled")
    BY <1>0, <1>39, GotoIs DEF ClaimDeath
  <2>2. (exposed => exposed') /\ place' = place /\ (place = "agent" /\ row'.alive => row.alive)
    BY <1>0, <1>d, <1>39 DEF ClaimDeath, DbOK, NoRow, Where
  <2>3. task'[t].op = "restart" => task[t].op = "restart" /\ (HasRead(t) => HasRead(t)')
    BY <1>e, <1>39, <2>1 DEF ClaimDeath, HasRead, Turns, InItsProgram, Reviving
  <2> QED BY <1>0, <2>1, <2>2, <2>3, DeadKept DEF Turns
<1>40. ASSUME NEW t \in Tasks, Schedule(t) PROVE StaysDead'
  <2>1. Turns(t, task[t].op, "gates")
    BY <1>0, <1>40, GotoIs DEF Schedule
  <2>2. (exposed => exposed') /\ place' = place /\ (place = "agent" /\ row'.alive => row.alive)
    BY <1>0, <1>d, <1>40 DEF Schedule, DbOK, NoRow, Where
  <2>3. task'[t].op = "restart" => task[t].op = "restart" /\ (HasRead(t) => HasRead(t)')
    BY <1>e, <1>40, <2>1 DEF Schedule, HasRead, Turns, InItsProgram, Reviving
  <2> QED BY <1>0, <2>1, <2>2, <2>3, DeadKept DEF Turns
<1>41. ASSUME NEW t \in Tasks, Defer(t) PROVE StaysDead'
  <2>1. Turns(t, task[t].op, "settled")
    BY <1>0, <1>41, GotoIs DEF Defer
  <2>2. (exposed => exposed') /\ place' = place /\ (place = "agent" /\ row'.alive => row.alive)
    BY <1>0, <1>d, <1>41 DEF Defer, DbOK, NoRow, Where
  <2>3. task'[t].op = "restart" => task[t].op = "restart" /\ (HasRead(t) => HasRead(t)')
    BY <1>e, <1>41, <2>1 DEF Defer, HasRead, Turns, InItsProgram, Reviving
  <2> QED BY <1>0, <2>1, <2>2, <2>3, DeadKept DEF Turns
<1>42. ASSUME NEW t \in Tasks, AutoRestart(t) PROVE StaysDead'
  <2>1. Turns(t, task[t].op, "revoke")
    BY <1>0, <1>42, AutoRestartIs DEF AutoRestart
  <2>2. (exposed => exposed') /\ place' = place /\ (place = "agent" /\ row'.alive => row.alive)
    BY <1>0, <1>d, <1>42 DEF AutoRestart, DbOK, NoRow, Where
  <2>3. task'[t].op = "restart" => task[t].op = "restart" /\ (HasRead(t) => HasRead(t)')
    BY <1>e, <1>42, <2>1 DEF AutoRestart, HasRead, Turns, InItsProgram, Reviving
  <2> QED BY <1>0, <2>1, <2>2, <2>3, DeadKept DEF Turns
<1>43. ASSUME NEW t \in Tasks, UnwindAuto(t) PROVE StaysDead'
  <2>1. Turns(t, task[t].op, "settled")
    BY <1>0, <1>43, GotoIs DEF UnwindAuto
  <2>2. (exposed => exposed') /\ place' = place /\ (place = "agent" /\ row'.alive => row.alive)
    BY <1>0, <1>d, <1>43 DEF UnwindAuto, DbOK, NoRow, Where
  <2>3. task'[t].op = "restart" => task[t].op = "restart" /\ (HasRead(t) => HasRead(t)')
    BY <1>e, <1>43, <2>1 DEF UnwindAuto, HasRead, Turns, InItsProgram, Reviving
  <2> QED BY <1>0, <2>1, <2>2, <2>3, DeadKept DEF Turns
<1>44. ASSUME NEW t \in Tasks, Bury(t) PROVE StaysDead'
  <2>1. Turns(t, "idle", "end") \/ Turns(t, task[t].op, "reap")
    BY <1>0, <1>44, GotoIs, EndsIs DEF Bury
  <2>2. (exposed => exposed') /\ place' = place /\ (place = "agent" /\ row'.alive => row.alive)
    BY <1>0, <1>d, <1>44 DEF Bury, DbOK, NoRow, Where
  <2>3. task'[t].op = "restart" => task[t].op = "restart" /\ (HasRead(t) => HasRead(t)')
    BY <1>e, <1>44, <2>1 DEF Bury, HasRead, Turns, InItsProgram, Reviving
  <2> QED BY <1>0, <2>1, <2>2, <2>3, DeadKept DEF Turns
<1>45. ASSUME NEW t \in Tasks, Reap(t) PROVE StaysDead'
  <2>1. Turns(t, "idle", "end")
    BY <1>0, <1>45, EndsIs DEF Reap
  <2>2. (exposed => exposed') /\ place' = place /\ (place = "agent" /\ row'.alive => row.alive)
    BY <1>0, <1>d, <1>45 DEF Reap, DbOK, NoRow, Where
  <2>3. task'[t].op = "restart" => task[t].op = "restart" /\ (HasRead(t) => HasRead(t)')
    BY <1>e, <1>45, <2>1 DEF Reap, HasRead, Turns, InItsProgram, Reviving
  <2> QED BY <1>0, <2>1, <2>2, <2>3, DeadKept DEF Turns
<1>46. ASSUME PaneDies PROVE StaysDead'
  BY <1>0, <1>d, <1>46, DeadStill DEF PaneDies, DbOK
<1>47. ASSUME ReportIsLost PROVE StaysDead'
  BY <1>0, <1>d, <1>47, DeadStill DEF ReportIsLost, DbOK
<1>48. ASSUME LinkDrops PROVE StaysDead'
  BY <1>0, <1>d, <1>48, DeadStill DEF LinkDrops, DbOK
<1>49. ASSUME RetryFallsDue PROVE StaysDead'
  BY <1>0, <1>d, <1>49, DeadStill DEF RetryFallsDue, DbOK
<1>50. ASSUME UNCHANGED vars PROVE StaysDead'
  BY <1>0, <1>d, <1>50, DeadStill DEF vars, DbOK
<1> QED
  BY <1>1, <1>2, <1>3, <1>4, <1>5, <1>6, <1>7, <1>8, <1>9, <1>10, <1>11, <1>12, <1>13,
     <1>14, <1>15, <1>16, <1>17, <1>18, <1>19, <1>20, <1>21, <1>22, <1>23, <1>24, <1>25, <1>26,
     <1>27, <1>28, <1>29, <1>30, <1>31, <1>32, <1>33, <1>34, <1>35, <1>36, <1>37, <1>38, <1>39,
     <1>40, <1>41, <1>42, <1>43, <1>44, <1>45, <1>46, <1>47, <1>48, <1>49, <1>50
     DEF Next, Operation, Continue, Launching, Restarting, Stopping, Sweeping, Burying

\* No step leaves a live pane of a running row to a task that has given it up.
LEMMA OverStep ==
  ASSUME TypeOK, Apart, StrayInv, StopsLast, StopsLast', StaysDead, RowOver, [Next]_vars PROVE RowOver'
<1> USE DEF At, AtAs, Free, NoPane, RowBecomes, Running, Exists, Exposes, hostVars, dbVars, fixed
<1>0. TypeOK /\ OneLauncher /\ NothingYet /\ Where /\ DeathFinds /\ StrayInv /\ StopsLast /\ StaysDead /\ RowOver
  BY DEF Apart, Launchers
<1>e. \A t \in Tasks : InItsProgram(task[t]) /\ (lease = t <=> task[t].op = "restart") /\ t # None
  BY NoneAssumption DEF TypeOK
<1>d. DbOK /\ HostOK BY Parts
<1>1. ASSUME NEW t \in Tasks, Create(t) PROVE RowOver'
  <2>1. pane'.is = "none" BY <1>0, <1>1 DEF Create, NothingYet
  <2>2. Turns(t, "create", "mint") BY <1>0, <1>1, BeginsIs DEF Create
  <2>3. \A u \in Tasks : task[u].pc = "end" BY <1>0, <1>e, <1>1 DEF Create, NothingYet, InItsProgram
  <2> QED BY <2>1, <2>2, <2>3 DEF RowOver, Over, Turns
<1>2. ASSUME NEW t \in Tasks, Restart(t) PROVE RowOver'
  <2>1. Turns(t, "restart", "kill") BY <1>0, <1>2, RestartIs
  <2>2. UNCHANGED <<row, pane>> /\ (exposed => exposed') BY <1>2 DEF Restart
  <2> QED BY <1>0, <2>1, <2>2, OverKept DEF Over, Turns
<1>3. ASSUME NEW t \in Tasks, Stop(t) PROVE RowOver'
  <2>1. Turns(t, "stop", "kill")
    BY <1>0, <1>3, BeginsIs DEF Stop
  <2>2. (exposed => exposed') /\ (Running' => Running) /\ (pane'.is = "live" => pane.is = "live")
    BY <1>d, <1>3 DEF Stop, DbOK, HostOK, NoRow
  <2>3. ~exposed' => Over(t)'
    BY <1>0, <1>d, <1>e, <1>3, <2>1, <2>2 DEF Stop, Over, RowOver, Turns, InItsProgram, Reviving, DbOK, HostOK,
       DeathFinds, FindsNone, Finding, Reachable, NoRow
  <2> QED BY <1>0, <2>1, <2>2, <2>3, OverKept
<1>4. ASSUME NEW t \in Tasks, Delete(t) PROVE RowOver'
  <2>1. Turns(t, "delete", "kill")
    BY <1>0, <1>4, BeginsIs DEF Delete
  <2>2. (exposed => exposed') /\ (Running' => Running) /\ (pane'.is = "live" => pane.is = "live")
    BY <1>d, <1>4 DEF Delete, DbOK, HostOK, NoRow
  <2>3. ~exposed' => Over(t)'
    BY <1>0, <1>d, <1>e, <1>4, <2>1, <2>2 DEF Delete, Over, RowOver, Turns, InItsProgram, Reviving, DbOK, HostOK,
       DeathFinds, FindsNone, Finding, Reachable, NoRow
  <2> QED BY <1>0, <2>1, <2>2, <2>3, OverKept
<1>5. ASSUME NEW t \in Tasks, Sweep(t) PROVE RowOver'
  <2>1. Turns(t, "sweep", "row")
    BY <1>0, <1>5, SweepIs DEF Sweep
  <2>2. (exposed => exposed') /\ (Running' => Running) /\ (pane'.is = "live" => pane.is = "live")
    BY <1>d, <1>5 DEF Sweep, DbOK, HostOK, NoRow
  <2>3. ~exposed' => Over(t)'
    BY <1>0, <1>d, <1>e, <1>5, <2>1, <2>2 DEF Sweep, Over, RowOver, Turns, InItsProgram, Reviving, DbOK, HostOK,
       DeathFinds, FindsNone, Finding, Reachable, NoRow
  <2> QED BY <1>0, <2>1, <2>2, <2>3, OverKept
<1>6. ASSUME NEW t \in Tasks, Report(t) PROVE RowOver'
  <2>1. task' = task \/ Turns(t, "death", "check") BY <1>0, <1>6, ReportIs
  <2>2. UNCHANGED <<exposed, row>> /\ (pane'.is = "live" => pane.is = "live") BY <1>d, <1>6 DEF Report, HostOK
  <2>3. CASE task' = task BY <1>0, <2>2, <2>3, OverStill
  <2>4. CASE Turns(t, "death", "check")
    <3>1. Over(t)' BY <2>4 DEF Over, Turns
    <3> QED BY <1>0, <2>2, <2>4, <3>1, OverKept
  <2> QED BY <2>1, <2>3, <2>4
<1>7. ASSUME NEW t \in Tasks, NodeReports(t) PROVE RowOver'
  <2>1. task' = task \/ Turns(t, "death", "check") BY <1>0, <1>7, NodeReportsIs
  <2>2. UNCHANGED <<exposed, row>> /\ (pane'.is = "live" => pane.is = "live") BY <1>d, <1>7 DEF NodeReports, HostOK
  <2>3. CASE task' = task BY <1>0, <2>2, <2>3, OverStill
  <2>4. CASE Turns(t, "death", "check")
    <3>1. Over(t)' BY <2>4 DEF Over, Turns
    <3> QED BY <1>0, <2>2, <2>4, <3>1, OverKept
  <2> QED BY <2>1, <2>3, <2>4
<1>8. ASSUME NEW t \in Tasks, LinkReturns(t) PROVE RowOver'
  <2>1. task' = task \/ (Turns(t, "death", "check") \/ Turns(t, "census", "fold")) BY <1>0, <1>8, LinkReturnsIs
  <2>2. UNCHANGED <<exposed, row>> /\ (pane'.is = "live" => pane.is = "live") BY <1>d, <1>8 DEF LinkReturns, HostOK
  <2>3. CASE task' = task BY <1>0, <2>2, <2>3, OverStill
  <2>4. CASE (Turns(t, "death", "check") \/ Turns(t, "census", "fold"))
    <3>1. Over(t)' BY <2>4 DEF Over, Turns
    <3> QED BY <1>0, <2>2, <2>4, <3>1, OverKept
  <2> QED BY <2>1, <2>3, <2>4
<1>9. ASSUME NEW t \in Tasks, Mint(t) PROVE RowOver'
  <2>1. Turns(t, task[t].op, "link")
    BY <1>0, <1>9, MintIs DEF Mint
  <2>2. (exposed => exposed') /\ (Running' => Running) /\ (pane'.is = "live" => pane.is = "live")
    BY <1>d, <1>9 DEF Mint, DbOK, HostOK, NoRow
  <2>3. ~exposed' => Over(t)'
    BY <1>0, <1>d, <1>e, <1>9, <2>1, <2>2 DEF Mint, Over, RowOver, Turns, InItsProgram, Reviving, DbOK, HostOK,
       DeathFinds, FindsNone, Finding, Reachable, NoRow
  <2> QED BY <1>0, <2>1, <2>2, <2>3, OverKept
<1>10. ASSUME NEW t \in Tasks, Link(t) PROVE RowOver'
  <2>1. \E p \in {"launch", "look"} : Turns(t, task[t].op, p)
    BY <1>0, <1>10, GotoIs DEF Link
  <2>2. (exposed => exposed') /\ (Running' => Running) /\ (pane'.is = "live" => pane.is = "live")
    BY <1>d, <1>10 DEF Link, DbOK, HostOK, NoRow
  <2>3. ~exposed' => Over(t)'
    BY <1>0, <1>d, <1>e, <1>10, <2>1, <2>2 DEF Link, Over, RowOver, Turns, InItsProgram, Reviving, DbOK, HostOK,
       DeathFinds, FindsNone, Finding, Reachable, NoRow
  <2> QED BY <1>0, <2>1, <2>2, <2>3, OverKept
<1>11. ASSUME NEW t \in Tasks, LaunchSucceeds(t) PROVE RowOver'
  <2>1. Turns(t, task[t].op, IF task[t].op = "create" THEN "settle" ELSE "revive")
    BY <1>0, <1>11, GotoIs DEF LaunchSucceeds
  <2>2. UNCHANGED row /\ (exposed => exposed') BY <1>11 DEF LaunchSucceeds
  <2>3. task[t].op \in {"create", "restart", "death"} BY <1>e, <1>11 DEF LaunchSucceeds, InItsProgram
  <2>4. ~exposed => \A u \in Tasks \ {t} : ~Launcher(u)
    BY <1>0, <2>3, <1>11 DEF LaunchSucceeds, OneLauncher, Launcher, InDeathHandler
  <2>5. ~exposed => \A u \in Tasks \ {t} : task[u].pc \in {"orphan", "retire", "unwind", "settled", "reap"}
                      => AtAs(u, "retire", {"stop"})
    BY <1>e, <2>4 DEF Launcher, InDeathHandler, InItsProgram
  <2>6. ~exposed' => \A u \in Tasks \ {t} : Over(u)'
    BY <1>0, <2>1, <2>2, <2>5 DEF Over, Turns, StopsLast
  <2>7. ~exposed' => Over(t)' BY <2>1, <2>3, <1>11 DEF LaunchSucceeds, Over, Turns
  <2> QED BY <2>6, <2>7 DEF RowOver
<1>12. ASSUME NEW t \in Tasks, LaunchRefused(t) PROVE RowOver'
  <2>1. Turns(t, task[t].op, "unwind")
    BY <1>0, <1>12, GotoIs DEF LaunchRefused
  <2>2. (exposed => exposed') /\ (Running' => Running) /\ (pane'.is = "live" => pane.is = "live")
    BY <1>d, <1>12 DEF LaunchRefused, DbOK, HostOK, NoRow
  <2>3. ~exposed' => Over(t)'
    BY <1>0, <1>d, <1>e, <1>12, <2>1, <2>2 DEF LaunchRefused, Over, RowOver, Turns, InItsProgram, Reviving, DbOK, HostOK,
       DeathFinds, FindsNone, Finding, Reachable, NoRow
  <2> QED BY <1>0, <2>1, <2>2, <2>3, OverKept
<1>13. ASSUME NEW t \in Tasks, LaunchBreaks(t) PROVE RowOver'
  <2>1. Turns(t, task[t].op, "unwind")
    BY <1>0, <1>13, GotoIs DEF LaunchBreaks
  <2>2. UNCHANGED row /\ (exposed => exposed') BY <1>13 DEF LaunchBreaks
  <2>3. task[t].op \in {"create", "restart", "death"} BY <1>e, <1>13 DEF LaunchBreaks, InItsProgram
  <2>4. ~exposed => \A u \in Tasks \ {t} : ~Launcher(u)
    BY <1>0, <2>3, <1>13 DEF LaunchBreaks, OneLauncher, Launcher, InDeathHandler
  <2>5. ~exposed => \A u \in Tasks \ {t} : task[u].pc \in {"orphan", "retire", "unwind", "settled", "reap"}
                      => AtAs(u, "retire", {"stop"})
    BY <1>e, <2>4 DEF Launcher, InDeathHandler, InItsProgram
  <2>6. ~exposed' => \A u \in Tasks \ {t} : Over(u)'
    BY <1>0, <2>1, <2>2, <2>5 DEF Over, Turns, StopsLast
  <2>7. ~exposed' => Over(t)' BY <2>1, <2>3, <1>13 DEF LaunchBreaks, Over, Turns
  <2> QED BY <2>6, <2>7 DEF RowOver
<1>14. ASSUME NEW t \in Tasks, Settle(t) PROVE RowOver'
  <2>1. (Running /\ Turns(t, "idle", "end")) \/ (~Running /\ Turns(t, task[t].op, "orphan"))
    BY <1>0, <1>14, GotoIs, FinishesIs DEF Settle
  <2>2. (exposed => exposed') /\ (Running' => Running) /\ (pane'.is = "live" => pane.is = "live")
    BY <1>d, <1>14 DEF Settle, DbOK, HostOK, NoRow
  <2>3. ~exposed' => Over(t)'
    BY <1>0, <1>d, <1>e, <1>14, <2>1, <2>2 DEF Settle, Over, RowOver, Turns, InItsProgram, Reviving, DbOK, HostOK,
       DeathFinds, FindsNone, Finding, Reachable, NoRow
  <2> QED BY <1>0, <2>1, <2>2, <2>3, OverKept
<1>15. ASSUME NEW t \in Tasks, UnwindCreate(t) PROVE RowOver'
  <2>1. Turns(t, task[t].op, "mark")
    BY <1>0, <1>15, GotoIs DEF UnwindCreate
  <2>2. (exposed => exposed') /\ (Running' => Running) /\ (pane'.is = "live" => pane.is = "live")
    BY <1>d, <1>15 DEF UnwindCreate, DbOK, HostOK, NoRow
  <2>3. ~exposed' => Over(t)'
    BY <1>0, <1>d, <1>e, <1>15, <2>1, <2>2 DEF UnwindCreate, Over, RowOver, Turns, InItsProgram, Reviving, DbOK, HostOK,
       DeathFinds, FindsNone, Finding, Reachable, NoRow
  <2> QED BY <1>0, <2>1, <2>2, <2>3, OverKept
<1>16. ASSUME NEW t \in Tasks, Mark(t) PROVE RowOver'
  <2>1. Turns(t, task[t].op, "retire")
    BY <1>0, <1>16, GotoIs DEF Mark
  <2>2. (exposed => exposed') /\ (Running' => Running) /\ (pane'.is = "live" => pane.is = "live")
    BY <1>d, <1>16 DEF Mark, DbOK, HostOK, NoRow
  <2>3. ~exposed' => Over(t)'
    BY <1>0, <1>d, <1>e, <1>16, <2>1, <2>2 DEF Mark, Over, RowOver, Turns, InItsProgram, Reviving, DbOK, HostOK,
       DeathFinds, FindsNone, Finding, Reachable, NoRow
  <2> QED BY <1>0, <2>1, <2>2, <2>3, OverKept
<1>17. ASSUME NEW t \in Tasks, Retire(t) PROVE RowOver'
  <2>1. Turns(t, "idle", "end") \/ Turns(t, task[t].op, "settled")
    BY <1>0, <1>17, GotoIs, FinishesIs DEF Retire
  <2>2. (exposed => exposed') /\ (Running' => Running) /\ (pane'.is = "live" => pane.is = "live")
    BY <1>d, <1>17 DEF Retire, DbOK, HostOK, NoRow
  <2>3. ~exposed' => Over(t)'
    BY <1>0, <1>d, <1>e, <1>17, <2>1, <2>2 DEF Retire, Over, RowOver, Turns, InItsProgram, Reviving, DbOK, HostOK,
       DeathFinds, FindsNone, Finding, Reachable, NoRow
  <2> QED BY <1>0, <2>1, <2>2, <2>3, OverKept
<1>18. ASSUME NEW t \in Tasks, KillOld(t) PROVE RowOver'
  <2>1. Turns(t, "idle", "end") \/ Turns(t, task[t].op, "park")
    BY <1>0, <1>18, GotoIs, FinishesIs DEF KillOld
  <2>2. (exposed => exposed') /\ (Running' => Running) /\ (pane'.is = "live" => pane.is = "live")
    BY <1>d, <1>18 DEF KillOld, DbOK, HostOK, NoRow
  <2>3. ~exposed' => Over(t)'
    BY <1>0, <1>d, <1>e, <1>18, <2>1, <2>2 DEF KillOld, Over, RowOver, Turns, InItsProgram, Reviving, DbOK, HostOK,
       DeathFinds, FindsNone, Finding, Reachable, NoRow
  <2> QED BY <1>0, <2>1, <2>2, <2>3, OverKept
<1>19. ASSUME NEW t \in Tasks, Park(t) PROVE RowOver'
  <2>1. exposed' = exposed /\ pane' = pane /\ task[t].op = "restart" BY <1>e, <1>19 DEF Park, InItsProgram, Reviving
  <2>2. CASE ~AsRead(t)
    <3>1. Turns(t, "idle", "end") /\ row' = row BY <1>0, <2>2, <1>19, ParkIs DEF Park
    <3>2. Over(t)' BY <3>1 DEF Over, Turns
    <3> QED BY <1>0, <2>1, <3>1, <3>2, OverKept
  <2>3. CASE AsRead(t)
    <3>1. Turns(t, "restart", "revoke") BY <1>0, <2>3, <1>19, ParkIs
    <3>2. ~exposed => \A u \in Tasks \ {t} : ~Launcher(u) BY <1>0, <2>1 DEF OneLauncher, Launcher
    <3>3. ~exposed => \A u \in Tasks \ {t} : task[u].pc \in {"orphan", "retire", "unwind", "settled", "reap"}
                        => AtAs(u, "retire", {"stop"})
      BY <1>e, <3>2 DEF Launcher, InDeathHandler, InItsProgram
    <3>4. ~exposed => \A u \in Tasks \ {t} : Over(u)'
      <4> SUFFICES ASSUME ~exposed, NEW u \in Tasks \ {t} PROVE Over(u)' OBVIOUS
      <4>1. task'[u] = task[u] BY <3>1 DEF Turns
      <4>2. CASE AtAs(u, "retire", {"stop"}) BY <2>1, <4>1, <4>2 DEF StopsLast, Over
      <4>3. CASE ~AtAs(u, "retire", {"stop"}) BY <3>3, <4>1, <4>3 DEF Over
      <4> QED BY <4>2, <4>3
    <3>5. Over(t)' BY <3>1 DEF Over, Turns
    <3> QED BY <2>1, <3>4, <3>5 DEF RowOver
  <2> QED BY <2>2, <2>3
<1>20. ASSUME NEW t \in Tasks, UnwindRestart(t) PROVE RowOver'
  <2>1. Turns(t, task[t].op, "mark")
    BY <1>0, <1>20, GotoIs DEF UnwindRestart
  <2>2. (exposed => exposed') /\ (Running' => Running) /\ (pane'.is = "live" => pane.is = "live")
    BY <1>d, <1>20 DEF UnwindRestart, DbOK, HostOK, NoRow
  <2>3. ~exposed' => Over(t)'
    BY <1>0, <1>d, <1>e, <1>20, <2>1, <2>2 DEF UnwindRestart, Over, RowOver, Turns, InItsProgram, Reviving, DbOK, HostOK,
       DeathFinds, FindsNone, Finding, Reachable, NoRow
  <2> QED BY <1>0, <2>1, <2>2, <2>3, OverKept
<1>21. ASSUME NEW t \in Tasks, CannotCompose(t) PROVE RowOver'
  <2>1. Turns(t, task[t].op, "unwind")
    BY <1>0, <1>21, GotoIs DEF CannotCompose
  <2>2. (exposed => exposed') /\ (Running' => Running) /\ (pane'.is = "live" => pane.is = "live")
    BY <1>d, <1>21 DEF CannotCompose, DbOK, HostOK, NoRow
  <2>3. ~exposed' => Over(t)'
    BY <1>0, <1>d, <1>e, <1>21, <2>1, <2>2 DEF CannotCompose, Over, RowOver, Turns, InItsProgram, Reviving, DbOK, HostOK,
       DeathFinds, FindsNone, Finding, Reachable, NoRow
  <2> QED BY <1>0, <2>1, <2>2, <2>3, OverKept
<1>22. ASSUME NEW t \in Tasks, RotateKey(t) PROVE RowOver'
  <2>1. Turns(t, task[t].op, "mint")
    BY <1>0, <1>22, GotoIs DEF RotateKey
  <2>2. (exposed => exposed') /\ (Running' => Running) /\ (pane'.is = "live" => pane.is = "live")
    BY <1>d, <1>22 DEF RotateKey, DbOK, HostOK, NoRow
  <2>3. ~exposed' => Over(t)'
    BY <1>0, <1>d, <1>e, <1>22, <2>1, <2>2 DEF RotateKey, Over, RowOver, Turns, InItsProgram, Reviving, DbOK, HostOK,
       DeathFinds, FindsNone, Finding, Reachable, NoRow
  <2> QED BY <1>0, <2>1, <2>2, <2>3, OverKept
<1>23. ASSUME NEW t \in Tasks, Look(t) PROVE RowOver'
  <2>1. Turns(t, task[t].op, IF Running /\ ~row.alive THEN "launch" ELSE "retire") BY <1>0, <1>23, GotoIs DEF Look
  <2>2. UNCHANGED <<row, pane, exposed>> BY <1>23 DEF Look
  <2>3. ~exposed /\ pane.is = "live" => ~(Running /\ row.alive)
    <3>1. task[t].op \in {"restart", "death"} BY <1>e, <1>23 DEF Look, InItsProgram
    <3>2. CASE task[t].op = "death" BY <1>0, <1>23, <3>2 DEF Look, DeathFinds, FindsNone, Finding
    <3>3. CASE task[t].op = "restart" /\ place = "agent" BY <1>0, <1>23, <3>3 DEF Look, StaysDead, HasRead
    <3>4. CASE task[t].op = "restart" /\ place # "agent"
      <4>1. TakesForGone(t) BY <1>23, <3>4 DEF Look, TakesForGone
      <4>2. ~Stray BY <1>0, <4>1 DEF StrayInv
      <4>3. Reachable BY <1>0, <3>4 DEF Reachable, Where
      <4>4. \A v \in Tasks : ~Folds(v) BY <1>0, <3>4 DEF Where, Folds
      <4> QED BY <4>2, <4>3, <4>4 DEF Stray
    <3> QED BY <3>1, <3>2, <3>3, <3>4
  <2>4. ~exposed' => Over(t)' BY <1>e, <2>1, <2>2, <2>3 DEF Over, Turns
  <2> QED BY <1>0, <2>1, <2>2, <2>4, OverKept
<1>24. ASSUME NEW t \in Tasks, Revive(t) PROVE RowOver'
  <2>1. (Running /\ Turns(t, "idle", "end")) \/ (~Running /\ Turns(t, task[t].op, "orphan"))
    BY <1>0, <1>24, GotoIs, FinishesIs DEF Revive
  <2>2. (exposed => exposed') /\ (Running' => Running) /\ (pane'.is = "live" => pane.is = "live")
    BY <1>d, <1>24 DEF Revive, DbOK, HostOK, NoRow
  <2>3. ~exposed' => Over(t)'
    BY <1>0, <1>d, <1>e, <1>24, <2>1, <2>2 DEF Revive, Over, RowOver, Turns, InItsProgram, Reviving, DbOK, HostOK,
       DeathFinds, FindsNone, Finding, Reachable, NoRow
  <2> QED BY <1>0, <2>1, <2>2, <2>3, OverKept
<1>25. ASSUME NEW t \in Tasks, KillOrphan(t) PROVE RowOver'
  <2>1. Turns(t, task[t].op, "retire") \/ Turns(t, task[t].op, "unwind")
    BY <1>0, <1>25, GotoIs DEF KillOrphan
  <2>2. (exposed => exposed') /\ (Running' => Running) /\ (pane'.is = "live" => pane.is = "live")
    BY <1>d, <1>25 DEF KillOrphan, DbOK, HostOK, NoRow
  <2>3. ~exposed' => Over(t)'
    BY <1>0, <1>d, <1>e, <1>25, <2>1, <2>2 DEF KillOrphan, Over, RowOver, Turns, InItsProgram, Reviving, DbOK, HostOK,
       DeathFinds, FindsNone, Finding, Reachable, NoRow
  <2> QED BY <1>0, <2>1, <2>2, <2>3, OverKept
<1>26. ASSUME NEW t \in Tasks, StopKills(t) PROVE RowOver'
  <2>1. Turns(t, task[t].op, "claim")
    BY <1>0, <1>26, GotoIs DEF StopKills
  <2>2. (exposed => exposed') /\ (Running' => Running) /\ (pane'.is = "live" => pane.is = "live")
    BY <1>d, <1>26 DEF StopKills, DbOK, HostOK, NoRow
  <2>3. ~exposed' => Over(t)'
    BY <1>0, <1>d, <1>e, <1>26, <2>1, <2>2 DEF StopKills, Over, RowOver, Turns, InItsProgram, Reviving, DbOK, HostOK,
       DeathFinds, FindsNone, Finding, Reachable, NoRow
  <2> QED BY <1>0, <2>1, <2>2, <2>3, OverKept
<1>27. ASSUME NEW t \in Tasks, KillFails(t) PROVE RowOver'
  <2>1. Turns(t, "idle", "end")
    BY <1>0, <1>27, FinishesIs DEF KillFails
  <2>2. (exposed => exposed') /\ (Running' => Running) /\ (pane'.is = "live" => pane.is = "live")
    BY <1>d, <1>27 DEF KillFails, DbOK, HostOK, NoRow
  <2>3. ~exposed' => Over(t)'
    BY <1>0, <1>d, <1>e, <1>27, <2>1, <2>2 DEF KillFails, Over, RowOver, Turns, InItsProgram, Reviving, DbOK, HostOK,
       DeathFinds, FindsNone, Finding, Reachable, NoRow
  <2> QED BY <1>0, <2>1, <2>2, <2>3, OverKept
<1>28. ASSUME NEW t \in Tasks, StopClaims(t) PROVE RowOver'
  <2>1. Turns(t, task[t].op, "mark")
    BY <1>0, <1>28, GotoIs DEF StopClaims
  <2>2. (exposed => exposed') /\ (Running' => Running) /\ (pane'.is = "live" => pane.is = "live")
    BY <1>d, <1>28 DEF StopClaims, DbOK, HostOK, NoRow
  <2>3. ~exposed' => Over(t)'
    BY <1>0, <1>d, <1>e, <1>28, <2>1, <2>2 DEF StopClaims, Over, RowOver, Turns, InItsProgram, Reviving, DbOK, HostOK,
       DeathFinds, FindsNone, Finding, Reachable, NoRow
  <2> QED BY <1>0, <2>1, <2>2, <2>3, OverKept
<1>29. ASSUME NEW t \in Tasks, DeleteKills(t) PROVE RowOver'
  <2>1. Turns(t, task[t].op, "unlink")
    BY <1>0, <1>29, GotoIs DEF DeleteKills
  <2>2. (exposed => exposed') /\ (Running' => Running) /\ (pane'.is = "live" => pane.is = "live")
    BY <1>d, <1>29 DEF DeleteKills, DbOK, HostOK, NoRow
  <2>3. ~exposed' => Over(t)'
    BY <1>0, <1>d, <1>e, <1>29, <2>1, <2>2 DEF DeleteKills, Over, RowOver, Turns, InItsProgram, Reviving, DbOK, HostOK,
       DeathFinds, FindsNone, Finding, Reachable, NoRow
  <2> QED BY <1>0, <2>1, <2>2, <2>3, OverKept
<1>30. ASSUME NEW t \in Tasks, DeleteRevokes(t) PROVE RowOver'
  <2>1. Turns(t, task[t].op, "drop")
    BY <1>0, <1>30, GotoIs DEF DeleteRevokes
  <2>2. (exposed => exposed') /\ (Running' => Running) /\ (pane'.is = "live" => pane.is = "live")
    BY <1>d, <1>30 DEF DeleteRevokes, DbOK, HostOK, NoRow
  <2>3. ~exposed' => Over(t)'
    BY <1>0, <1>d, <1>e, <1>30, <2>1, <2>2 DEF DeleteRevokes, Over, RowOver, Turns, InItsProgram, Reviving, DbOK, HostOK,
       DeathFinds, FindsNone, Finding, Reachable, NoRow
  <2> QED BY <1>0, <2>1, <2>2, <2>3, OverKept
<1>31. ASSUME NEW t \in Tasks, DeleteRow(t) PROVE RowOver'
  <2>1. Turns(t, "idle", "end")
    BY <1>0, <1>31, EndsIs DEF DeleteRow
  <2>2. (exposed => exposed') /\ (Running' => Running) /\ (pane'.is = "live" => pane.is = "live")
    BY <1>d, <1>31 DEF DeleteRow, DbOK, HostOK, NoRow
  <2>3. ~exposed' => Over(t)'
    BY <1>0, <1>d, <1>e, <1>31, <2>1, <2>2 DEF DeleteRow, Over, RowOver, Turns, InItsProgram, Reviving, DbOK, HostOK,
       DeathFinds, FindsNone, Finding, Reachable, NoRow
  <2> QED BY <1>0, <2>1, <2>2, <2>3, OverKept
<1>32. ASSUME NEW t \in Tasks, SweepRow(t) PROVE RowOver'
  <2>1. Turns(t, "idle", "end") \/ Turns(t, task[t].op, "probe")
    BY <1>0, <1>32, GotoIs, EndsIs DEF SweepRow
  <2>2. (exposed => exposed') /\ (Running' => Running) /\ (pane'.is = "live" => pane.is = "live")
    BY <1>d, <1>32 DEF SweepRow, DbOK, HostOK, NoRow
  <2>3. ~exposed' => Over(t)'
    BY <1>0, <1>d, <1>e, <1>32, <2>1, <2>2 DEF SweepRow, Over, RowOver, Turns, InItsProgram, Reviving, DbOK, HostOK,
       DeathFinds, FindsNone, Finding, Reachable, NoRow
  <2> QED BY <1>0, <2>1, <2>2, <2>3, OverKept
<1>33. ASSUME NEW t \in Tasks, Probe(t) PROVE RowOver'
  <2>1. \/ Turns(t, task[t].op, "patch") \/ Turns(t, "sweep", "fold")
        \/ Turns(t, "death", "check") \/ Turns(t, "idle", "end")
    BY <1>0, <1>33, ProbeIs DEF Probe
  <2>2. (exposed => exposed') /\ (Running' => Running) /\ (pane'.is = "live" => pane.is = "live")
    BY <1>d, <1>33 DEF Probe, DbOK, HostOK, NoRow
  <2>3. ~exposed' => Over(t)'
    BY <1>0, <1>d, <1>e, <1>33, <2>1, <2>2 DEF Probe, Over, RowOver, Turns, InItsProgram, Reviving, DbOK, HostOK,
       DeathFinds, FindsNone, Finding, Reachable, NoRow
  <2> QED BY <1>0, <2>1, <2>2, <2>3, OverKept
<1>34. ASSUME NEW t \in Tasks, PatchAlive(t) PROVE RowOver'
  <2>1. Turns(t, "idle", "end")
    BY <1>0, <1>34, EndsIs DEF PatchAlive
  <2>2. (exposed => exposed') /\ (Running' => Running) /\ (pane'.is = "live" => pane.is = "live")
    BY <1>d, <1>34 DEF PatchAlive, DbOK, HostOK, NoRow
  <2>3. ~exposed' => Over(t)'
    BY <1>0, <1>d, <1>e, <1>34, <2>1, <2>2 DEF PatchAlive, Over, RowOver, Turns, InItsProgram, Reviving, DbOK, HostOK,
       DeathFinds, FindsNone, Finding, Reachable, NoRow
  <2> QED BY <1>0, <2>1, <2>2, <2>3, OverKept
<1>35. ASSUME NEW t \in Tasks, FoldAlive(t) PROVE RowOver'
  <2>1. Turns(t, "idle", "end") \/ Turns(t, task[t].op, "bestKill")
    BY <1>0, <1>35, GotoIs, EndsIs DEF FoldAlive
  <2>2. (exposed => exposed') /\ (Running' => Running) /\ (pane'.is = "live" => pane.is = "live")
    BY <1>d, <1>35 DEF FoldAlive, DbOK, HostOK, NoRow
  <2>3. ~exposed' => Over(t)'
    BY <1>0, <1>d, <1>e, <1>35, <2>1, <2>2 DEF FoldAlive, Over, RowOver, Turns, InItsProgram, Reviving, DbOK, HostOK,
       DeathFinds, FindsNone, Finding, Reachable, NoRow
  <2> QED BY <1>0, <2>1, <2>2, <2>3, OverKept
<1>36. ASSUME NEW t \in Tasks, BestEffortKill(t) PROVE RowOver'
  <2>1. Turns(t, "idle", "end")
    BY <1>0, <1>36, EndsIs DEF BestEffortKill
  <2>2. (exposed => exposed') /\ (Running' => Running) /\ (pane'.is = "live" => pane.is = "live")
    BY <1>d, <1>36 DEF BestEffortKill, DbOK, HostOK, NoRow
  <2>3. ~exposed' => Over(t)'
    BY <1>0, <1>d, <1>e, <1>36, <2>1, <2>2 DEF BestEffortKill, Over, RowOver, Turns, InItsProgram, Reviving, DbOK, HostOK,
       DeathFinds, FindsNone, Finding, Reachable, NoRow
  <2> QED BY <1>0, <2>1, <2>2, <2>3, OverKept
<1>37. ASSUME NEW t \in Tasks, CheckLease(t) PROVE RowOver'
  <2>1. Turns(t, "idle", "end") \/ Turns(t, "death", "fresh")
    BY <1>0, <1>37, GotoIs, EndsIs DEF CheckLease
  <2>2. (exposed => exposed') /\ (Running' => Running) /\ (pane'.is = "live" => pane.is = "live")
    BY <1>d, <1>37 DEF CheckLease, DbOK, HostOK, NoRow
  <2>3. ~exposed' => Over(t)'
    BY <1>0, <1>d, <1>e, <1>37, <2>1, <2>2 DEF CheckLease, Over, RowOver, Turns, InItsProgram, Reviving, DbOK, HostOK,
       DeathFinds, FindsNone, Finding, Reachable, NoRow
  <2> QED BY <1>0, <2>1, <2>2, <2>3, OverKept
<1>38. ASSUME NEW t \in Tasks, FreshRow(t) PROVE RowOver'
  <2>1. Turns(t, "idle", "end") \/ \E p \in {"claim", "schedule", "settled"} : Turns(t, "death", p)
    BY <1>0, <1>38, FreshRowIs DEF FreshRow
  <2>2. (exposed => exposed') /\ (Running' => Running) /\ (pane'.is = "live" => pane.is = "live")
    BY <1>d, <1>38 DEF FreshRow, DbOK, HostOK, NoRow
  <2>3. ~exposed' => Over(t)'
    BY <1>0, <1>d, <1>e, <1>38, <2>1, <2>2 DEF FreshRow, Over, RowOver, Turns, InItsProgram, Reviving, DbOK, HostOK,
       DeathFinds, FindsNone, Finding, Reachable, NoRow
  <2> QED BY <1>0, <2>1, <2>2, <2>3, OverKept
<1>39. ASSUME NEW t \in Tasks, ClaimDeath(t) PROVE RowOver'
  <2>1. Turns(t, task[t].op, "settled")
    BY <1>0, <1>39, GotoIs DEF ClaimDeath
  <2>2. (exposed => exposed') /\ (Running' => Running) /\ (pane'.is = "live" => pane.is = "live")
    BY <1>d, <1>39 DEF ClaimDeath, DbOK, HostOK, NoRow
  <2>3. ~exposed' => Over(t)'
    BY <1>0, <1>d, <1>e, <1>39, <2>1, <2>2 DEF ClaimDeath, Over, RowOver, Turns, InItsProgram, Reviving, DbOK, HostOK,
       DeathFinds, FindsNone, Finding, Reachable, NoRow
  <2> QED BY <1>0, <2>1, <2>2, <2>3, OverKept
<1>40. ASSUME NEW t \in Tasks, Schedule(t) PROVE RowOver'
  <2>1. Turns(t, task[t].op, "gates")
    BY <1>0, <1>40, GotoIs DEF Schedule
  <2>2. (exposed => exposed') /\ (Running' => Running) /\ (pane'.is = "live" => pane.is = "live")
    BY <1>d, <1>40 DEF Schedule, DbOK, HostOK, NoRow
  <2>3. ~exposed' => Over(t)'
    BY <1>0, <1>d, <1>e, <1>40, <2>1, <2>2 DEF Schedule, Over, RowOver, Turns, InItsProgram, Reviving, DbOK, HostOK,
       DeathFinds, FindsNone, Finding, Reachable, NoRow
  <2> QED BY <1>0, <2>1, <2>2, <2>3, OverKept
<1>41. ASSUME NEW t \in Tasks, Defer(t) PROVE RowOver'
  <2>1. Turns(t, task[t].op, "settled")
    BY <1>0, <1>41, GotoIs DEF Defer
  <2>2. (exposed => exposed') /\ (Running' => Running) /\ (pane'.is = "live" => pane.is = "live")
    BY <1>d, <1>41 DEF Defer, DbOK, HostOK, NoRow
  <2>3. ~exposed' => Over(t)'
    BY <1>0, <1>d, <1>e, <1>41, <2>1, <2>2 DEF Defer, Over, RowOver, Turns, InItsProgram, Reviving, DbOK, HostOK,
       DeathFinds, FindsNone, Finding, Reachable, NoRow
  <2> QED BY <1>0, <2>1, <2>2, <2>3, OverKept
<1>42. ASSUME NEW t \in Tasks, AutoRestart(t) PROVE RowOver'
  <2>1. Turns(t, task[t].op, "revoke")
    BY <1>0, <1>42, AutoRestartIs DEF AutoRestart
  <2>2. (exposed => exposed') /\ (Running' => Running) /\ (pane'.is = "live" => pane.is = "live")
    BY <1>d, <1>42 DEF AutoRestart, DbOK, HostOK, NoRow
  <2>3. ~exposed' => Over(t)'
    BY <1>0, <1>d, <1>e, <1>42, <2>1, <2>2 DEF AutoRestart, Over, RowOver, Turns, InItsProgram, Reviving, DbOK, HostOK,
       DeathFinds, FindsNone, Finding, Reachable, NoRow
  <2> QED BY <1>0, <2>1, <2>2, <2>3, OverKept
<1>43. ASSUME NEW t \in Tasks, UnwindAuto(t) PROVE RowOver'
  <2>1. Turns(t, task[t].op, "settled")
    BY <1>0, <1>43, GotoIs DEF UnwindAuto
  <2>2. (exposed => exposed') /\ (Running' => Running) /\ (pane'.is = "live" => pane.is = "live")
    BY <1>d, <1>43 DEF UnwindAuto, DbOK, HostOK, NoRow
  <2>3. ~exposed' => Over(t)'
    BY <1>0, <1>d, <1>e, <1>43, <2>1, <2>2 DEF UnwindAuto, Over, RowOver, Turns, InItsProgram, Reviving, DbOK, HostOK,
       DeathFinds, FindsNone, Finding, Reachable, NoRow
  <2> QED BY <1>0, <2>1, <2>2, <2>3, OverKept
<1>44. ASSUME NEW t \in Tasks, Bury(t) PROVE RowOver'
  <2>1. Turns(t, "idle", "end") \/ Turns(t, task[t].op, "reap")
    BY <1>0, <1>44, GotoIs, EndsIs DEF Bury
  <2>2. (exposed => exposed') /\ (Running' => Running) /\ (pane'.is = "live" => pane.is = "live")
    BY <1>d, <1>44 DEF Bury, DbOK, HostOK, NoRow
  <2>3. ~exposed' => Over(t)'
    BY <1>0, <1>d, <1>e, <1>44, <2>1, <2>2 DEF Bury, Over, RowOver, Turns, InItsProgram, Reviving, DbOK, HostOK,
       DeathFinds, FindsNone, Finding, Reachable, NoRow
  <2> QED BY <1>0, <2>1, <2>2, <2>3, OverKept
<1>45. ASSUME NEW t \in Tasks, Reap(t) PROVE RowOver'
  <2>1. Turns(t, "idle", "end")
    BY <1>0, <1>45, EndsIs DEF Reap
  <2>2. (exposed => exposed') /\ (Running' => Running) /\ (pane'.is = "live" => pane.is = "live")
    BY <1>d, <1>45 DEF Reap, DbOK, HostOK, NoRow
  <2>3. ~exposed' => Over(t)'
    BY <1>0, <1>d, <1>e, <1>45, <2>1, <2>2 DEF Reap, Over, RowOver, Turns, InItsProgram, Reviving, DbOK, HostOK,
       DeathFinds, FindsNone, Finding, Reachable, NoRow
  <2> QED BY <1>0, <2>1, <2>2, <2>3, OverKept
<1>46. ASSUME PaneDies PROVE RowOver'
  BY <1>0, <1>d, <1>46, OverStill DEF PaneDies, DbOK, HostOK
<1>47. ASSUME ReportIsLost PROVE RowOver'
  BY <1>0, <1>d, <1>47, OverStill DEF ReportIsLost, DbOK, HostOK
<1>48. ASSUME LinkDrops PROVE RowOver'
  BY <1>0, <1>d, <1>48, OverStill DEF LinkDrops, DbOK, HostOK
<1>49. ASSUME RetryFallsDue PROVE RowOver'
  BY <1>0, <1>d, <1>49, OverStill DEF RetryFallsDue, DbOK, HostOK
<1>50. ASSUME UNCHANGED vars PROVE RowOver'
  BY <1>0, <1>d, <1>50, OverStill DEF vars, DbOK, HostOK
<1> QED
  BY <1>1, <1>2, <1>3, <1>4, <1>5, <1>6, <1>7, <1>8, <1>9, <1>10, <1>11, <1>12, <1>13,
     <1>14, <1>15, <1>16, <1>17, <1>18, <1>19, <1>20, <1>21, <1>22, <1>23, <1>24, <1>25, <1>26,
     <1>27, <1>28, <1>29, <1>30, <1>31, <1>32, <1>33, <1>34, <1>35, <1>36, <1>37, <1>38, <1>39,
     <1>40, <1>41, <1>42, <1>43, <1>44, <1>45, <1>46, <1>47, <1>48, <1>49, <1>50
     DEF Next, Operation, Continue, Launching, Restarting, Stopping, Sweeping, Burying

\* The row links to this key and the key is enabled.
Holds(k) == row.link = k /\ k \in enabled

\* A delete has revoked and is about to take the row.
Dropped == \E u \in Tasks : At(u, "drop")

\* A launcher that has linked its key still holds it when it spawns.
Linked ==
  ~exposed /\ Running => \A t \in Tasks : task[t].pc \in {"look", "launch"} => Holds(task[t].key) \/ Dropped

\* A step that neither links nor revokes under a running row.
LEMMA LinkedKept ==
  ASSUME Linked, NEW t \in Tasks, NEW o, NEW p, Turns(t, o, p), exposed => exposed',
         Running' => /\ Running /\ row'.link = row.link /\ enabled \subseteq enabled'
                     /\ ~At(t, "drop"),
         p \in {"look", "launch"} => task[t].pc \in {"look", "launch"} /\ task'[t].key = task[t].key
  PROVE  Linked'
  <1> SUFFICES ASSUME ~exposed', Running', NEW u \in Tasks, task'[u].pc \in {"look", "launch"}
               PROVE  Holds(task[u].key)' \/ Dropped'
    BY DEF Linked, Holds
  <1>1. task[u].pc \in {"look", "launch"} /\ task'[u].key = task[u].key BY DEF Turns
  <1>2. Dropped => Dropped' BY DEF Dropped, At, Turns
  <1>3. Running /\ row'.link = row.link /\ enabled \subseteq enabled' /\ ~exposed OBVIOUS
  <1>4. Holds(task[u].key) \/ Dropped BY <1>1, <1>3 DEF Linked
  <1>5. Holds(task[u].key) => Holds(task[u].key)' BY <1>1, <1>3 DEF Holds
  <1> QED BY <1>2, <1>4, <1>5

\* The same, of a step of no task.
LEMMA LinkedStill ==
  ASSUME Linked, UNCHANGED <<task, exposed, enabled>>, row'.status = row.status, row'.link = row.link
  PROVE  Linked'
  BY DEF Linked, Holds, Dropped, At, Running

\* A restart that has revoked the old key and not yet spawned the new pane.
Rotates(u) ==
  task[u].op = "restart" /\ task[u].pc \in {"revoke", "mint", "link", "look", "launch", "unwind", "mark"}

\* The live pane of a running row holds the row's key, unless the row is being
\* deleted or the key rotated.
Accepted ==
  ~exposed /\ Running /\ pane.is = "live" =>
    (pane.key # NoKey /\ Holds(pane.key)) \/ Dropped \/ \E u \in Tasks : Rotates(u)

\* A step that neither spawns, links nor revokes under a running row and a live pane.
LEMMA AcceptedKept ==
  ASSUME Accepted, NEW t \in Tasks, NEW o, NEW p, Turns(t, o, p), exposed => exposed',
         ~exposed' /\ Running' /\ pane'.is = "live" =>
           /\ Running /\ pane.is = "live" /\ pane'.key = pane.key
           /\ row'.link = row.link /\ enabled \subseteq enabled'
           /\ ~At(t, "drop") /\ (Rotates(t) => Rotates(t)')
  PROVE  Accepted'
  <1> SUFFICES ASSUME ~exposed', Running', pane'.is = "live"
               PROVE  ((pane.key # NoKey)' /\ Holds(pane.key)') \/ Dropped' \/ \E u \in Tasks : Rotates(u)'
    BY DEF Accepted, Holds
  <1>1. Dropped => Dropped' BY DEF Dropped, At, Turns
  <1>2. \A u \in Tasks : Rotates(u) => Rotates(u)' BY DEF Rotates, Turns
  <1>3. /\ Running /\ pane.is = "live" /\ pane'.key = pane.key /\ ~exposed
        /\ row'.link = row.link /\ enabled \subseteq enabled'
    OBVIOUS
  <1>4. (pane.key # NoKey /\ Holds(pane.key)) \/ Dropped \/ \E u \in Tasks : Rotates(u) BY <1>3 DEF Accepted
  <1>5. pane.key # NoKey /\ Holds(pane.key) => (pane.key # NoKey)' /\ Holds(pane.key)' BY <1>3 DEF Holds
  <1> QED BY <1>1, <1>2, <1>4, <1>5

\* The same, of a step of no task.
LEMMA AcceptedStill ==
  ASSUME Accepted, UNCHANGED <<task, exposed, enabled>>, row'.status = row.status, row'.link = row.link,
         pane'.is = "live" => pane' = pane
  PROVE  Accepted'
  BY DEF Accepted, Holds, Dropped, Rotates, At, Running

LEMMA LinkedStep == ASSUME TypeOK, Apart, StopsLast, Linked, [Next]_vars PROVE Linked'
<1> USE DEF At, AtAs, Free, RowBecomes, Revoked, Running, Exists, Exposes, hostVars, dbVars, fixed
<1>0. TypeOK /\ OneLauncher /\ NothingYet /\ KeysInv /\ StopsLast /\ Linked BY DEF Apart, Launchers
<1>e. \A t \in Tasks : InItsProgram(task[t]) BY DEF TypeOK
<1>d. DbOK BY Parts
<1>1. ASSUME NEW t \in Tasks, Create(t) PROVE Linked'
  <2>1. Turns(t, "create", "mint") BY <1>0, <1>1, BeginsIs DEF Create
  <2>2. \A u \in Tasks : task[u].pc = "end" BY <1>0, <1>e, <1>1 DEF Create, NothingYet, InItsProgram
  <2> QED BY <2>1, <2>2 DEF Linked, Turns
<1>2. ASSUME NEW t \in Tasks, Restart(t) PROVE Linked'
  <2>1. Turns(t, "restart", "kill") BY <1>0, <1>2, RestartIs
  <2>2. UNCHANGED <<row, enabled>> /\ (exposed => exposed') /\ ~At(t, "drop")
    BY <1>e, <1>2 DEF Restart, InItsProgram
  <2> QED BY <1>0, <2>1, <2>2, LinkedKept
<1>3. ASSUME NEW t \in Tasks, Stop(t) PROVE Linked'
  <2>1. Turns(t, "stop", "kill")
    BY <1>0, <1>3, BeginsIs DEF Stop
  <2>2. /\ exposed => exposed'
        /\ Running' => /\ Running /\ row'.link = row.link /\ enabled \subseteq enabled'
                       /\ ~At(t, "drop")
    BY <1>d, <1>e, <1>3 DEF Stop, DbOK, NoRow, InItsProgram
  <2>3. task'[t].pc \in {"look", "launch"} => task[t].pc \in {"look", "launch"} /\ task'[t].key = task[t].key
    BY <1>0, <1>3, <2>1, GotoIs DEF Stop, Turns
  <2> QED BY <1>0, <2>1, <2>2, <2>3, LinkedKept DEF Turns
<1>4. ASSUME NEW t \in Tasks, Delete(t) PROVE Linked'
  <2>1. Turns(t, "delete", "kill")
    BY <1>0, <1>4, BeginsIs DEF Delete
  <2>2. /\ exposed => exposed'
        /\ Running' => /\ Running /\ row'.link = row.link /\ enabled \subseteq enabled'
                       /\ ~At(t, "drop")
    BY <1>d, <1>e, <1>4 DEF Delete, DbOK, NoRow, InItsProgram
  <2>3. task'[t].pc \in {"look", "launch"} => task[t].pc \in {"look", "launch"} /\ task'[t].key = task[t].key
    BY <1>0, <1>4, <2>1, GotoIs DEF Delete, Turns
  <2> QED BY <1>0, <2>1, <2>2, <2>3, LinkedKept DEF Turns
<1>5. ASSUME NEW t \in Tasks, Sweep(t) PROVE Linked'
  <2>1. Turns(t, "sweep", "row")
    BY <1>0, <1>5, SweepIs DEF Sweep
  <2>2. /\ exposed => exposed'
        /\ Running' => /\ Running /\ row'.link = row.link /\ enabled \subseteq enabled'
                       /\ ~At(t, "drop")
    BY <1>d, <1>e, <1>5 DEF Sweep, DbOK, NoRow, InItsProgram
  <2>3. task'[t].pc \in {"look", "launch"} => task[t].pc \in {"look", "launch"} /\ task'[t].key = task[t].key
    BY <1>0, <1>5, <2>1, GotoIs DEF Sweep, Turns
  <2> QED BY <1>0, <2>1, <2>2, <2>3, LinkedKept DEF Turns
<1>6. ASSUME NEW t \in Tasks, Report(t) PROVE Linked'
  <2>1. task' = task \/ Turns(t, "death", "check") BY <1>0, <1>6, ReportIs
  <2>2. UNCHANGED <<exposed, row, enabled>> /\ ~At(t, "drop") BY <1>e, <1>6 DEF Report, InItsProgram
  <2>3. CASE task' = task BY <1>0, <2>2, <2>3, LinkedStill
  <2>4. CASE Turns(t, "death", "check") BY <1>0, <2>2, <2>4, LinkedKept
  <2> QED BY <2>1, <2>3, <2>4
<1>7. ASSUME NEW t \in Tasks, NodeReports(t) PROVE Linked'
  <2>1. task' = task \/ Turns(t, "death", "check") BY <1>0, <1>7, NodeReportsIs
  <2>2. UNCHANGED <<exposed, row, enabled>> /\ ~At(t, "drop") BY <1>e, <1>7 DEF NodeReports, InItsProgram
  <2>3. CASE task' = task BY <1>0, <2>2, <2>3, LinkedStill
  <2>4. CASE Turns(t, "death", "check") BY <1>0, <2>2, <2>4, LinkedKept
  <2> QED BY <2>1, <2>3, <2>4
<1>8. ASSUME NEW t \in Tasks, LinkReturns(t) PROVE Linked'
  <2>1. task' = task \/ (Turns(t, "death", "check") \/ Turns(t, "census", "fold")) BY <1>0, <1>8, LinkReturnsIs
  <2>2. UNCHANGED <<exposed, row, enabled>> /\ ~At(t, "drop") BY <1>e, <1>8 DEF LinkReturns, InItsProgram
  <2>3. CASE task' = task BY <1>0, <2>2, <2>3, LinkedStill
  <2>4. CASE (Turns(t, "death", "check") \/ Turns(t, "census", "fold")) BY <1>0, <2>2, <2>4, LinkedKept
  <2> QED BY <2>1, <2>3, <2>4
<1>9. ASSUME NEW t \in Tasks, Mint(t) PROVE Linked'
  <2>1. Turns(t, task[t].op, "link")
    BY <1>0, <1>9, MintIs DEF Mint
  <2>2. /\ exposed => exposed'
        /\ Running' => /\ Running /\ row'.link = row.link /\ enabled \subseteq enabled'
                       /\ ~At(t, "drop")
    BY <1>d, <1>e, <1>9 DEF Mint, DbOK, NoRow, InItsProgram
  <2>3. task'[t].pc \in {"look", "launch"} => task[t].pc \in {"look", "launch"} /\ task'[t].key = task[t].key
    BY <1>0, <1>9, <2>1, GotoIs DEF Mint, Turns
  <2> QED BY <1>0, <2>1, <2>2, <2>3, LinkedKept DEF Turns
<1>10. ASSUME NEW t \in Tasks, Link(t) PROVE Linked'
  <2>1. \E p \in {"launch", "look"} : Turns(t, task[t].op, p) BY <1>0, <1>10, GotoIs DEF Link
  <2>2. task'[t].key = task[t].key /\ exposed' = exposed /\ enabled' = enabled BY <1>0, <1>10, GotoIs DEF Link
  <2>3. Running' => row'.link = task[t].key BY <1>d, <1>10 DEF Link, DbOK
  <2>4. task[t].key \in enabled BY <1>0, <1>10 DEF Link, KeysInv, LinkedLater
  <2>5. Launcher(t) BY <1>e, <1>10 DEF Link, Launcher, InDeathHandler, InItsProgram
  <2>6. ~exposed => \A u \in Tasks \ {t} : task[u].pc \notin {"look", "launch"}
    BY <1>0, <1>e, <2>5 DEF OneLauncher, Launcher, InDeathHandler, InItsProgram
  <2> QED BY <2>1, <2>2, <2>3, <2>4, <2>6 DEF Linked, Holds, Turns
<1>11. ASSUME NEW t \in Tasks, LaunchSucceeds(t) PROVE Linked'
  <2>1. Turns(t, task[t].op, IF task[t].op = "create" THEN "settle" ELSE "revive")
    BY <1>0, <1>11, GotoIs DEF LaunchSucceeds
  <2>2. /\ exposed => exposed'
        /\ Running' => /\ Running /\ row'.link = row.link /\ enabled \subseteq enabled'
                       /\ ~At(t, "drop")
    BY <1>d, <1>e, <1>11 DEF LaunchSucceeds, DbOK, NoRow, InItsProgram
  <2>3. task'[t].pc \in {"look", "launch"} => task[t].pc \in {"look", "launch"} /\ task'[t].key = task[t].key
    BY <1>0, <1>11, <2>1, GotoIs DEF LaunchSucceeds, Turns
  <2> QED BY <1>0, <2>1, <2>2, <2>3, LinkedKept DEF Turns
<1>12. ASSUME NEW t \in Tasks, LaunchRefused(t) PROVE Linked'
  <2>1. Turns(t, task[t].op, "unwind")
    BY <1>0, <1>12, GotoIs DEF LaunchRefused
  <2>2. /\ exposed => exposed'
        /\ Running' => /\ Running /\ row'.link = row.link /\ enabled \subseteq enabled'
                       /\ ~At(t, "drop")
    BY <1>d, <1>e, <1>12 DEF LaunchRefused, DbOK, NoRow, InItsProgram
  <2>3. task'[t].pc \in {"look", "launch"} => task[t].pc \in {"look", "launch"} /\ task'[t].key = task[t].key
    BY <1>0, <1>12, <2>1, GotoIs DEF LaunchRefused, Turns
  <2> QED BY <1>0, <2>1, <2>2, <2>3, LinkedKept DEF Turns
<1>13. ASSUME NEW t \in Tasks, LaunchBreaks(t) PROVE Linked'
  <2>1. Turns(t, task[t].op, "unwind")
    BY <1>0, <1>13, GotoIs DEF LaunchBreaks
  <2>2. /\ exposed => exposed'
        /\ Running' => /\ Running /\ row'.link = row.link /\ enabled \subseteq enabled'
                       /\ ~At(t, "drop")
    BY <1>d, <1>e, <1>13 DEF LaunchBreaks, DbOK, NoRow, InItsProgram
  <2>3. task'[t].pc \in {"look", "launch"} => task[t].pc \in {"look", "launch"} /\ task'[t].key = task[t].key
    BY <1>0, <1>13, <2>1, GotoIs DEF LaunchBreaks, Turns
  <2> QED BY <1>0, <2>1, <2>2, <2>3, LinkedKept DEF Turns
<1>14. ASSUME NEW t \in Tasks, Settle(t) PROVE Linked'
  <2>1. (Running /\ Turns(t, "idle", "end")) \/ (~Running /\ Turns(t, task[t].op, "orphan"))
    BY <1>0, <1>14, GotoIs, FinishesIs DEF Settle
  <2>2. /\ exposed => exposed'
        /\ Running' => /\ Running /\ row'.link = row.link /\ enabled \subseteq enabled'
                       /\ ~At(t, "drop")
    BY <1>d, <1>e, <1>14 DEF Settle, DbOK, NoRow, InItsProgram
  <2>3. task'[t].pc \in {"look", "launch"} => task[t].pc \in {"look", "launch"} /\ task'[t].key = task[t].key
    BY <1>0, <1>14, <2>1, GotoIs DEF Settle, Turns
  <2> QED BY <1>0, <2>1, <2>2, <2>3, LinkedKept DEF Turns
<1>15. ASSUME NEW t \in Tasks, UnwindCreate(t) PROVE Linked'
  <2>1. Turns(t, task[t].op, "mark")
    BY <1>0, <1>15, GotoIs DEF UnwindCreate
  <2>2. /\ exposed => exposed'
        /\ Running' => /\ Running /\ row'.link = row.link /\ enabled \subseteq enabled'
                       /\ ~At(t, "drop")
    BY <1>d, <1>e, <1>15 DEF UnwindCreate, DbOK, NoRow, InItsProgram
  <2>3. task'[t].pc \in {"look", "launch"} => task[t].pc \in {"look", "launch"} /\ task'[t].key = task[t].key
    BY <1>0, <1>15, <2>1, GotoIs DEF UnwindCreate, Turns
  <2> QED BY <1>0, <2>1, <2>2, <2>3, LinkedKept DEF Turns
<1>16. ASSUME NEW t \in Tasks, Mark(t) PROVE Linked'
  <2>1. Turns(t, task[t].op, "retire")
    BY <1>0, <1>16, GotoIs DEF Mark
  <2>2. /\ exposed => exposed'
        /\ Running' => /\ Running /\ row'.link = row.link /\ enabled \subseteq enabled'
                       /\ ~At(t, "drop")
    BY <1>d, <1>e, <1>16 DEF Mark, DbOK, NoRow, InItsProgram
  <2>3. task'[t].pc \in {"look", "launch"} => task[t].pc \in {"look", "launch"} /\ task'[t].key = task[t].key
    BY <1>0, <1>16, <2>1, GotoIs DEF Mark, Turns
  <2> QED BY <1>0, <2>1, <2>2, <2>3, LinkedKept DEF Turns
<1>17. ASSUME NEW t \in Tasks, Retire(t) PROVE Linked'
  <2>1. Turns(t, "idle", "end") \/ Turns(t, task[t].op, "settled")
    BY <1>0, <1>17, GotoIs, FinishesIs DEF Retire
  <2>2. exposed' = exposed /\ row' = row BY <1>17 DEF Retire
  <2>3. Launcher(t) \/ task[t].op = "stop" BY <1>e, <1>17 DEF Retire, Launcher, InDeathHandler, InItsProgram, Reviving
  <2>4. CASE Launcher(t)
    <3>1. ~exposed => \A u \in Tasks \ {t} : task[u].pc \notin {"look", "launch"}
      BY <1>0, <1>e, <2>4 DEF OneLauncher, Launcher, InDeathHandler, InItsProgram
    <3> QED BY <2>1, <2>2, <3>1 DEF Linked, Turns
  <2>5. CASE ~Launcher(t)
    <3>1. exposed \/ ~Running BY <1>0, <2>3, <2>5, <1>17 DEF Retire, StopsLast
    <3> QED BY <2>2, <3>1 DEF Linked
  <2> QED BY <2>4, <2>5
<1>18. ASSUME NEW t \in Tasks, KillOld(t) PROVE Linked'
  <2>1. Turns(t, "idle", "end") \/ Turns(t, task[t].op, "park")
    BY <1>0, <1>18, GotoIs, FinishesIs DEF KillOld
  <2>2. /\ exposed => exposed'
        /\ Running' => /\ Running /\ row'.link = row.link /\ enabled \subseteq enabled'
                       /\ ~At(t, "drop")
    BY <1>d, <1>e, <1>18 DEF KillOld, DbOK, NoRow, InItsProgram
  <2>3. task'[t].pc \in {"look", "launch"} => task[t].pc \in {"look", "launch"} /\ task'[t].key = task[t].key
    BY <1>0, <1>18, <2>1, GotoIs DEF KillOld, Turns
  <2> QED BY <1>0, <2>1, <2>2, <2>3, LinkedKept DEF Turns
<1>19. ASSUME NEW t \in Tasks, Park(t) PROVE Linked'
  <2>1. exposed' = exposed /\ enabled' = enabled /\ task[t].op = "restart" BY <1>e, <1>19 DEF Park, InItsProgram, Reviving
  <2>2. CASE ~AsRead(t)
    <3>1. Turns(t, "idle", "end") /\ row' = row BY <1>0, <2>2, <1>19, ParkIs DEF Park
    <3> QED BY <1>0, <2>1, <3>1, <1>19, LinkedKept DEF Park
  <2>3. CASE AsRead(t)
    <3>1. Turns(t, "restart", "revoke") BY <1>0, <2>3, <1>19, ParkIs
    <3>2. ~exposed => \A u \in Tasks \ {t} : task[u].pc \notin {"look", "launch"}
      BY <1>0, <1>e, <2>1 DEF OneLauncher, Launcher, InDeathHandler, InItsProgram
    <3> QED BY <2>1, <3>1, <3>2 DEF Linked, Turns
  <2> QED BY <2>2, <2>3
<1>20. ASSUME NEW t \in Tasks, UnwindRestart(t) PROVE Linked'
  <2>1. Turns(t, task[t].op, "mark")
    BY <1>0, <1>20, GotoIs DEF UnwindRestart
  <2>2. /\ exposed => exposed'
        /\ Running' => /\ Running /\ row'.link = row.link /\ enabled \subseteq enabled'
                       /\ ~At(t, "drop")
    BY <1>d, <1>e, <1>20 DEF UnwindRestart, DbOK, NoRow, InItsProgram
  <2>3. task'[t].pc \in {"look", "launch"} => task[t].pc \in {"look", "launch"} /\ task'[t].key = task[t].key
    BY <1>0, <1>20, <2>1, GotoIs DEF UnwindRestart, Turns
  <2> QED BY <1>0, <2>1, <2>2, <2>3, LinkedKept DEF Turns
<1>21. ASSUME NEW t \in Tasks, CannotCompose(t) PROVE Linked'
  <2>1. Turns(t, task[t].op, "unwind")
    BY <1>0, <1>21, GotoIs DEF CannotCompose
  <2>2. /\ exposed => exposed'
        /\ Running' => /\ Running /\ row'.link = row.link /\ enabled \subseteq enabled'
                       /\ ~At(t, "drop")
    BY <1>d, <1>e, <1>21 DEF CannotCompose, DbOK, NoRow, InItsProgram
  <2>3. task'[t].pc \in {"look", "launch"} => task[t].pc \in {"look", "launch"} /\ task'[t].key = task[t].key
    BY <1>0, <1>21, <2>1, GotoIs DEF CannotCompose, Turns
  <2> QED BY <1>0, <2>1, <2>2, <2>3, LinkedKept DEF Turns
<1>22. ASSUME NEW t \in Tasks, RotateKey(t) PROVE Linked'
  <2>1. Turns(t, task[t].op, "mint")
    BY <1>0, <1>22, GotoIs DEF RotateKey
  <2>2. exposed' = exposed /\ row' = row BY <1>22 DEF RotateKey
  <2>3. Launcher(t) BY <1>e, <1>22 DEF RotateKey, Launcher, InDeathHandler, InItsProgram, Reviving
  <2>4. CASE Launcher(t)
    <3>1. ~exposed => \A u \in Tasks \ {t} : task[u].pc \notin {"look", "launch"}
      BY <1>0, <1>e, <2>4 DEF OneLauncher, Launcher, InDeathHandler, InItsProgram
    <3> QED BY <2>1, <2>2, <3>1 DEF Linked, Turns
  <2>5. CASE ~Launcher(t)
    <3>1. exposed \/ ~Running BY <1>0, <2>3, <2>5, <1>22 DEF RotateKey, StopsLast
    <3> QED BY <2>2, <3>1 DEF Linked
  <2> QED BY <2>4, <2>5
<1>23. ASSUME NEW t \in Tasks, Look(t) PROVE Linked'
  <2>1. Turns(t, task[t].op, "launch") \/ Turns(t, task[t].op, "retire")
    BY <1>0, <1>23, GotoIs DEF Look
  <2>2. /\ exposed => exposed'
        /\ Running' => /\ Running /\ row'.link = row.link /\ enabled \subseteq enabled'
                       /\ ~At(t, "drop")
    BY <1>d, <1>e, <1>23 DEF Look, DbOK, NoRow, InItsProgram
  <2>3. task'[t].pc \in {"look", "launch"} => task[t].pc \in {"look", "launch"} /\ task'[t].key = task[t].key
    BY <1>0, <1>23, <2>1, GotoIs DEF Look, Turns
  <2> QED BY <1>0, <2>1, <2>2, <2>3, LinkedKept DEF Turns
<1>24. ASSUME NEW t \in Tasks, Revive(t) PROVE Linked'
  <2>1. (Running /\ Turns(t, "idle", "end")) \/ (~Running /\ Turns(t, task[t].op, "orphan"))
    BY <1>0, <1>24, GotoIs, FinishesIs DEF Revive
  <2>2. /\ exposed => exposed'
        /\ Running' => /\ Running /\ row'.link = row.link /\ enabled \subseteq enabled'
                       /\ ~At(t, "drop")
    BY <1>d, <1>e, <1>24 DEF Revive, DbOK, NoRow, InItsProgram
  <2>3. task'[t].pc \in {"look", "launch"} => task[t].pc \in {"look", "launch"} /\ task'[t].key = task[t].key
    BY <1>0, <1>24, <2>1, GotoIs DEF Revive, Turns
  <2> QED BY <1>0, <2>1, <2>2, <2>3, LinkedKept DEF Turns
<1>25. ASSUME NEW t \in Tasks, KillOrphan(t) PROVE Linked'
  <2>1. Turns(t, task[t].op, "retire") \/ Turns(t, task[t].op, "unwind")
    BY <1>0, <1>25, GotoIs DEF KillOrphan
  <2>2. /\ exposed => exposed'
        /\ Running' => /\ Running /\ row'.link = row.link /\ enabled \subseteq enabled'
                       /\ ~At(t, "drop")
    BY <1>d, <1>e, <1>25 DEF KillOrphan, DbOK, NoRow, InItsProgram
  <2>3. task'[t].pc \in {"look", "launch"} => task[t].pc \in {"look", "launch"} /\ task'[t].key = task[t].key
    BY <1>0, <1>25, <2>1, GotoIs DEF KillOrphan, Turns
  <2> QED BY <1>0, <2>1, <2>2, <2>3, LinkedKept DEF Turns
<1>26. ASSUME NEW t \in Tasks, StopKills(t) PROVE Linked'
  <2>1. Turns(t, task[t].op, "claim")
    BY <1>0, <1>26, GotoIs DEF StopKills
  <2>2. /\ exposed => exposed'
        /\ Running' => /\ Running /\ row'.link = row.link /\ enabled \subseteq enabled'
                       /\ ~At(t, "drop")
    BY <1>d, <1>e, <1>26 DEF StopKills, DbOK, NoRow, InItsProgram
  <2>3. task'[t].pc \in {"look", "launch"} => task[t].pc \in {"look", "launch"} /\ task'[t].key = task[t].key
    BY <1>0, <1>26, <2>1, GotoIs DEF StopKills, Turns
  <2> QED BY <1>0, <2>1, <2>2, <2>3, LinkedKept DEF Turns
<1>27. ASSUME NEW t \in Tasks, KillFails(t) PROVE Linked'
  <2>1. Turns(t, "idle", "end")
    BY <1>0, <1>27, FinishesIs DEF KillFails
  <2>2. /\ exposed => exposed'
        /\ Running' => /\ Running /\ row'.link = row.link /\ enabled \subseteq enabled'
                       /\ ~At(t, "drop")
    BY <1>d, <1>e, <1>27 DEF KillFails, DbOK, NoRow, InItsProgram
  <2>3. task'[t].pc \in {"look", "launch"} => task[t].pc \in {"look", "launch"} /\ task'[t].key = task[t].key
    BY <1>0, <1>27, <2>1, GotoIs DEF KillFails, Turns
  <2> QED BY <1>0, <2>1, <2>2, <2>3, LinkedKept DEF Turns
<1>28. ASSUME NEW t \in Tasks, StopClaims(t) PROVE Linked'
  <2>1. Turns(t, task[t].op, "mark")
    BY <1>0, <1>28, GotoIs DEF StopClaims
  <2>2. /\ exposed => exposed'
        /\ Running' => /\ Running /\ row'.link = row.link /\ enabled \subseteq enabled'
                       /\ ~At(t, "drop")
    BY <1>d, <1>e, <1>28 DEF StopClaims, DbOK, NoRow, InItsProgram
  <2>3. task'[t].pc \in {"look", "launch"} => task[t].pc \in {"look", "launch"} /\ task'[t].key = task[t].key
    BY <1>0, <1>28, <2>1, GotoIs DEF StopClaims, Turns
  <2> QED BY <1>0, <2>1, <2>2, <2>3, LinkedKept DEF Turns
<1>29. ASSUME NEW t \in Tasks, DeleteKills(t) PROVE Linked'
  <2>1. Turns(t, task[t].op, "unlink")
    BY <1>0, <1>29, GotoIs DEF DeleteKills
  <2>2. /\ exposed => exposed'
        /\ Running' => /\ Running /\ row'.link = row.link /\ enabled \subseteq enabled'
                       /\ ~At(t, "drop")
    BY <1>d, <1>e, <1>29 DEF DeleteKills, DbOK, NoRow, InItsProgram
  <2>3. task'[t].pc \in {"look", "launch"} => task[t].pc \in {"look", "launch"} /\ task'[t].key = task[t].key
    BY <1>0, <1>29, <2>1, GotoIs DEF DeleteKills, Turns
  <2> QED BY <1>0, <2>1, <2>2, <2>3, LinkedKept DEF Turns
<1>30. ASSUME NEW t \in Tasks, DeleteRevokes(t) PROVE Linked'
  <2>1. Turns(t, task[t].op, "drop") BY <1>0, <1>30, GotoIs DEF DeleteRevokes
  <2> QED BY <2>1 DEF Linked, Dropped, Turns
<1>31. ASSUME NEW t \in Tasks, DeleteRow(t) PROVE Linked'
  <2>1. Turns(t, "idle", "end")
    BY <1>0, <1>31, EndsIs DEF DeleteRow
  <2>2. /\ exposed => exposed'
        /\ Running' => /\ Running /\ row'.link = row.link /\ enabled \subseteq enabled'
                       /\ ~At(t, "drop")
    BY <1>d, <1>e, <1>31 DEF DeleteRow, DbOK, NoRow, InItsProgram
  <2>3. task'[t].pc \in {"look", "launch"} => task[t].pc \in {"look", "launch"} /\ task'[t].key = task[t].key
    BY <1>0, <1>31, <2>1, GotoIs DEF DeleteRow, Turns
  <2> QED BY <1>0, <2>1, <2>2, <2>3, LinkedKept DEF Turns
<1>32. ASSUME NEW t \in Tasks, SweepRow(t) PROVE Linked'
  <2>1. Turns(t, "idle", "end") \/ Turns(t, task[t].op, "probe")
    BY <1>0, <1>32, GotoIs, EndsIs DEF SweepRow
  <2>2. /\ exposed => exposed'
        /\ Running' => /\ Running /\ row'.link = row.link /\ enabled \subseteq enabled'
                       /\ ~At(t, "drop")
    BY <1>d, <1>e, <1>32 DEF SweepRow, DbOK, NoRow, InItsProgram
  <2>3. task'[t].pc \in {"look", "launch"} => task[t].pc \in {"look", "launch"} /\ task'[t].key = task[t].key
    BY <1>0, <1>32, <2>1, GotoIs DEF SweepRow, Turns
  <2> QED BY <1>0, <2>1, <2>2, <2>3, LinkedKept DEF Turns
<1>33. ASSUME NEW t \in Tasks, Probe(t) PROVE Linked'
  <2>1. \/ Turns(t, task[t].op, "patch") \/ Turns(t, "sweep", "fold")
        \/ Turns(t, "death", "check") \/ Turns(t, "idle", "end")
    BY <1>0, <1>33, ProbeIs DEF Probe
  <2>2. /\ exposed => exposed'
        /\ Running' => /\ Running /\ row'.link = row.link /\ enabled \subseteq enabled'
                       /\ ~At(t, "drop")
    BY <1>d, <1>e, <1>33 DEF Probe, DbOK, NoRow, InItsProgram
  <2>3. task'[t].pc \in {"look", "launch"} => task[t].pc \in {"look", "launch"} /\ task'[t].key = task[t].key
    BY <1>0, <1>33, <2>1, GotoIs DEF Probe, Turns
  <2> QED BY <1>0, <2>1, <2>2, <2>3, LinkedKept DEF Turns
<1>34. ASSUME NEW t \in Tasks, PatchAlive(t) PROVE Linked'
  <2>1. Turns(t, "idle", "end")
    BY <1>0, <1>34, EndsIs DEF PatchAlive
  <2>2. /\ exposed => exposed'
        /\ Running' => /\ Running /\ row'.link = row.link /\ enabled \subseteq enabled'
                       /\ ~At(t, "drop")
    BY <1>d, <1>e, <1>34 DEF PatchAlive, DbOK, NoRow, InItsProgram
  <2>3. task'[t].pc \in {"look", "launch"} => task[t].pc \in {"look", "launch"} /\ task'[t].key = task[t].key
    BY <1>0, <1>34, <2>1, GotoIs DEF PatchAlive, Turns
  <2> QED BY <1>0, <2>1, <2>2, <2>3, LinkedKept DEF Turns
<1>35. ASSUME NEW t \in Tasks, FoldAlive(t) PROVE Linked'
  <2>1. Turns(t, "idle", "end") \/ Turns(t, task[t].op, "bestKill")
    BY <1>0, <1>35, GotoIs, EndsIs DEF FoldAlive
  <2>2. /\ exposed => exposed'
        /\ Running' => /\ Running /\ row'.link = row.link /\ enabled \subseteq enabled'
                       /\ ~At(t, "drop")
    BY <1>d, <1>e, <1>35 DEF FoldAlive, DbOK, NoRow, InItsProgram
  <2>3. task'[t].pc \in {"look", "launch"} => task[t].pc \in {"look", "launch"} /\ task'[t].key = task[t].key
    BY <1>0, <1>35, <2>1, GotoIs DEF FoldAlive, Turns
  <2> QED BY <1>0, <2>1, <2>2, <2>3, LinkedKept DEF Turns
<1>36. ASSUME NEW t \in Tasks, BestEffortKill(t) PROVE Linked'
  <2>1. Turns(t, "idle", "end")
    BY <1>0, <1>36, EndsIs DEF BestEffortKill
  <2>2. /\ exposed => exposed'
        /\ Running' => /\ Running /\ row'.link = row.link /\ enabled \subseteq enabled'
                       /\ ~At(t, "drop")
    BY <1>d, <1>e, <1>36 DEF BestEffortKill, DbOK, NoRow, InItsProgram
  <2>3. task'[t].pc \in {"look", "launch"} => task[t].pc \in {"look", "launch"} /\ task'[t].key = task[t].key
    BY <1>0, <1>36, <2>1, GotoIs DEF BestEffortKill, Turns
  <2> QED BY <1>0, <2>1, <2>2, <2>3, LinkedKept DEF Turns
<1>37. ASSUME NEW t \in Tasks, CheckLease(t) PROVE Linked'
  <2>1. Turns(t, "idle", "end") \/ Turns(t, "death", "fresh")
    BY <1>0, <1>37, GotoIs, EndsIs DEF CheckLease
  <2>2. /\ exposed => exposed'
        /\ Running' => /\ Running /\ row'.link = row.link /\ enabled \subseteq enabled'
                       /\ ~At(t, "drop")
    BY <1>d, <1>e, <1>37 DEF CheckLease, DbOK, NoRow, InItsProgram
  <2>3. task'[t].pc \in {"look", "launch"} => task[t].pc \in {"look", "launch"} /\ task'[t].key = task[t].key
    BY <1>0, <1>37, <2>1, GotoIs DEF CheckLease, Turns
  <2> QED BY <1>0, <2>1, <2>2, <2>3, LinkedKept DEF Turns
<1>38. ASSUME NEW t \in Tasks, FreshRow(t) PROVE Linked'
  <2>1. Turns(t, "idle", "end") \/ \E p \in {"claim", "schedule", "settled"} : Turns(t, "death", p)
    BY <1>0, <1>38, FreshRowIs DEF FreshRow
  <2>2. /\ exposed => exposed'
        /\ Running' => /\ Running /\ row'.link = row.link /\ enabled \subseteq enabled'
                       /\ ~At(t, "drop")
    BY <1>d, <1>e, <1>38 DEF FreshRow, DbOK, NoRow, InItsProgram
  <2>3. task'[t].pc \in {"look", "launch"} => task[t].pc \in {"look", "launch"} /\ task'[t].key = task[t].key
    BY <1>0, <1>38, <2>1, GotoIs DEF FreshRow, Turns
  <2> QED BY <1>0, <2>1, <2>2, <2>3, LinkedKept DEF Turns
<1>39. ASSUME NEW t \in Tasks, ClaimDeath(t) PROVE Linked'
  <2>1. Turns(t, task[t].op, "settled")
    BY <1>0, <1>39, GotoIs DEF ClaimDeath
  <2>2. /\ exposed => exposed'
        /\ Running' => /\ Running /\ row'.link = row.link /\ enabled \subseteq enabled'
                       /\ ~At(t, "drop")
    BY <1>d, <1>e, <1>39 DEF ClaimDeath, DbOK, NoRow, InItsProgram
  <2>3. task'[t].pc \in {"look", "launch"} => task[t].pc \in {"look", "launch"} /\ task'[t].key = task[t].key
    BY <1>0, <1>39, <2>1, GotoIs DEF ClaimDeath, Turns
  <2> QED BY <1>0, <2>1, <2>2, <2>3, LinkedKept DEF Turns
<1>40. ASSUME NEW t \in Tasks, Schedule(t) PROVE Linked'
  <2>1. Turns(t, task[t].op, "gates")
    BY <1>0, <1>40, GotoIs DEF Schedule
  <2>2. /\ exposed => exposed'
        /\ Running' => /\ Running /\ row'.link = row.link /\ enabled \subseteq enabled'
                       /\ ~At(t, "drop")
    BY <1>d, <1>e, <1>40 DEF Schedule, DbOK, NoRow, InItsProgram
  <2>3. task'[t].pc \in {"look", "launch"} => task[t].pc \in {"look", "launch"} /\ task'[t].key = task[t].key
    BY <1>0, <1>40, <2>1, GotoIs DEF Schedule, Turns
  <2> QED BY <1>0, <2>1, <2>2, <2>3, LinkedKept DEF Turns
<1>41. ASSUME NEW t \in Tasks, Defer(t) PROVE Linked'
  <2>1. Turns(t, task[t].op, "settled")
    BY <1>0, <1>41, GotoIs DEF Defer
  <2>2. /\ exposed => exposed'
        /\ Running' => /\ Running /\ row'.link = row.link /\ enabled \subseteq enabled'
                       /\ ~At(t, "drop")
    BY <1>d, <1>e, <1>41 DEF Defer, DbOK, NoRow, InItsProgram
  <2>3. task'[t].pc \in {"look", "launch"} => task[t].pc \in {"look", "launch"} /\ task'[t].key = task[t].key
    BY <1>0, <1>41, <2>1, GotoIs DEF Defer, Turns
  <2> QED BY <1>0, <2>1, <2>2, <2>3, LinkedKept DEF Turns
<1>42. ASSUME NEW t \in Tasks, AutoRestart(t) PROVE Linked'
  <2>1. Turns(t, task[t].op, "revoke")
    BY <1>0, <1>42, AutoRestartIs DEF AutoRestart
  <2>2. /\ exposed => exposed'
        /\ Running' => /\ Running /\ row'.link = row.link /\ enabled \subseteq enabled'
                       /\ ~At(t, "drop")
    BY <1>d, <1>e, <1>42 DEF AutoRestart, DbOK, NoRow, InItsProgram
  <2>3. task'[t].pc \in {"look", "launch"} => task[t].pc \in {"look", "launch"} /\ task'[t].key = task[t].key
    BY <1>0, <1>42, <2>1, GotoIs DEF AutoRestart, Turns
  <2> QED BY <1>0, <2>1, <2>2, <2>3, LinkedKept DEF Turns
<1>43. ASSUME NEW t \in Tasks, UnwindAuto(t) PROVE Linked'
  <2>1. Turns(t, task[t].op, "settled")
    BY <1>0, <1>43, GotoIs DEF UnwindAuto
  <2>2. /\ exposed => exposed'
        /\ Running' => /\ Running /\ row'.link = row.link /\ enabled \subseteq enabled'
                       /\ ~At(t, "drop")
    BY <1>d, <1>e, <1>43 DEF UnwindAuto, DbOK, NoRow, InItsProgram
  <2>3. task'[t].pc \in {"look", "launch"} => task[t].pc \in {"look", "launch"} /\ task'[t].key = task[t].key
    BY <1>0, <1>43, <2>1, GotoIs DEF UnwindAuto, Turns
  <2> QED BY <1>0, <2>1, <2>2, <2>3, LinkedKept DEF Turns
<1>44. ASSUME NEW t \in Tasks, Bury(t) PROVE Linked'
  <2>1. Turns(t, "idle", "end") \/ Turns(t, task[t].op, "reap")
    BY <1>0, <1>44, GotoIs, EndsIs DEF Bury
  <2>2. exposed' = exposed /\ row' = row BY <1>44 DEF Bury
  <2>3. Launcher(t) BY <1>e, <1>44 DEF Bury, Launcher, InDeathHandler, InItsProgram, Reviving
  <2>4. CASE Launcher(t)
    <3>1. ~exposed => \A u \in Tasks \ {t} : task[u].pc \notin {"look", "launch"}
      BY <1>0, <1>e, <2>4 DEF OneLauncher, Launcher, InDeathHandler, InItsProgram
    <3> QED BY <2>1, <2>2, <3>1 DEF Linked, Turns
  <2>5. CASE ~Launcher(t)
    <3>1. exposed \/ ~Running BY <1>0, <2>3, <2>5, <1>44 DEF Bury, StopsLast
    <3> QED BY <2>2, <3>1 DEF Linked
  <2> QED BY <2>4, <2>5
<1>45. ASSUME NEW t \in Tasks, Reap(t) PROVE Linked'
  <2>1. Turns(t, "idle", "end")
    BY <1>0, <1>45, EndsIs DEF Reap
  <2>2. /\ exposed => exposed'
        /\ Running' => /\ Running /\ row'.link = row.link /\ enabled \subseteq enabled'
                       /\ ~At(t, "drop")
    BY <1>d, <1>e, <1>45 DEF Reap, DbOK, NoRow, InItsProgram
  <2>3. task'[t].pc \in {"look", "launch"} => task[t].pc \in {"look", "launch"} /\ task'[t].key = task[t].key
    BY <1>0, <1>45, <2>1, GotoIs DEF Reap, Turns
  <2> QED BY <1>0, <2>1, <2>2, <2>3, LinkedKept DEF Turns
<1>46. ASSUME PaneDies PROVE Linked'
  BY <1>0, <1>d, <1>46, LinkedStill DEF PaneDies, DbOK
<1>47. ASSUME ReportIsLost PROVE Linked'
  BY <1>0, <1>d, <1>47, LinkedStill DEF ReportIsLost, DbOK
<1>48. ASSUME LinkDrops PROVE Linked'
  BY <1>0, <1>d, <1>48, LinkedStill DEF LinkDrops, DbOK
<1>49. ASSUME RetryFallsDue PROVE Linked'
  BY <1>0, <1>d, <1>49, LinkedStill DEF RetryFallsDue, DbOK
<1>50. ASSUME UNCHANGED vars PROVE Linked'
  BY <1>0, <1>d, <1>50, LinkedStill DEF vars, DbOK
<1> QED
  BY <1>1, <1>2, <1>3, <1>4, <1>5, <1>6, <1>7, <1>8, <1>9, <1>10, <1>11, <1>12, <1>13,
     <1>14, <1>15, <1>16, <1>17, <1>18, <1>19, <1>20, <1>21, <1>22, <1>23, <1>24, <1>25, <1>26,
     <1>27, <1>28, <1>29, <1>30, <1>31, <1>32, <1>33, <1>34, <1>35, <1>36, <1>37, <1>38, <1>39,
     <1>40, <1>41, <1>42, <1>43, <1>44, <1>45, <1>46, <1>47, <1>48, <1>49, <1>50
     DEF Next, Operation, Continue, Launching, Restarting, Stopping, Sweeping, Burying

\* No step leaves a running row's live pane without its key.
LEMMA AcceptedStep ==
  ASSUME TypeOK, Apart, StopsLast, RowOver, RowOver', Linked, Accepted, [Next]_vars PROVE Accepted'
<1> USE DEF At, AtAs, Free, NoPane, RowBecomes, Revoked, Running, Exists, Exposes, hostVars, dbVars, fixed
<1>0. /\ TypeOK /\ OneLauncher /\ NothingYet /\ KeysInv /\ DeathFinds /\ StopsLast /\ RowOver /\ Linked /\ Accepted
  BY DEF Apart, Launchers
<1>e. \A t \in Tasks : InItsProgram(task[t]) BY DEF TypeOK
<1>d. DbOK /\ HostOK BY Parts
<1>1. ASSUME NEW t \in Tasks, Create(t) PROVE Accepted'
  <2>1. pane'.is = "none" BY <1>0, <1>1 DEF Create, NothingYet
  <2> QED BY <2>1 DEF Accepted
<1>2. ASSUME NEW t \in Tasks, Restart(t) PROVE Accepted'
  <2>1. Turns(t, "restart", "kill") BY <1>0, <1>2, RestartIs
  <2>2. UNCHANGED <<row, pane, enabled>> /\ (exposed => exposed') /\ ~At(t, "drop") /\ ~Rotates(t)
    BY <1>e, <1>2 DEF Restart, InItsProgram, Rotates
  <2> QED BY <1>0, <2>1, <2>2, AcceptedKept
<1>3. ASSUME NEW t \in Tasks, Stop(t) PROVE Accepted'
  <2>1. Turns(t, "stop", "kill")
    BY <1>0, <1>3, BeginsIs DEF Stop
  <2>2. exposed => exposed' BY <1>3 DEF Stop
  <2>3. ~exposed' /\ Running' /\ pane'.is = "live" =>
          /\ Running /\ pane.is = "live" /\ pane'.key = pane.key
          /\ row'.link = row.link /\ enabled \subseteq enabled'
          /\ ~At(t, "drop") /\ (Rotates(t) => Rotates(t)')
    BY <1>0, <1>d, <1>e, <1>3, <2>1, <2>2 DEF Stop, DbOK, HostOK, NoRow, Rotates, Turns, InItsProgram, Reviving,
       DeathFinds, FindsNone, Finding, RowOver, Over
  <2> QED BY <1>0, <2>1, <2>2, <2>3, AcceptedKept
<1>4. ASSUME NEW t \in Tasks, Delete(t) PROVE Accepted'
  <2>1. Turns(t, "delete", "kill")
    BY <1>0, <1>4, BeginsIs DEF Delete
  <2>2. exposed => exposed' BY <1>4 DEF Delete
  <2>3. ~exposed' /\ Running' /\ pane'.is = "live" =>
          /\ Running /\ pane.is = "live" /\ pane'.key = pane.key
          /\ row'.link = row.link /\ enabled \subseteq enabled'
          /\ ~At(t, "drop") /\ (Rotates(t) => Rotates(t)')
    BY <1>0, <1>d, <1>e, <1>4, <2>1, <2>2 DEF Delete, DbOK, HostOK, NoRow, Rotates, Turns, InItsProgram, Reviving,
       DeathFinds, FindsNone, Finding, RowOver, Over
  <2> QED BY <1>0, <2>1, <2>2, <2>3, AcceptedKept
<1>5. ASSUME NEW t \in Tasks, Sweep(t) PROVE Accepted'
  <2>1. Turns(t, "sweep", "row")
    BY <1>0, <1>5, SweepIs DEF Sweep
  <2>2. exposed => exposed' BY <1>5 DEF Sweep
  <2>3. ~exposed' /\ Running' /\ pane'.is = "live" =>
          /\ Running /\ pane.is = "live" /\ pane'.key = pane.key
          /\ row'.link = row.link /\ enabled \subseteq enabled'
          /\ ~At(t, "drop") /\ (Rotates(t) => Rotates(t)')
    BY <1>0, <1>d, <1>e, <1>5, <2>1, <2>2 DEF Sweep, DbOK, HostOK, NoRow, Rotates, Turns, InItsProgram, Reviving,
       DeathFinds, FindsNone, Finding, RowOver, Over
  <2> QED BY <1>0, <2>1, <2>2, <2>3, AcceptedKept
<1>6. ASSUME NEW t \in Tasks, Report(t) PROVE Accepted'
  <2>1. task' = task \/ Turns(t, "death", "check") BY <1>0, <1>6, ReportIs
  <2>2. UNCHANGED <<exposed, row, enabled>> /\ (pane'.is = "live" => pane' = pane) BY <1>d, <1>6 DEF Report, HostOK
  <2>3. CASE task' = task BY <1>0, <2>2, <2>3, AcceptedStill
  <2>4. CASE Turns(t, "death", "check")
    <3>1. ~At(t, "drop") /\ ~Rotates(t) BY <1>e, <1>6 DEF Report, InItsProgram, Rotates
    <3> QED BY <1>0, <2>2, <2>4, <3>1, AcceptedKept
  <2> QED BY <2>1, <2>3, <2>4
<1>7. ASSUME NEW t \in Tasks, NodeReports(t) PROVE Accepted'
  <2>1. task' = task \/ Turns(t, "death", "check") BY <1>0, <1>7, NodeReportsIs
  <2>2. UNCHANGED <<exposed, row, enabled>> /\ (pane'.is = "live" => pane' = pane) BY <1>d, <1>7 DEF NodeReports, HostOK
  <2>3. CASE task' = task BY <1>0, <2>2, <2>3, AcceptedStill
  <2>4. CASE Turns(t, "death", "check")
    <3>1. ~At(t, "drop") /\ ~Rotates(t) BY <1>e, <1>7 DEF NodeReports, InItsProgram, Rotates
    <3> QED BY <1>0, <2>2, <2>4, <3>1, AcceptedKept
  <2> QED BY <2>1, <2>3, <2>4
<1>8. ASSUME NEW t \in Tasks, LinkReturns(t) PROVE Accepted'
  <2>1. task' = task \/ (Turns(t, "death", "check") \/ Turns(t, "census", "fold")) BY <1>0, <1>8, LinkReturnsIs
  <2>2. UNCHANGED <<exposed, row, enabled>> /\ (pane'.is = "live" => pane' = pane) BY <1>d, <1>8 DEF LinkReturns, HostOK
  <2>3. CASE task' = task BY <1>0, <2>2, <2>3, AcceptedStill
  <2>4. CASE (Turns(t, "death", "check") \/ Turns(t, "census", "fold"))
    <3>1. ~At(t, "drop") /\ ~Rotates(t) BY <1>e, <1>8 DEF LinkReturns, InItsProgram, Rotates
    <3> QED BY <1>0, <2>2, <2>4, <3>1, AcceptedKept
  <2> QED BY <2>1, <2>3, <2>4
<1>9. ASSUME NEW t \in Tasks, Mint(t) PROVE Accepted'
  <2>1. Turns(t, task[t].op, "link")
    BY <1>0, <1>9, MintIs DEF Mint
  <2>2. exposed => exposed' BY <1>9 DEF Mint
  <2>3. ~exposed' /\ Running' /\ pane'.is = "live" =>
          /\ Running /\ pane.is = "live" /\ pane'.key = pane.key
          /\ row'.link = row.link /\ enabled \subseteq enabled'
          /\ ~At(t, "drop") /\ (Rotates(t) => Rotates(t)')
    BY <1>0, <1>d, <1>e, <1>9, <2>1, <2>2 DEF Mint, DbOK, HostOK, NoRow, Rotates, Turns, InItsProgram, Reviving,
       DeathFinds, FindsNone, Finding, RowOver, Over
  <2> QED BY <1>0, <2>1, <2>2, <2>3, AcceptedKept
<1>10. ASSUME NEW t \in Tasks, Link(t) PROVE Accepted'
  <2>1. \E p \in {"launch", "look"} : Turns(t, task[t].op, p) BY <1>0, <1>10, GotoIs DEF Link
  <2>2. UNCHANGED <<exposed, pane>> BY <1>10 DEF Link
  <2>3. task[t].op \in {"create", "death", "restart"} BY <1>e, <1>10 DEF Link, InItsProgram
  <2>4. CASE task[t].op = "restart"
    <3>1. Rotates(t)' BY <2>1, <2>4 DEF Rotates, Turns
    <3> QED BY <3>1 DEF Accepted
  <2>5. CASE task[t].op # "restart"
    <3>1. ~exposed => pane.is # "live" BY <1>0, <2>3, <2>5, <1>10 DEF Link, DeathFinds, FindsNone, Finding
    <3> QED BY <2>2, <3>1 DEF Accepted
  <2> QED BY <2>4, <2>5
<1>11. ASSUME NEW t \in Tasks, LaunchSucceeds(t) PROVE Accepted'
  <2>1. Turns(t, task[t].op, IF task[t].op = "create" THEN "settle" ELSE "revive")
    BY <1>0, <1>11, GotoIs DEF LaunchSucceeds
  <2>2. UNCHANGED <<row, enabled>> /\ (exposed => exposed') /\ pane'.key = task[t].key BY <1>11 DEF LaunchSucceeds, Spawns
  <2>3. ~exposed' => ~Dropped BY <1>11 DEF LaunchSucceeds, Dropped, MidStop
  <2>4. task[t].key # NoKey BY <1>0, <1>11 DEF LaunchSucceeds, KeysInv, FreshKeys, Unspawned
  <2>5. ~exposed' /\ Running => Holds(task[t].key) BY <1>0, <2>2, <2>3, <1>11 DEF LaunchSucceeds, Linked
  <2> QED BY <2>2, <2>4, <2>5 DEF Accepted, Holds
<1>12. ASSUME NEW t \in Tasks, LaunchRefused(t) PROVE Accepted'
  <2>1. Turns(t, task[t].op, "unwind")
    BY <1>0, <1>12, GotoIs DEF LaunchRefused
  <2>2. exposed => exposed' BY <1>12 DEF LaunchRefused
  <2>3. ~exposed' /\ Running' /\ pane'.is = "live" =>
          /\ Running /\ pane.is = "live" /\ pane'.key = pane.key
          /\ row'.link = row.link /\ enabled \subseteq enabled'
          /\ ~At(t, "drop") /\ (Rotates(t) => Rotates(t)')
    BY <1>0, <1>d, <1>e, <1>12, <2>1, <2>2 DEF LaunchRefused, DbOK, HostOK, NoRow, Rotates, Turns, InItsProgram, Reviving,
       DeathFinds, FindsNone, Finding, RowOver, Over
  <2> QED BY <1>0, <2>1, <2>2, <2>3, AcceptedKept
<1>13. ASSUME NEW t \in Tasks, LaunchBreaks(t) PROVE Accepted'
  <2>1. Turns(t, task[t].op, "unwind")
    BY <1>0, <1>13, GotoIs DEF LaunchBreaks
  <2>2. UNCHANGED <<row, enabled>> /\ (exposed => exposed') /\ pane'.key = task[t].key BY <1>13 DEF LaunchBreaks, Spawns
  <2>3. ~exposed' => ~Dropped BY <1>13 DEF LaunchBreaks, Dropped, MidStop
  <2>4. task[t].key # NoKey BY <1>0, <1>13 DEF LaunchBreaks, KeysInv, FreshKeys, Unspawned
  <2>5. ~exposed' /\ Running => Holds(task[t].key) BY <1>0, <2>2, <2>3, <1>13 DEF LaunchBreaks, Linked
  <2> QED BY <2>2, <2>4, <2>5 DEF Accepted, Holds
<1>14. ASSUME NEW t \in Tasks, Settle(t) PROVE Accepted'
  <2>1. (Running /\ Turns(t, "idle", "end")) \/ (~Running /\ Turns(t, task[t].op, "orphan"))
    BY <1>0, <1>14, GotoIs, FinishesIs DEF Settle
  <2>2. exposed => exposed' BY <1>14 DEF Settle
  <2>3. ~exposed' /\ Running' /\ pane'.is = "live" =>
          /\ Running /\ pane.is = "live" /\ pane'.key = pane.key
          /\ row'.link = row.link /\ enabled \subseteq enabled'
          /\ ~At(t, "drop") /\ (Rotates(t) => Rotates(t)')
    BY <1>0, <1>d, <1>e, <1>14, <2>1, <2>2 DEF Settle, DbOK, HostOK, NoRow, Rotates, Turns, InItsProgram, Reviving,
       DeathFinds, FindsNone, Finding, RowOver, Over
  <2> QED BY <1>0, <2>1, <2>2, <2>3, AcceptedKept
<1>15. ASSUME NEW t \in Tasks, UnwindCreate(t) PROVE Accepted'
  <2>1. Turns(t, task[t].op, "mark")
    BY <1>0, <1>15, GotoIs DEF UnwindCreate
  <2>2. exposed => exposed' BY <1>15 DEF UnwindCreate
  <2>3. ~exposed' /\ Running' /\ pane'.is = "live" =>
          /\ Running /\ pane.is = "live" /\ pane'.key = pane.key
          /\ row'.link = row.link /\ enabled \subseteq enabled'
          /\ ~At(t, "drop") /\ (Rotates(t) => Rotates(t)')
    BY <1>0, <1>d, <1>e, <1>15, <2>1, <2>2 DEF UnwindCreate, DbOK, HostOK, NoRow, Rotates, Turns, InItsProgram, Reviving,
       DeathFinds, FindsNone, Finding, RowOver, Over
  <2> QED BY <1>0, <2>1, <2>2, <2>3, AcceptedKept
<1>16. ASSUME NEW t \in Tasks, Mark(t) PROVE Accepted'
  <2>1. Turns(t, task[t].op, "retire")
    BY <1>0, <1>16, GotoIs DEF Mark
  <2>2. exposed => exposed' BY <1>16 DEF Mark
  <2>3. ~exposed' /\ Running' /\ pane'.is = "live" =>
          /\ Running /\ pane.is = "live" /\ pane'.key = pane.key
          /\ row'.link = row.link /\ enabled \subseteq enabled'
          /\ ~At(t, "drop") /\ (Rotates(t) => Rotates(t)')
    BY <1>0, <1>d, <1>e, <1>16, <2>1, <2>2 DEF Mark, DbOK, HostOK, NoRow, Rotates, Turns, InItsProgram, Reviving,
       DeathFinds, FindsNone, Finding, RowOver, Over
  <2> QED BY <1>0, <2>1, <2>2, <2>3, AcceptedKept
<1>17. ASSUME NEW t \in Tasks, Retire(t) PROVE Accepted'
  <2>1. Turns(t, "idle", "end") \/ Turns(t, task[t].op, "settled")
    BY <1>0, <1>17, GotoIs, FinishesIs DEF Retire
  <2>2. UNCHANGED <<exposed, pane, row>> BY <1>17 DEF Retire
  <2>3. ~exposed /\ pane.is = "live" => ~Running BY <1>0, <1>17 DEF Retire, RowOver, Over
  <2> QED BY <2>2, <2>3 DEF Accepted
<1>18. ASSUME NEW t \in Tasks, KillOld(t) PROVE Accepted'
  <2>1. Turns(t, "idle", "end") \/ Turns(t, task[t].op, "park")
    BY <1>0, <1>18, GotoIs, FinishesIs DEF KillOld
  <2>2. exposed => exposed' BY <1>18 DEF KillOld
  <2>3. ~exposed' /\ Running' /\ pane'.is = "live" =>
          /\ Running /\ pane.is = "live" /\ pane'.key = pane.key
          /\ row'.link = row.link /\ enabled \subseteq enabled'
          /\ ~At(t, "drop") /\ (Rotates(t) => Rotates(t)')
    BY <1>0, <1>d, <1>e, <1>18, <2>1, <2>2 DEF KillOld, DbOK, HostOK, NoRow, Rotates, Turns, InItsProgram, Reviving,
       DeathFinds, FindsNone, Finding, RowOver, Over
  <2> QED BY <1>0, <2>1, <2>2, <2>3, AcceptedKept
<1>19. ASSUME NEW t \in Tasks, Park(t) PROVE Accepted'
  <2>1. UNCHANGED <<exposed, enabled, pane>> BY <1>19 DEF Park
  <2>2. CASE ~AsRead(t)
    <3>1. Turns(t, "idle", "end") /\ row' = row BY <1>0, <2>2, <1>19, ParkIs DEF Park
    <3> QED BY <1>0, <2>1, <3>1, <1>19, AcceptedKept DEF Park, Rotates
  <2>3. CASE AsRead(t)
    <3>1. Rotates(t)' BY <1>0, <2>3, <1>19, ParkIs DEF Rotates, Turns
    <3> QED BY <3>1 DEF Accepted
  <2> QED BY <2>2, <2>3
<1>20. ASSUME NEW t \in Tasks, UnwindRestart(t) PROVE Accepted'
  <2>1. Turns(t, task[t].op, "mark")
    BY <1>0, <1>20, GotoIs DEF UnwindRestart
  <2>2. exposed => exposed' BY <1>20 DEF UnwindRestart
  <2>3. ~exposed' /\ Running' /\ pane'.is = "live" =>
          /\ Running /\ pane.is = "live" /\ pane'.key = pane.key
          /\ row'.link = row.link /\ enabled \subseteq enabled'
          /\ ~At(t, "drop") /\ (Rotates(t) => Rotates(t)')
    BY <1>0, <1>d, <1>e, <1>20, <2>1, <2>2 DEF UnwindRestart, DbOK, HostOK, NoRow, Rotates, Turns, InItsProgram, Reviving,
       DeathFinds, FindsNone, Finding, RowOver, Over
  <2> QED BY <1>0, <2>1, <2>2, <2>3, AcceptedKept
<1>21. ASSUME NEW t \in Tasks, CannotCompose(t) PROVE Accepted'
  <2>1. Turns(t, task[t].op, "unwind")
    BY <1>0, <1>21, GotoIs DEF CannotCompose
  <2>2. exposed => exposed' BY <1>21 DEF CannotCompose
  <2>3. ~exposed' /\ Running' /\ pane'.is = "live" =>
          /\ Running /\ pane.is = "live" /\ pane'.key = pane.key
          /\ row'.link = row.link /\ enabled \subseteq enabled'
          /\ ~At(t, "drop") /\ (Rotates(t) => Rotates(t)')
    BY <1>0, <1>d, <1>e, <1>21, <2>1, <2>2 DEF CannotCompose, DbOK, HostOK, NoRow, Rotates, Turns, InItsProgram, Reviving,
       DeathFinds, FindsNone, Finding, RowOver, Over
  <2> QED BY <1>0, <2>1, <2>2, <2>3, AcceptedKept
<1>22. ASSUME NEW t \in Tasks, RotateKey(t) PROVE Accepted'
  <2>1. Turns(t, task[t].op, "mint")
    BY <1>0, <1>22, GotoIs DEF RotateKey
  <2>2. UNCHANGED <<exposed, pane, row>> /\ task[t].op \in {"death", "restart"}
    BY <1>e, <1>22 DEF RotateKey, InItsProgram, Reviving
  <2>3. CASE task[t].op = "restart"
    <3>1. Rotates(t)' BY <2>1, <2>3 DEF Rotates, Turns
    <3> QED BY <3>1 DEF Accepted
  <2>4. CASE task[t].op = "death"
    <3>1. ~exposed => pane.is # "live" BY <1>0, <2>4, <1>22 DEF RotateKey, DeathFinds, FindsNone, Finding
    <3> QED BY <2>2, <3>1 DEF Accepted
  <2> QED BY <2>2, <2>3, <2>4
<1>23. ASSUME NEW t \in Tasks, Look(t) PROVE Accepted'
  <2>1. Turns(t, task[t].op, "launch") \/ Turns(t, task[t].op, "retire")
    BY <1>0, <1>23, GotoIs DEF Look
  <2>2. UNCHANGED <<exposed, pane, row>> BY <1>23 DEF Look
  <2>3. CASE Turns(t, task[t].op, "launch")
    <3>1. enabled' = enabled /\ ~At(t, "drop") /\ (Rotates(t) => Rotates(t)') BY <2>3, <1>23 DEF Look, Rotates, Turns
    <3> QED BY <1>0, <2>2, <2>3, <3>1, AcceptedKept
  <2>4. CASE Turns(t, task[t].op, "retire")
    <3>1. ~exposed' /\ pane'.is = "live" => ~Running' BY <2>4 DEF RowOver, Over, Turns
    <3> QED BY <3>1 DEF Accepted
  <2> QED BY <2>1, <2>3, <2>4
<1>24. ASSUME NEW t \in Tasks, Revive(t) PROVE Accepted'
  <2>1. (Running /\ Turns(t, "idle", "end")) \/ (~Running /\ Turns(t, task[t].op, "orphan"))
    BY <1>0, <1>24, GotoIs, FinishesIs DEF Revive
  <2>2. exposed => exposed' BY <1>24 DEF Revive
  <2>3. ~exposed' /\ Running' /\ pane'.is = "live" =>
          /\ Running /\ pane.is = "live" /\ pane'.key = pane.key
          /\ row'.link = row.link /\ enabled \subseteq enabled'
          /\ ~At(t, "drop") /\ (Rotates(t) => Rotates(t)')
    BY <1>0, <1>d, <1>e, <1>24, <2>1, <2>2 DEF Revive, DbOK, HostOK, NoRow, Rotates, Turns, InItsProgram, Reviving,
       DeathFinds, FindsNone, Finding, RowOver, Over
  <2> QED BY <1>0, <2>1, <2>2, <2>3, AcceptedKept
<1>25. ASSUME NEW t \in Tasks, KillOrphan(t) PROVE Accepted'
  <2>1. Turns(t, task[t].op, "retire") \/ Turns(t, task[t].op, "unwind")
    BY <1>0, <1>25, GotoIs DEF KillOrphan
  <2>2. exposed => exposed' BY <1>25 DEF KillOrphan
  <2>3. ~exposed' /\ Running' /\ pane'.is = "live" =>
          /\ Running /\ pane.is = "live" /\ pane'.key = pane.key
          /\ row'.link = row.link /\ enabled \subseteq enabled'
          /\ ~At(t, "drop") /\ (Rotates(t) => Rotates(t)')
    BY <1>0, <1>d, <1>e, <1>25, <2>1, <2>2 DEF KillOrphan, DbOK, HostOK, NoRow, Rotates, Turns, InItsProgram, Reviving,
       DeathFinds, FindsNone, Finding, RowOver, Over
  <2> QED BY <1>0, <2>1, <2>2, <2>3, AcceptedKept
<1>26. ASSUME NEW t \in Tasks, StopKills(t) PROVE Accepted'
  <2>1. Turns(t, task[t].op, "claim")
    BY <1>0, <1>26, GotoIs DEF StopKills
  <2>2. exposed => exposed' BY <1>26 DEF StopKills
  <2>3. ~exposed' /\ Running' /\ pane'.is = "live" =>
          /\ Running /\ pane.is = "live" /\ pane'.key = pane.key
          /\ row'.link = row.link /\ enabled \subseteq enabled'
          /\ ~At(t, "drop") /\ (Rotates(t) => Rotates(t)')
    BY <1>0, <1>d, <1>e, <1>26, <2>1, <2>2 DEF StopKills, DbOK, HostOK, NoRow, Rotates, Turns, InItsProgram, Reviving,
       DeathFinds, FindsNone, Finding, RowOver, Over
  <2> QED BY <1>0, <2>1, <2>2, <2>3, AcceptedKept
<1>27. ASSUME NEW t \in Tasks, KillFails(t) PROVE Accepted'
  <2>1. Turns(t, "idle", "end")
    BY <1>0, <1>27, FinishesIs DEF KillFails
  <2>2. exposed => exposed' BY <1>27 DEF KillFails
  <2>3. ~exposed' /\ Running' /\ pane'.is = "live" =>
          /\ Running /\ pane.is = "live" /\ pane'.key = pane.key
          /\ row'.link = row.link /\ enabled \subseteq enabled'
          /\ ~At(t, "drop") /\ (Rotates(t) => Rotates(t)')
    BY <1>0, <1>d, <1>e, <1>27, <2>1, <2>2 DEF KillFails, DbOK, HostOK, NoRow, Rotates, Turns, InItsProgram, Reviving,
       DeathFinds, FindsNone, Finding, RowOver, Over
  <2> QED BY <1>0, <2>1, <2>2, <2>3, AcceptedKept
<1>28. ASSUME NEW t \in Tasks, StopClaims(t) PROVE Accepted'
  <2>1. Turns(t, task[t].op, "mark")
    BY <1>0, <1>28, GotoIs DEF StopClaims
  <2>2. exposed => exposed' BY <1>28 DEF StopClaims
  <2>3. ~exposed' /\ Running' /\ pane'.is = "live" =>
          /\ Running /\ pane.is = "live" /\ pane'.key = pane.key
          /\ row'.link = row.link /\ enabled \subseteq enabled'
          /\ ~At(t, "drop") /\ (Rotates(t) => Rotates(t)')
    BY <1>0, <1>d, <1>e, <1>28, <2>1, <2>2 DEF StopClaims, DbOK, HostOK, NoRow, Rotates, Turns, InItsProgram, Reviving,
       DeathFinds, FindsNone, Finding, RowOver, Over
  <2> QED BY <1>0, <2>1, <2>2, <2>3, AcceptedKept
<1>29. ASSUME NEW t \in Tasks, DeleteKills(t) PROVE Accepted'
  <2>1. Turns(t, task[t].op, "unlink")
    BY <1>0, <1>29, GotoIs DEF DeleteKills
  <2>2. exposed => exposed' BY <1>29 DEF DeleteKills
  <2>3. ~exposed' /\ Running' /\ pane'.is = "live" =>
          /\ Running /\ pane.is = "live" /\ pane'.key = pane.key
          /\ row'.link = row.link /\ enabled \subseteq enabled'
          /\ ~At(t, "drop") /\ (Rotates(t) => Rotates(t)')
    BY <1>0, <1>d, <1>e, <1>29, <2>1, <2>2 DEF DeleteKills, DbOK, HostOK, NoRow, Rotates, Turns, InItsProgram, Reviving,
       DeathFinds, FindsNone, Finding, RowOver, Over
  <2> QED BY <1>0, <2>1, <2>2, <2>3, AcceptedKept
<1>30. ASSUME NEW t \in Tasks, DeleteRevokes(t) PROVE Accepted'
  <2>1. Turns(t, task[t].op, "drop") BY <1>0, <1>30, GotoIs DEF DeleteRevokes
  <2> QED BY <2>1 DEF Accepted, Dropped, Turns
<1>31. ASSUME NEW t \in Tasks, DeleteRow(t) PROVE Accepted'
  <2>1. Turns(t, "idle", "end")
    BY <1>0, <1>31, EndsIs DEF DeleteRow
  <2>2. exposed => exposed' BY <1>31 DEF DeleteRow
  <2>3. ~exposed' /\ Running' /\ pane'.is = "live" =>
          /\ Running /\ pane.is = "live" /\ pane'.key = pane.key
          /\ row'.link = row.link /\ enabled \subseteq enabled'
          /\ ~At(t, "drop") /\ (Rotates(t) => Rotates(t)')
    BY <1>0, <1>d, <1>e, <1>31, <2>1, <2>2 DEF DeleteRow, DbOK, HostOK, NoRow, Rotates, Turns, InItsProgram, Reviving,
       DeathFinds, FindsNone, Finding, RowOver, Over
  <2> QED BY <1>0, <2>1, <2>2, <2>3, AcceptedKept
<1>32. ASSUME NEW t \in Tasks, SweepRow(t) PROVE Accepted'
  <2>1. Turns(t, "idle", "end") \/ Turns(t, task[t].op, "probe")
    BY <1>0, <1>32, GotoIs, EndsIs DEF SweepRow
  <2>2. exposed => exposed' BY <1>32 DEF SweepRow
  <2>3. ~exposed' /\ Running' /\ pane'.is = "live" =>
          /\ Running /\ pane.is = "live" /\ pane'.key = pane.key
          /\ row'.link = row.link /\ enabled \subseteq enabled'
          /\ ~At(t, "drop") /\ (Rotates(t) => Rotates(t)')
    BY <1>0, <1>d, <1>e, <1>32, <2>1, <2>2 DEF SweepRow, DbOK, HostOK, NoRow, Rotates, Turns, InItsProgram, Reviving,
       DeathFinds, FindsNone, Finding, RowOver, Over
  <2> QED BY <1>0, <2>1, <2>2, <2>3, AcceptedKept
<1>33. ASSUME NEW t \in Tasks, Probe(t) PROVE Accepted'
  <2>1. \/ Turns(t, task[t].op, "patch") \/ Turns(t, "sweep", "fold")
        \/ Turns(t, "death", "check") \/ Turns(t, "idle", "end")
    BY <1>0, <1>33, ProbeIs DEF Probe
  <2>2. exposed => exposed' BY <1>33 DEF Probe
  <2>3. ~exposed' /\ Running' /\ pane'.is = "live" =>
          /\ Running /\ pane.is = "live" /\ pane'.key = pane.key
          /\ row'.link = row.link /\ enabled \subseteq enabled'
          /\ ~At(t, "drop") /\ (Rotates(t) => Rotates(t)')
    BY <1>0, <1>d, <1>e, <1>33, <2>1, <2>2 DEF Probe, DbOK, HostOK, NoRow, Rotates, Turns, InItsProgram, Reviving,
       DeathFinds, FindsNone, Finding, RowOver, Over
  <2> QED BY <1>0, <2>1, <2>2, <2>3, AcceptedKept
<1>34. ASSUME NEW t \in Tasks, PatchAlive(t) PROVE Accepted'
  <2>1. Turns(t, "idle", "end")
    BY <1>0, <1>34, EndsIs DEF PatchAlive
  <2>2. exposed => exposed' BY <1>34 DEF PatchAlive
  <2>3. ~exposed' /\ Running' /\ pane'.is = "live" =>
          /\ Running /\ pane.is = "live" /\ pane'.key = pane.key
          /\ row'.link = row.link /\ enabled \subseteq enabled'
          /\ ~At(t, "drop") /\ (Rotates(t) => Rotates(t)')
    BY <1>0, <1>d, <1>e, <1>34, <2>1, <2>2 DEF PatchAlive, DbOK, HostOK, NoRow, Rotates, Turns, InItsProgram, Reviving,
       DeathFinds, FindsNone, Finding, RowOver, Over
  <2> QED BY <1>0, <2>1, <2>2, <2>3, AcceptedKept
<1>35. ASSUME NEW t \in Tasks, FoldAlive(t) PROVE Accepted'
  <2>1. Turns(t, "idle", "end") \/ Turns(t, task[t].op, "bestKill")
    BY <1>0, <1>35, GotoIs, EndsIs DEF FoldAlive
  <2>2. exposed => exposed' BY <1>35 DEF FoldAlive
  <2>3. ~exposed' /\ Running' /\ pane'.is = "live" =>
          /\ Running /\ pane.is = "live" /\ pane'.key = pane.key
          /\ row'.link = row.link /\ enabled \subseteq enabled'
          /\ ~At(t, "drop") /\ (Rotates(t) => Rotates(t)')
    BY <1>0, <1>d, <1>e, <1>35, <2>1, <2>2 DEF FoldAlive, DbOK, HostOK, NoRow, Rotates, Turns, InItsProgram, Reviving,
       DeathFinds, FindsNone, Finding, RowOver, Over
  <2> QED BY <1>0, <2>1, <2>2, <2>3, AcceptedKept
<1>36. ASSUME NEW t \in Tasks, BestEffortKill(t) PROVE Accepted'
  <2>1. Turns(t, "idle", "end")
    BY <1>0, <1>36, EndsIs DEF BestEffortKill
  <2>2. exposed => exposed' BY <1>36 DEF BestEffortKill
  <2>3. ~exposed' /\ Running' /\ pane'.is = "live" =>
          /\ Running /\ pane.is = "live" /\ pane'.key = pane.key
          /\ row'.link = row.link /\ enabled \subseteq enabled'
          /\ ~At(t, "drop") /\ (Rotates(t) => Rotates(t)')
    BY <1>0, <1>d, <1>e, <1>36, <2>1, <2>2 DEF BestEffortKill, DbOK, HostOK, NoRow, Rotates, Turns, InItsProgram, Reviving,
       DeathFinds, FindsNone, Finding, RowOver, Over
  <2> QED BY <1>0, <2>1, <2>2, <2>3, AcceptedKept
<1>37. ASSUME NEW t \in Tasks, CheckLease(t) PROVE Accepted'
  <2>1. Turns(t, "idle", "end") \/ Turns(t, "death", "fresh")
    BY <1>0, <1>37, GotoIs, EndsIs DEF CheckLease
  <2>2. exposed => exposed' BY <1>37 DEF CheckLease
  <2>3. ~exposed' /\ Running' /\ pane'.is = "live" =>
          /\ Running /\ pane.is = "live" /\ pane'.key = pane.key
          /\ row'.link = row.link /\ enabled \subseteq enabled'
          /\ ~At(t, "drop") /\ (Rotates(t) => Rotates(t)')
    BY <1>0, <1>d, <1>e, <1>37, <2>1, <2>2 DEF CheckLease, DbOK, HostOK, NoRow, Rotates, Turns, InItsProgram, Reviving,
       DeathFinds, FindsNone, Finding, RowOver, Over
  <2> QED BY <1>0, <2>1, <2>2, <2>3, AcceptedKept
<1>38. ASSUME NEW t \in Tasks, FreshRow(t) PROVE Accepted'
  <2>1. Turns(t, "idle", "end") \/ \E p \in {"claim", "schedule", "settled"} : Turns(t, "death", p)
    BY <1>0, <1>38, FreshRowIs DEF FreshRow
  <2>2. exposed => exposed' BY <1>38 DEF FreshRow
  <2>3. ~exposed' /\ Running' /\ pane'.is = "live" =>
          /\ Running /\ pane.is = "live" /\ pane'.key = pane.key
          /\ row'.link = row.link /\ enabled \subseteq enabled'
          /\ ~At(t, "drop") /\ (Rotates(t) => Rotates(t)')
    BY <1>0, <1>d, <1>e, <1>38, <2>1, <2>2 DEF FreshRow, DbOK, HostOK, NoRow, Rotates, Turns, InItsProgram, Reviving,
       DeathFinds, FindsNone, Finding, RowOver, Over
  <2> QED BY <1>0, <2>1, <2>2, <2>3, AcceptedKept
<1>39. ASSUME NEW t \in Tasks, ClaimDeath(t) PROVE Accepted'
  <2>1. Turns(t, task[t].op, "settled")
    BY <1>0, <1>39, GotoIs DEF ClaimDeath
  <2>2. exposed => exposed' BY <1>39 DEF ClaimDeath
  <2>3. ~exposed' /\ Running' /\ pane'.is = "live" =>
          /\ Running /\ pane.is = "live" /\ pane'.key = pane.key
          /\ row'.link = row.link /\ enabled \subseteq enabled'
          /\ ~At(t, "drop") /\ (Rotates(t) => Rotates(t)')
    BY <1>0, <1>d, <1>e, <1>39, <2>1, <2>2 DEF ClaimDeath, DbOK, HostOK, NoRow, Rotates, Turns, InItsProgram, Reviving,
       DeathFinds, FindsNone, Finding, RowOver, Over
  <2> QED BY <1>0, <2>1, <2>2, <2>3, AcceptedKept
<1>40. ASSUME NEW t \in Tasks, Schedule(t) PROVE Accepted'
  <2>1. Turns(t, task[t].op, "gates")
    BY <1>0, <1>40, GotoIs DEF Schedule
  <2>2. exposed => exposed' BY <1>40 DEF Schedule
  <2>3. ~exposed' /\ Running' /\ pane'.is = "live" =>
          /\ Running /\ pane.is = "live" /\ pane'.key = pane.key
          /\ row'.link = row.link /\ enabled \subseteq enabled'
          /\ ~At(t, "drop") /\ (Rotates(t) => Rotates(t)')
    BY <1>0, <1>d, <1>e, <1>40, <2>1, <2>2 DEF Schedule, DbOK, HostOK, NoRow, Rotates, Turns, InItsProgram, Reviving,
       DeathFinds, FindsNone, Finding, RowOver, Over
  <2> QED BY <1>0, <2>1, <2>2, <2>3, AcceptedKept
<1>41. ASSUME NEW t \in Tasks, Defer(t) PROVE Accepted'
  <2>1. Turns(t, task[t].op, "settled")
    BY <1>0, <1>41, GotoIs DEF Defer
  <2>2. exposed => exposed' BY <1>41 DEF Defer
  <2>3. ~exposed' /\ Running' /\ pane'.is = "live" =>
          /\ Running /\ pane.is = "live" /\ pane'.key = pane.key
          /\ row'.link = row.link /\ enabled \subseteq enabled'
          /\ ~At(t, "drop") /\ (Rotates(t) => Rotates(t)')
    BY <1>0, <1>d, <1>e, <1>41, <2>1, <2>2 DEF Defer, DbOK, HostOK, NoRow, Rotates, Turns, InItsProgram, Reviving,
       DeathFinds, FindsNone, Finding, RowOver, Over
  <2> QED BY <1>0, <2>1, <2>2, <2>3, AcceptedKept
<1>42. ASSUME NEW t \in Tasks, AutoRestart(t) PROVE Accepted'
  <2>1. Turns(t, task[t].op, "revoke")
    BY <1>0, <1>42, AutoRestartIs DEF AutoRestart
  <2>2. exposed => exposed' BY <1>42 DEF AutoRestart
  <2>3. ~exposed' /\ Running' /\ pane'.is = "live" =>
          /\ Running /\ pane.is = "live" /\ pane'.key = pane.key
          /\ row'.link = row.link /\ enabled \subseteq enabled'
          /\ ~At(t, "drop") /\ (Rotates(t) => Rotates(t)')
    BY <1>0, <1>d, <1>e, <1>42, <2>1, <2>2 DEF AutoRestart, DbOK, HostOK, NoRow, Rotates, Turns, InItsProgram, Reviving,
       DeathFinds, FindsNone, Finding, RowOver, Over
  <2> QED BY <1>0, <2>1, <2>2, <2>3, AcceptedKept
<1>43. ASSUME NEW t \in Tasks, UnwindAuto(t) PROVE Accepted'
  <2>1. Turns(t, task[t].op, "settled")
    BY <1>0, <1>43, GotoIs DEF UnwindAuto
  <2>2. exposed => exposed' BY <1>43 DEF UnwindAuto
  <2>3. ~exposed' /\ Running' /\ pane'.is = "live" =>
          /\ Running /\ pane.is = "live" /\ pane'.key = pane.key
          /\ row'.link = row.link /\ enabled \subseteq enabled'
          /\ ~At(t, "drop") /\ (Rotates(t) => Rotates(t)')
    BY <1>0, <1>d, <1>e, <1>43, <2>1, <2>2 DEF UnwindAuto, DbOK, HostOK, NoRow, Rotates, Turns, InItsProgram, Reviving,
       DeathFinds, FindsNone, Finding, RowOver, Over
  <2> QED BY <1>0, <2>1, <2>2, <2>3, AcceptedKept
<1>44. ASSUME NEW t \in Tasks, Bury(t) PROVE Accepted'
  <2>1. Turns(t, "idle", "end") \/ Turns(t, task[t].op, "reap")
    BY <1>0, <1>44, GotoIs, EndsIs DEF Bury
  <2>2. exposed => exposed' BY <1>44 DEF Bury
  <2>3. ~exposed' /\ Running' /\ pane'.is = "live" =>
          /\ Running /\ pane.is = "live" /\ pane'.key = pane.key
          /\ row'.link = row.link /\ enabled \subseteq enabled'
          /\ ~At(t, "drop") /\ (Rotates(t) => Rotates(t)')
    BY <1>0, <1>d, <1>e, <1>44, <2>1, <2>2 DEF Bury, DbOK, HostOK, NoRow, Rotates, Turns, InItsProgram, Reviving,
       DeathFinds, FindsNone, Finding, RowOver, Over
  <2> QED BY <1>0, <2>1, <2>2, <2>3, AcceptedKept
<1>45. ASSUME NEW t \in Tasks, Reap(t) PROVE Accepted'
  <2>1. Turns(t, "idle", "end")
    BY <1>0, <1>45, EndsIs DEF Reap
  <2>2. exposed => exposed' BY <1>45 DEF Reap
  <2>3. ~exposed' /\ Running' /\ pane'.is = "live" =>
          /\ Running /\ pane.is = "live" /\ pane'.key = pane.key
          /\ row'.link = row.link /\ enabled \subseteq enabled'
          /\ ~At(t, "drop") /\ (Rotates(t) => Rotates(t)')
    BY <1>0, <1>d, <1>e, <1>45, <2>1, <2>2 DEF Reap, DbOK, HostOK, NoRow, Rotates, Turns, InItsProgram, Reviving,
       DeathFinds, FindsNone, Finding, RowOver, Over
  <2> QED BY <1>0, <2>1, <2>2, <2>3, AcceptedKept
<1>46. ASSUME PaneDies PROVE Accepted'
  BY <1>0, <1>d, <1>46, AcceptedStill DEF PaneDies, DbOK, HostOK
<1>47. ASSUME ReportIsLost PROVE Accepted'
  BY <1>0, <1>d, <1>47, AcceptedStill DEF ReportIsLost, DbOK, HostOK
<1>48. ASSUME LinkDrops PROVE Accepted'
  BY <1>0, <1>d, <1>48, AcceptedStill DEF LinkDrops, DbOK, HostOK
<1>49. ASSUME RetryFallsDue PROVE Accepted'
  BY <1>0, <1>d, <1>49, AcceptedStill DEF RetryFallsDue, DbOK, HostOK
<1>50. ASSUME UNCHANGED vars PROVE Accepted'
  BY <1>0, <1>d, <1>50, AcceptedStill DEF vars, DbOK, HostOK
<1> QED
  BY <1>1, <1>2, <1>3, <1>4, <1>5, <1>6, <1>7, <1>8, <1>9, <1>10, <1>11, <1>12, <1>13,
     <1>14, <1>15, <1>16, <1>17, <1>18, <1>19, <1>20, <1>21, <1>22, <1>23, <1>24, <1>25, <1>26,
     <1>27, <1>28, <1>29, <1>30, <1>31, <1>32, <1>33, <1>34, <1>35, <1>36, <1>37, <1>38, <1>39,
     <1>40, <1>41, <1>42, <1>43, <1>44, <1>45, <1>46, <1>47, <1>48, <1>49, <1>50
     DEF Next, Operation, Continue, Launching, Restarting, Stopping, Sweeping, Burying

-----------------------------------------------------------------------------
(* The theorems                                                            *)

LifeInv == Apart /\ StrayInv /\ StopsLast /\ StaysDead /\ RowOver /\ Linked /\ Accepted

LEMMA LifeInit == Init => LifeInv
  <1> SUFFICES ASSUME Init PROVE LifeInv OBVIOUS
  <1>1. \A t \in Tasks : task[t] = Idle /\ task[t].op = "idle" /\ task[t].pc = "end" /\ task[t].key = NoKey
    BY DEF Init, Idle
  <1>2. /\ row.status = "none" /\ row.link = NoKey /\ pane.is = "none" /\ pane.key = NoKey
        /\ hooks = {} /\ minted = 0 /\ online = TRUE
    BY DEF Init, NoRow
  <1>3. Launchers BY <1>1, <1>2 DEF Launchers, OneLauncher, Launcher, InDeathHandler, NothingYet, Free
  <1>4. KeysInv
    BY <1>1, <1>2 DEF KeysInv, KeysGrow, FreshKeys, LinkedLater, Evidence, Unspawned, At, AtAs, NoKey
  <1>5. Where BY <1>1, <1>2 DEF Where, At
  <1>6. DeathFinds /\ CreateAlive BY <1>1, <1>2 DEF DeathFinds, CreateAlive, Running
  <1>7. StrayInv BY <1>2 DEF StrayInv, Stray
  <1>8. StopsLast /\ StaysDead BY <1>1 DEF StopsLast, StaysDead, HasRead, AtAs
  <1>9. RowOver BY <1>1, <1>2 DEF RowOver, Over, At, AtAs
  <1>10. Linked /\ Accepted BY <1>2 DEF Linked, Accepted, Running
  <1> QED BY <1>3, <1>4, <1>5, <1>6, <1>7, <1>8, <1>9, <1>10 DEF LifeInv, Apart

LEMMA LifeStep == TypeOK /\ LifeInv /\ [Next]_vars => LifeInv'
  <1> SUFFICES ASSUME TypeOK, LifeInv, [Next]_vars PROVE LifeInv' OBVIOUS
  <1>1. Apart'
    <2>1. Launchers' BY LauncherStep, NothingStep DEF LifeInv, Apart, Launchers
    <2>2. KeysInv' /\ Where' BY KeysStep, WhereStep DEF LifeInv, Apart
    <2>3. DeathFinds' /\ CreateAlive' BY FindsStep, CreateStep DEF LifeInv, Apart
    <2> QED BY <2>1, <2>2, <2>3 DEF Apart
  <1>2. StrayInv' BY StrayStep DEF LifeInv
  <1>3. StopsLast' BY StopsStep DEF LifeInv, Apart
  <1>4. StaysDead' BY DeadStep DEF LifeInv, Apart
  <1>5. RowOver' BY <1>3, OverStep DEF LifeInv
  <1>6. Linked' BY LinkedStep DEF LifeInv
  <1>7. Accepted' BY <1>5, AcceptedStep DEF LifeInv
  <1> QED BY <1>1, <1>2, <1>3, <1>4, <1>5, <1>6, <1>7 DEF LifeInv

LEMMA LifeHolds == Spec => []LifeInv
  BY LifeInit, LifeStep, TypeCorrect, PTL DEF Spec

\* Once every operation has ended, a stopped or deleted subshell has no live pane
\* in reach, whatever ran beside what, unless an exposed meeting took place: every
\* launch looks at the row once more, and every ending kills before it writes.
THEOREM StopsKill == Spec => []StoppedPaneIsGone
  <1>1. TypeOK /\ LifeInv => StoppedPaneIsGone
    <2> SUFFICES ASSUME TypeOK, LifeInv, Quiet, Reachable, ~exposed, EndedRow PROVE pane.is # "live"
      BY DEF StoppedPaneIsGone, EndedRow
    <2>1. \A t \in Tasks : task[t].op = "idle" /\ task[t].pc = "end" BY DEF Quiet, Free, TypeOK, InItsProgram
    <2>2. \A t \in Tasks : ~Folds(t) /\ ~Minds(t) BY <2>1 DEF Folds, Minds, Reviver
    <2> QED BY <2>2 DEF LifeInv, StrayInv, Stray
  <1> QED BY <1>1, LifeHolds, TypeCorrect, PTL

\* Once every operation has ended, a running pane's key is the one its row links to
\* and is enabled, unless an exposed meeting took place: whoever revokes under a
\* running row has the pane dead, ends the row, or is about to spawn the next.
THEOREM PanesKeepTheirKeys == Spec => []LivePaneHoldsItsKey
  <1>1. TypeOK /\ LifeInv => LivePaneHoldsItsKey
    <2> SUFFICES ASSUME TypeOK, LifeInv, Quiet, Running, pane.is = "live", ~exposed PROVE Accepts(pane.key)
      BY DEF LivePaneHoldsItsKey
    <2>1. \A t \in Tasks : task[t].op = "idle" /\ task[t].pc = "end" BY DEF Quiet, Free, TypeOK, InItsProgram
    <2>2. ~Dropped /\ \A t \in Tasks : ~Rotates(t) BY <2>1 DEF Dropped, Rotates, At
    <2>3. pane.key # NoKey /\ Holds(pane.key) BY <2>2 DEF LifeInv, Accepted
    <2> QED BY <2>3 DEF Holds, Accepts, Exists, Running
  <1> QED BY <1>1, LifeHolds, TypeCorrect, PTL

\* A death is stamped only on a pane that is dead, unless the evidence was stale
\* when the handler took it up: fresh evidence stays true, for nobody else may
\* spawn a pane until the handler is through.
THEOREM DeathsAreTrue == Spec => NoFalseDeath
  <1>1. TypeOK /\ LifeInv /\ [Next]_vars =>
          [\A t \in Tasks : ClaimDeath(t) /\ row'.alive # row.alive => pane.is # "live" \/ exposed]_vars
    <2> SUFFICES ASSUME LifeInv, NEW t \in Tasks, ClaimDeath(t) PROVE pane.is # "live" \/ exposed
      OBVIOUS
    <2>1. FindsNone(t) BY DEF ClaimDeath, AtAs, FindsNone, Finding
    <2> QED BY <2>1 DEF LifeInv, Apart, DeathFinds
  <1> QED BY <1>1, LifeHolds, TypeCorrect, PTL DEF Spec, NoFalseDeath
=============================================================================
