------------------------- MODULE RestoreJournalProofs -------------------------
(***************************************************************************)
(* Theorems about RestoreJournal: its types, that files, journal and       *)
(* recovery implement AtomicRestore, that a server opens whole instances,  *)
(* and that commands report what became of their restores; for any number  *)
(* of components, backups, commands, deaths and interventions.             *)
(***************************************************************************)
EXTENDS RestoreJournal, TLAPS

(* The control: who holds the lock where, and which loop runs under it. *)

Holder ==
    /\ at["server"] \in {"booting", "serving", "failing"} => lock = "server"
    /\ lock = "server" => at["server"] \in {"loading", "booting", "serving", "failing"}
    /\ \A c \in Clis :
        /\ at[c] \in {"locked", "applying", "applied"} => lock = c
        /\ lock = c => at[c] \in {"loading", "locked", "applying", "applied", "settling"}

\* The loops, and the stages of the processes that may be in one.
LoopShape ==
    /\ doing = "nothing" =>
        /\ step = "look"
        /\ lock # None => at[lock] \in {"booting", "serving", "locked", "applied"}
    /\ doing # "nothing" => lock # None /\ journal # None
    /\ doing = "prepare" =>
        /\ Phase = "preparing" /\ at[lock] = "applying"
        /\ step = "look" /\ cur \in 1..(N + 1)
    /\ doing = "apply" =>
        /\ Phase = "applying" /\ at[lock] = "applying"
        /\ step \in {"aside", "in"} /\ cur \in 1..(N + 1)
        /\ step = "in" => cur <= N
    /\ doing = "undo" =>
        /\ Phase = "rolling-back"
        /\ at[lock] \in {"loading", "applying", "failing", "settling"}
        /\ step \in {"remove", "rename", "drop", "next", "report", "close"}
        /\ cur \in 0..N
        /\ cur = 0 <=> step \in {"report", "close"}
    /\ doing = "finish" =>
        /\ Phase = "finalizing"
        /\ at[lock] \in {"loading", "booting"}
        /\ step \in {"drop", "next", "report", "close"}
        /\ cur \in 1..(N + 1)
        /\ cur = N + 1 <=> step \in {"report", "close"}

Control == TypeOK /\ Holder /\ LoopShape

(* The files: what the journal says of them, phase by phase. *)

\* The journal's own facts, whether or not a process works on it.
JournalInv ==
    /\ journal = None => \A i \in Parts : previous[i] = None
    /\ Phase = "preparing" =>
        /\ journal.repl = {}
        /\ \A i \in Parts : previous[i] = None /\ (i \in journal.orig <=> target[i] # None)
    /\ Phase \in {"applying", "pending-boot", "rolling-back"} =>
        /\ \A i \in Parts : previous[i] # None => i \in journal.orig
        /\ \A i \in journal.repl \ journal.orig : next[i] # None => target[i] = None
    /\ Phase = "pending-boot" => target = Files(journal.gen)

\* Components before cur are replaced, those from cur on are prepared.
ApplyInv ==
    /\ doing = "prepare" => \A i \in Has[journal.gen] : i < cur => next[i] = journal.gen
    /\ doing = "apply" =>
        /\ journal.repl = Has[journal.gen]
        /\ \A i \in Parts :
            /\ i < cur => target[i] = Files(journal.gen)[i]
            /\ i >= cur =>
                /\ i \in journal.repl => next[i] = journal.gen
                /\ i \notin journal.orig => target[i] = None
            /\ i > cur \/ (i = cur /\ step = "aside") =>
                /\ previous[i] = None
                /\ i \in journal.orig => target[i] # None
        /\ step = "in" =>
            /\ cur \in journal.orig => previous[cur] # None
            /\ cur \notin journal.repl => target[cur] = None

\* Components after cur are as they were.
UndoneAt(i) ==
    /\ previous[i] = None
    /\ i \in journal.repl \ journal.orig => target[i] = None
UndoInv ==
    doing = "undo" =>
        /\ \A i \in Parts : i > cur => UndoneAt(i)
        /\ (step = "remove" /\ previous[cur] = None) =>
            cur \notin journal.orig /\ InstalledNew(cur)
        /\ step = "rename" => previous[cur] # None
        /\ step = "drop" => cur \in journal.orig
        /\ (step = "drop" /\ previous[cur] # None) => target[cur] = previous[cur]
        /\ step = "next" => UndoneAt(cur)

FinishInv ==
    doing = "finish" =>
        /\ \A i \in Parts : i < cur => previous[i] = None
        /\ step = "next" => previous[cur] = None

\* What a boot would find, and what a failed boot would go back to, are whole.
WholeInv ==
    /\ Installed \in Instances
    /\ Phase = "pending-boot" => Undone \in Instances

FilesInv == JournalInv /\ ApplyInv /\ UndoInv /\ FinishInv /\ WholeInv

\* A server that nothing crossed has the settings of what stands.
ServerInv ==
    /\ (at["server"] \in {"loaded"} \cup Open /\ ~gap) => Stands /\ cfg = target[Config]
    /\ (at["server"] = "loading" /\ cfg # None /\ ~gap) =>
        cfg = target[Config] /\ doing \in {"nothing", "finish"}

(* The reports. *)

\* A command has a transaction at most once, and its fate is the journal's last word.
Early == {"new", "loading", "ready", "planned", "stopping", "offline", "locked"}
FateInv ==
    /\ \A c \in Clis :
        /\ at[c] \in Early => fate[c] = None
        /\ at[c] = "refused" => fate[c] # "completed"
        /\ (at[c] \in Early \cup {"refused"} /\ journal # None) => journal.tx # c
    /\ Phase \in {"preparing", "applying", "pending-boot"} => fate[journal.tx] = None
    /\ Phase = "rolling-back" => fate[journal.tx] = "rolled-back"
    /\ Phase = "finalizing" => fate[journal.tx] = "completed"
    /\ receipt # None => fate[receipt.tx] = receipt.outcome

\* The command that works on the journal works on its own, or is misled.
OwnInv ==
    doing # "nothing" =>
        /\ at[lock] = "applying" => journal.tx = lock
        /\ at[lock] = "settling" => journal.tx = lock \/ lock \in misled

Reports == FateInv /\ OwnInv /\ TellsTruth

Inv == Control /\ FilesInv /\ ServerInv /\ Reports

-----------------------------------------------------------------------------
(* Facts the step lemmas share. *)

LEMMA SomePart == N \in Nat /\ N >= 1 /\ 1 \in Parts /\ N \in Parts
BY PartsAssumption DEF Parts

\* The journal keeps all but its phase.
LEMMA PhaseWritten ==
  ASSUME TypeOK, journal # None, NEW phase \in Phases, WritePhase(phase)
  PROVE  /\ journal \in Journals
         /\ journal' \in Journals /\ journal' # None /\ Phase' = phase
         /\ journal'.phase = phase /\ journal'.tx = journal.tx /\ journal'.gen = journal.gen
         /\ journal'.orig = journal.orig /\ journal'.repl = journal.repl
<1>1. journal \in Journals
  BY DEF TypeOK
<1>2. /\ journal' \in Journals
      /\ journal'.phase = phase /\ journal'.tx = journal.tx /\ journal'.gen = journal.gen
      /\ journal'.orig = journal.orig /\ journal'.repl = journal.repl
  BY <1>1 DEF WritePhase, Journals
<1> QED
  BY <1>1, <1>2, NoneAssumption DEF Phase

\* Both loops begin with their phase on disk, at a step of their first component.
LEMMA UndoBegins ==
  ASSUME TypeOK, journal # None, BeginUndo
  PROVE  /\ journal' \in Journals /\ journal' # None /\ Phase' = "rolling-back"
         /\ journal'.tx = journal.tx /\ journal'.gen = journal.gen
         /\ journal'.orig = journal.orig /\ journal'.repl = journal.repl
         /\ journal.tx \in Clis /\ fate' = [fate EXCEPT ![journal.tx] = "rolled-back"]
         /\ fate' \in [Clis -> Outcomes \cup {None}]
         /\ doing' = "undo" /\ cur' = N /\ step' = UndoStep(N)
         /\ step' \in {"remove", "rename", "next"}
         /\ UNCHANGED <<files, receipt>>
<1> USE DEF BeginUndo
<1>1. "rolling-back" \in Phases
  BY DEF Phases
<1>2. journal.tx \in Clis
  BY DEF TypeOK, Journals
<1>3. fate' \in [Clis -> Outcomes \cup {None}]
  BY <1>2 DEF TypeOK, Outcomes
<1>4. step' \in {"remove", "rename", "next"}
  BY SomePart DEF UndoStep
<1> QED
  BY <1>1, <1>2, <1>3, <1>4, PhaseWritten

LEMMA FinishBegins ==
  ASSUME TypeOK, journal # None, BeginFinish
  PROVE  /\ journal' \in Journals /\ journal' # None /\ Phase' = "finalizing"
         /\ journal'.tx = journal.tx /\ journal'.gen = journal.gen
         /\ journal'.orig = journal.orig /\ journal'.repl = journal.repl
         /\ journal.tx \in Clis /\ fate' = [fate EXCEPT ![journal.tx] = "completed"]
         /\ fate' \in [Clis -> Outcomes \cup {None}]
         /\ doing' = "finish" /\ cur' = 1 /\ step' = "drop"
         /\ UNCHANGED <<files, receipt>>
<1> USE DEF BeginFinish
<1>1. "finalizing" \in Phases
  BY DEF Phases
<1>2. journal.tx \in Clis
  BY DEF TypeOK, Journals
<1>3. fate' \in [Clis -> Outcomes \cup {None}]
  BY <1>2 DEF TypeOK, Outcomes
<1> QED
  BY <1>1, <1>2, <1>3, PhaseWritten

\* A process goes from one of its stages to another.
AtTyped ==
    /\ at \in [Actors -> ServerStages \cup CliStages]
    /\ at["server"] \in ServerStages /\ \A c \in Clis : at[c] \in CliStages

LEMMA StageTyped ==
  ASSUME AtTyped, NEW a \in Actors, NEW stage, at' = [at EXCEPT ![a] = stage],
         a = "server" => stage \in ServerStages,
         a \in Clis => stage \in CliStages
  PROVE  AtTyped'
BY ClisAssumption DEF AtTyped, Actors

LEMMA LoadedTyped ==
  ASSUME TypeOK, NEW a \in Actors, Loaded(a)
  PROVE  AtTyped' /\ cfg' \in Gens \cup {None}
<1>1. AtTyped /\ "loaded" \in ServerStages /\ "ready" \in CliStages
  BY DEF TypeOK, AtTyped, ServerStages, CliStages
<1>2. AtTyped'
  BY <1>1, StageTyped, ClisAssumption DEF Loaded, Actors
<1>3. cfg' \in Gens \cup {None}
  BY PartsAssumption DEF Loaded, TypeOK, Parts
<1> QED
  BY <1>2, <1>3

(* Control. *)

\* The recoveries a load may begin.
LoadRecovers(a) == LoadFinishes(a) \/ LoadUndoes(a)

LEMMA TypeStep ==
  ASSUME Control, [Next]_vars
  PROVE  TypeOK'
<1> USE PartsAssumption, GensAssumption, HasAssumption, ClisAssumption, OrdersAssumption, BoundsAssumption, NoneAssumption
<1> USE DEF disk, files, loop, server, history, bounds, Parts, Actors
<1> USE DEF Control, TypeOK, Holder, LoopShape
<1>1. CASE UNCHANGED vars
  BY <1>1 DEF vars
<1>2. CASE UndoRemove
  BY <1>2 DEF UndoRemove, Undoing, OnlyFiles, ServerStages, CliStages, Phases, Outcomes, Journals, Receipts, Phase
<1>3. CASE UndoRename
  <2>1. cur \in Parts
    BY <1>3 DEF UndoRename, Undoing
  <2>2. target' \in [Parts -> Gens \cup {None}]
    BY <1>3, <2>1 DEF UndoRename
  <2>3. previous' \in [Parts -> Gens \cup {None}]
    BY <1>3, <2>1 DEF UndoRename
  <2> QED
    BY <1>3, <2>1, <2>2, <2>3 DEF UndoRename, OnlyFiles
<1>4. CASE UndoDrop
  BY <1>4 DEF UndoDrop, Undoing, OnlyFiles, ServerStages, CliStages, Phases, Outcomes, Journals, Receipts, Phase
<1>5. CASE UndoNext
  BY <1>5 DEF UndoNext, Undoing, OnlyFiles, UndoStep, ServerStages, CliStages, Phases, Outcomes, Journals, Receipts, Phase
<1>6. CASE FinishDrop
  <2>1. cur \in Parts
    BY <1>6 DEF FinishDrop, Finishing
  <2>2. previous' \in [Parts -> Gens \cup {None}] /\ step' = "next"
    BY <1>6, <2>1 DEF FinishDrop
  <2> QED
    BY <1>6, <2>2 DEF FinishDrop, OnlyFiles
<1>7. CASE FinishNext
  <2>1. cur \in Parts
    BY <1>7 DEF FinishNext, Finishing
  <2>2. next' \in [Parts -> Gens \cup {None}] /\ cur' \in 0..(N + 1)
    BY <1>7, <2>1 DEF FinishNext
  <2> QED
    BY <1>7, <2>2 DEF FinishNext, OnlyFiles
<1>8. CASE Report
  BY <1>8 DEF Report, ServerStages, CliStages, Phases, Outcomes, Journals, Receipts, Phase
<1>9. CASE Close
  <2>1. lock \in Actors /\ at[lock] \in {"loading", "booting", "failing", "applying", "settling"}
    BY <1>9 DEF Close
  <2>2. CASE at[lock] = "loading"
    <3>1. AtTyped' /\ cfg' \in Gens \cup {None}
      BY <1>9, <2>1, <2>2, LoadedTyped DEF Close, AtTyped
    <3> QED
      BY <1>9, <2>1, <2>2, <3>1 DEF Close, Idle, AtTyped
  <2>3. CASE at[lock] # "loading"
    <3>1. lock = "server" => After(at[lock]) \in ServerStages
      BY <2>1, <2>3 DEF After, ServerStages
    <3>2. lock \in Clis => After(at[lock]) \in CliStages
      BY <2>1, <2>3 DEF After, CliStages
    <3>3. at' = [at EXCEPT ![lock] = After(at[lock])]
      BY <1>9, <2>3 DEF Close
    <3>4. AtTyped'
      BY <2>1, <3>1, <3>2, <3>3, StageTyped DEF AtTyped
    <3> QED
      BY <1>9, <2>1, <2>3, <3>4 DEF Close, Idle, AtTyped
  <2> QED
    BY <2>2, <2>3
<1>10. CASE Prepare
  BY <1>10 DEF Prepare, OnlyFiles, ServerStages, CliStages, Phases, Outcomes, Journals, Receipts, Phase
<1>11. CASE BeginApply
  <2>1. journal \in Journals /\ journal.gen \in Gens
    BY <1>11 DEF BeginApply, Journals
  <2>2. journal' \in Journals
    BY <1>11, <2>1 DEF BeginApply, Journals, Phases
  <2> QED
    BY <1>11, <2>2, SomePart DEF BeginApply
<1>12. CASE MoveAside
  <2>1. cur \in Parts
    BY <1>12 DEF MoveAside, Applying
  <2>2. target' \in [Parts -> Gens \cup {None}]
    BY <1>12, <2>1 DEF MoveAside
  <2>3. previous' \in [Parts -> Gens \cup {None}]
    BY <1>12, <2>1 DEF MoveAside
  <2> QED
    BY <1>12, <2>1, <2>2, <2>3 DEF MoveAside, OnlyFiles
<1>13. CASE PutIn
  <2>1. cur \in Parts
    BY <1>13 DEF PutIn, Applying
  <2>2. target' \in [Parts -> Gens \cup {None}]
    BY <1>13, <2>1 DEF PutIn
  <2>3. next' \in [Parts -> Gens \cup {None}]
    BY <1>13, <2>1 DEF PutIn
  <2> QED
    BY <1>13, <2>1, <2>2, <2>3 DEF PutIn, OnlyFiles
<1>14. CASE AwaitBoot
  <2>1. AtTyped'
    BY <1>14, StageTyped DEF AwaitBoot, AtTyped, CliStages
  <2>2. journal' \in Journals
    BY <1>14, PhaseWritten DEF AwaitBoot, Phases
  <2> QED
    BY <1>14, <2>1, <2>2 DEF AwaitBoot, Idle, AtTyped
<1>15. CASE ApplyFails
  <2>1. journal # None
    BY <1>15 DEF ApplyFails
  <2> QED
    BY <1>15, <2>1, UndoBegins, SomePart DEF ApplyFails
<1>16. ASSUME NEW a \in Actors, LoadsAsItIs(a) PROVE TypeOK'
  <2>1. AtTyped' /\ cfg' \in Gens \cup {None}
    BY <1>16, LoadedTyped DEF LoadsAsItIs, AtTyped
  <2> QED
    BY <1>16, <2>1 DEF LoadsAsItIs, AtTyped
<1>17. ASSUME NEW a \in Actors, LoadThrows(a) PROVE TypeOK'
  BY <1>17 DEF LoadThrows, HeldByServer, Goes, ServerStages, CliStages, Phases, Outcomes, Journals, Receipts, Phase
<1>18. ASSUME NEW a \in Actors, LoadRecovers(a) PROVE TypeOK'
  <2>1. journal # None
    BY <1>18 DEF LoadRecovers, LoadFinishes, LoadUndoes, Phase
  <2>2. CASE Phase = "finalizing"
    BY <1>18, <2>1, <2>2, FinishBegins, SomePart DEF LoadRecovers, LoadFinishes, LoadUndoes, Crosses
  <2>3. CASE Phase # "finalizing"
    <3>1. gap' \in BOOLEAN /\ cfg' \in Gens \cup {None}
      BY <1>18, <2>3 DEF LoadRecovers, LoadFinishes, LoadUndoes, Crosses
    <3>2. BeginUndo /\ lock' = a /\ UNCHANGED <<at, asked, enabled, byHand, misled, bounds>>
      BY <1>18, <2>3 DEF LoadRecovers, LoadFinishes, LoadUndoes
    <3> QED
      BY <3>1, <3>2, <2>1, UndoBegins, SomePart
  <2> QED
    BY <2>2, <2>3
<1>19. ASSUME NEW a \in Actors, Crash(a) PROVE TypeOK'
  BY <1>19 DEF Crash, Dies, Release, Idle, Gone, ServerStages, CliStages, Phases, Outcomes, Journals, Receipts, Phase
<1>20. CASE Spawn
  <2>1. AtTyped'
    BY <1>20, StageTyped DEF Spawn, Goes, AtTyped, ServerStages
  <2> QED
    BY <1>20, <2>1 DEF Spawn, AtTyped
<1>21. CASE ServerLocks
  <2>1. AtTyped'
    BY <1>21, StageTyped DEF ServerLocks, Goes, AtTyped, ServerStages, CliStages
  <2> QED
    BY <1>21, <2>1 DEF ServerLocks, Goes, AtTyped, Phases, Outcomes, Journals, Receipts, Phase
<1>22. CASE BootConfirms
  <2>1. journal # None
    BY <1>22 DEF BootConfirms, Phase
  <2> QED
    BY <1>22, <2>1, FinishBegins, SomePart DEF BootConfirms
<1>23. CASE BootServes
  BY <1>23 DEF BootServes, Booting, Goes, ServerStages, CliStages, Phases, Outcomes, Journals, Receipts, Phase
<1>24. CASE BootFails
  <2>1. AtTyped'
    BY <1>24, StageTyped DEF BootFails, Goes, AtTyped, ServerStages
  <2>2. CASE Phase \notin {"none", "finalizing"}
    <3>1. journal # None
      BY <2>2 DEF Phase
    <3> QED
      BY <1>24, <2>1, <2>2, <3>1, UndoBegins, SomePart DEF BootFails, AtTyped
  <2>3. CASE Phase \in {"none", "finalizing"}
    BY <1>24, <2>1, <2>3 DEF BootFails, Release, AtTyped
  <2> QED
    BY <2>2, <2>3
<1>25. CASE ManagerStops
  BY <1>25 DEF ManagerStops, Dies, Release, Idle, ServerStages, CliStages, Phases, Outcomes, Journals, Receipts, Phase
<1>26. CASE HandEnables
  BY <1>26 DEF HandEnables, ServerStages, CliStages, Phases, Outcomes, Journals, Receipts, Phase
<1>27. CASE HandStarts
  <2>1. AtTyped'
    BY <1>27, StageTyped DEF HandStarts, Goes, AtTyped, ServerStages
  <2>2. hands' \in 0..MaxHands
    BY <1>27 DEF HandStarts
  <2> QED
    BY <1>27, <2>1, <2>2 DEF HandStarts, AtTyped
<1>28. ASSUME NEW c \in Clis, CliBegins(c) PROVE TypeOK'
  BY <1>28 DEF CliBegins, Steps, Goes, ServerStages, CliStages, Phases, Outcomes, Journals, Receipts, Phase
<1>29. ASSUME NEW c \in Clis, CliPlans(c) PROVE TypeOK'
  <2>1. AtTyped'
    BY <1>29, StageTyped DEF CliPlans, Steps, Goes, HeldByServer, AtTyped, ServerStages, CliStages
  <2> QED
    BY <1>29, <2>1 DEF CliPlans, Steps, Goes, HeldByServer, AtTyped, Phases, Outcomes, Journals, Receipts, Phase
<1>30. ASSUME NEW c \in Clis, CliStops(c) PROVE TypeOK'
  <2>1. AtTyped'
    BY <1>30, StageTyped DEF CliStops, Goes, AtTyped, ServerStages, CliStages
  <2>2. enabled' \in BOOLEAN
    BY <1>30 DEF CliStops
  <2>3. UNCHANGED <<Steps, lock>>
    BY <1>30 DEF CliStops
  <2> QED
    BY <2>1, <2>2, <2>3 DEF Steps, AtTyped
<1>31. ASSUME NEW c \in Clis, CliSeesOffline(c) PROVE TypeOK'
  BY <1>31 DEF CliSeesOffline, Steps, Goes, ServerStages, CliStages, Phases, Outcomes, Journals, Receipts, Phase
<1>32. ASSUME NEW c \in Clis, CliLocks(c) PROVE TypeOK'
  BY <1>32 DEF CliLocks, Steps, Goes, ServerStages, CliStages, Phases, Outcomes, Journals, Receipts, Phase
<1>33. ASSUME NEW c \in Clis, CliRefuses(c) PROVE TypeOK'
  BY <1>33 DEF CliRefuses, Steps, Release, ServerStages, CliStages, Phases, Outcomes, Journals, Receipts, Phase
<1>34. ASSUME NEW c \in Clis, WriteJournal(c) PROVE TypeOK'
  BY <1>34 DEF WriteJournal, Crosses, Goes, ServerStages, CliStages, Phases, Outcomes, Journals, Receipts, Phase
<1>35. ASSUME NEW c \in Clis, CliReleases(c) PROVE TypeOK'
  BY <1>35 DEF CliReleases, Steps, Goes, ServerStages, CliStages, Phases, Outcomes, Journals, Receipts, Phase
<1>36. ASSUME NEW c \in Clis, CleanupFails(c) PROVE TypeOK'
  BY <1>36 DEF CleanupFails, Goes, ServerStages, CliStages, Phases, Outcomes, Journals, Receipts, Phase
<1>37. ASSUME NEW c \in Clis, CliStarts(c) PROVE TypeOK'
  BY <1>37 DEF CliStarts, Steps, Goes, ServerStages, CliStages, Phases, Outcomes, Journals, Receipts, Phase
<1>38. ASSUME NEW c \in Clis, CliConfirms(c) PROVE TypeOK'
  BY <1>38 DEF CliConfirms, Steps, Goes, ServerStages, CliStages, Phases, Outcomes, Journals, Receipts, Phase
<1>39. ASSUME NEW c \in Clis, CliFails(c) PROVE TypeOK'
  BY <1>39 DEF CliFails, Steps, Goes, ServerStages, CliStages, Phases, Outcomes, Journals, Receipts, Phase
<1>40. ASSUME NEW c \in Clis, CliStopsAgain(c) PROVE TypeOK'
  <2>1. AtTyped'
    BY <1>40, StageTyped DEF CliStopsAgain, Goes, AtTyped, ServerStages, CliStages
  <2>2. enabled' \in BOOLEAN
    BY <1>40 DEF CliStopsAgain
  <2>3. UNCHANGED <<Steps, lock>>
    BY <1>40 DEF CliStopsAgain
  <2> QED
    BY <2>1, <2>2, <2>3 DEF Steps, AtTyped
<1>41. ASSUME NEW c \in Clis, CliUndoes(c) PROVE TypeOK'
  <2>1. journal # None
    BY <1>41 DEF CliUndoes, Crosses, Phase
  <2> QED
    BY <1>41, <2>1, UndoBegins, SomePart DEF CliUndoes, Crosses
<1>42. ASSUME NEW c \in Clis, CliFindsNone(c) PROVE TypeOK'
  BY <1>42 DEF CliFindsNone, Settling, Goes, ServerStages, CliStages, Phases, Outcomes, Journals, Receipts, Phase
<1>43. ASSUME NEW c \in Clis, CliLeavesIt(c) PROVE TypeOK'
  BY <1>43 DEF CliLeavesIt, Steps, Goes, ServerStages, CliStages, Phases, Outcomes, Journals, Receipts, Phase
<1> QED
  BY <1>1, <1>2, <1>3, <1>4, <1>5, <1>6, <1>7, <1>8, <1>9, <1>10, <1>11, <1>12, <1>13, <1>14,
     <1>15, <1>16, <1>17, <1>18, <1>19, <1>20, <1>21, <1>22, <1>23, <1>24, <1>25, <1>26, <1>27,
     <1>28, <1>29, <1>30, <1>31, <1>32, <1>33, <1>34, <1>35, <1>36, <1>37, <1>38, <1>39, <1>40,
     <1>41, <1>42, <1>43
  DEF Next, LoopStep, Load, LoadRecovers, Boot, CliStep

LEMMA HolderStep ==
  ASSUME Control, [Next]_vars
  PROVE  Holder'
<1> USE PartsAssumption, GensAssumption, HasAssumption, ClisAssumption, OrdersAssumption, BoundsAssumption, NoneAssumption
<1> USE DEF disk, files, loop, server, history, bounds, Parts, Actors
<1> USE DEF Control, TypeOK, Holder, LoopShape
<1>1. CASE UNCHANGED vars
  BY <1>1 DEF vars
<1>2. CASE UndoRemove
  BY <1>2 DEF UndoRemove, Undoing, OnlyFiles
<1>3. CASE UndoRename
  BY <1>3 DEF UndoRename, Undoing, OnlyFiles
<1>4. CASE UndoDrop
  BY <1>4 DEF UndoDrop, Undoing, OnlyFiles
<1>5. CASE UndoNext
  BY <1>5 DEF UndoNext, Undoing, OnlyFiles, UndoStep
<1>6. CASE FinishDrop
  BY <1>6 DEF FinishDrop, Finishing, OnlyFiles
<1>7. CASE FinishNext
  BY <1>7 DEF FinishNext, Finishing, OnlyFiles
<1>8. CASE Report
  BY <1>8 DEF Report
<1>9. CASE Close
  BY <1>9 DEF Close, Idle, Loaded, After
<1>10. CASE Prepare
  BY <1>10 DEF Prepare, OnlyFiles
<1>11. CASE BeginApply
  BY <1>11 DEF BeginApply, WritePhase
<1>12. CASE MoveAside
  BY <1>12 DEF MoveAside, Applying, OnlyFiles
<1>13. CASE PutIn
  BY <1>13 DEF PutIn, Applying, OnlyFiles
<1>14. CASE AwaitBoot
  BY <1>14 DEF AwaitBoot, WritePhase, Idle
<1>15. CASE ApplyFails
  BY <1>15 DEF ApplyFails, BeginUndo, WritePhase, UndoStep
<1>16. ASSUME NEW a \in Actors, LoadsAsItIs(a) PROVE Holder'
  BY <1>16 DEF LoadsAsItIs, Loaded, HeldByServer
<1>17. ASSUME NEW a \in Actors, LoadThrows(a) PROVE Holder'
  BY <1>17 DEF LoadThrows, HeldByServer, Goes
<1>18. ASSUME NEW a \in Actors, LoadRecovers(a) PROVE Holder'
  BY <1>18 DEF LoadRecovers, LoadFinishes, LoadUndoes, BeginUndo, BeginFinish, WritePhase, UndoStep
<1>19. ASSUME NEW a \in Actors, Crash(a) PROVE Holder'
  BY <1>19 DEF Crash, Dies, Release, Idle, Gone
<1>20. CASE Spawn
  BY <1>20 DEF Spawn, Goes
<1>21. CASE ServerLocks
  BY <1>21 DEF ServerLocks, Goes
<1>22. CASE BootConfirms
  BY <1>22 DEF BootConfirms, Booting, BeginFinish, WritePhase
<1>23. CASE BootServes
  BY <1>23 DEF BootServes, Booting, Goes
<1>24. CASE BootFails
  <2>1. CASE Phase \notin {"none", "finalizing"}
    BY <1>24, <2>1 DEF BootFails, Booting, Goes
  <2>2. CASE Phase \in {"none", "finalizing"}
    BY <1>24, <2>2 DEF BootFails, Booting, Goes, Release
  <2> QED
    BY <2>1, <2>2
<1>25. CASE ManagerStops
  BY <1>25 DEF ManagerStops, Dies, Release, Idle
<1>26. CASE HandEnables
  BY <1>26 DEF HandEnables
<1>27. CASE HandStarts
  BY <1>27 DEF HandStarts, Goes
<1>28. ASSUME NEW c \in Clis, CliBegins(c) PROVE Holder'
  BY <1>28 DEF CliBegins, Steps, Goes
<1>29. ASSUME NEW c \in Clis, CliPlans(c) PROVE Holder'
  BY <1>29 DEF CliPlans, Steps, Goes, HeldByServer
<1>30. ASSUME NEW c \in Clis, CliStops(c) PROVE Holder'
  BY <1>30 DEF CliStops, Steps, Goes
<1>31. ASSUME NEW c \in Clis, CliSeesOffline(c) PROVE Holder'
  BY <1>31 DEF CliSeesOffline, Steps, Goes
<1>32. ASSUME NEW c \in Clis, CliLocks(c) PROVE Holder'
  BY <1>32 DEF CliLocks, Steps, Goes
<1>33. ASSUME NEW c \in Clis, CliRefuses(c) PROVE Holder'
  BY <1>33 DEF CliRefuses, Steps, Release
<1>34. ASSUME NEW c \in Clis, WriteJournal(c) PROVE Holder'
  BY <1>34 DEF WriteJournal, Goes
<1>35. ASSUME NEW c \in Clis, CliReleases(c) PROVE Holder'
  BY <1>35 DEF CliReleases, Steps, Goes
<1>36. ASSUME NEW c \in Clis, CleanupFails(c) PROVE Holder'
  BY <1>36 DEF CleanupFails, Goes
<1>37. ASSUME NEW c \in Clis, CliStarts(c) PROVE Holder'
  BY <1>37 DEF CliStarts, Steps, Goes
<1>38. ASSUME NEW c \in Clis, CliConfirms(c) PROVE Holder'
  BY <1>38 DEF CliConfirms, Steps, Goes
<1>39. ASSUME NEW c \in Clis, CliFails(c) PROVE Holder'
  BY <1>39 DEF CliFails, Steps, Goes
<1>40. ASSUME NEW c \in Clis, CliStopsAgain(c) PROVE Holder'
  BY <1>40 DEF CliStopsAgain, Steps, Goes
<1>41. ASSUME NEW c \in Clis, CliUndoes(c) PROVE Holder'
  BY <1>41 DEF CliUndoes, Settling, BeginUndo, WritePhase, UndoStep
<1>42. ASSUME NEW c \in Clis, CliFindsNone(c) PROVE Holder'
  BY <1>42 DEF CliFindsNone, Settling, Goes
<1>43. ASSUME NEW c \in Clis, CliLeavesIt(c) PROVE Holder'
  BY <1>43 DEF CliLeavesIt, Steps, Goes
<1> QED
  BY <1>1, <1>2, <1>3, <1>4, <1>5, <1>6, <1>7, <1>8, <1>9, <1>10, <1>11, <1>12, <1>13, <1>14,
     <1>15, <1>16, <1>17, <1>18, <1>19, <1>20, <1>21, <1>22, <1>23, <1>24, <1>25, <1>26, <1>27,
     <1>28, <1>29, <1>30, <1>31, <1>32, <1>33, <1>34, <1>35, <1>36, <1>37, <1>38, <1>39, <1>40,
     <1>41, <1>42, <1>43
  DEF Next, LoopStep, Load, LoadRecovers, Boot, CliStep

LEMMA LoopShapeStep ==
  ASSUME Control, [Next]_vars
  PROVE  LoopShape'
<1> USE PartsAssumption, GensAssumption, HasAssumption, ClisAssumption, OrdersAssumption, BoundsAssumption, NoneAssumption
<1> USE DEF disk, files, loop, server, history, bounds, Parts, Actors
<1> USE DEF Control, TypeOK, Holder, LoopShape
<1>1. CASE UNCHANGED vars
  BY <1>1 DEF vars, Phase
<1>2. CASE UndoRemove
  BY <1>2 DEF UndoRemove, Undoing, OnlyFiles, Phase, Journals, Phases
<1>3. CASE UndoRename
  BY <1>3 DEF UndoRename, Undoing, OnlyFiles, Phase, Journals, Phases
<1>4. CASE UndoDrop
  BY <1>4 DEF UndoDrop, Undoing, OnlyFiles, Phase, Journals, Phases
<1>5. CASE UndoNext
  BY <1>5 DEF UndoNext, Undoing, OnlyFiles, UndoStep, Phase, Journals, Phases
<1>6. CASE FinishDrop
  BY <1>6 DEF FinishDrop, Finishing, OnlyFiles, Phase, Journals, Phases
<1>7. CASE FinishNext
  <2>1. doing = "finish" /\ cur \in Parts /\ lock # None
    BY <1>7 DEF FinishNext, Finishing
  <2>2. cur' \in 1..(N + 1) /\ (cur' = N + 1 <=> step' \in {"report", "close"}) /\ step' \in {"drop", "report"}
    BY <1>7, <2>1 DEF FinishNext
  <2> QED
    BY <1>7, <2>1, <2>2 DEF FinishNext, OnlyFiles, Phase
<1>8. CASE Report
  BY <1>8 DEF Report, Phase, Journals, Phases
<1>9. CASE Close
  BY <1>9 DEF Close, Idle, Loaded, After, Phase, Journals, Phases
<1>10. CASE Prepare
  BY <1>10 DEF Prepare, OnlyFiles, Phase, Journals, Phases
<1>11. CASE BeginApply
  <2>1. journal \in Journals /\ journal' \in Journals /\ journal'.phase = "applying"
    BY <1>11 DEF BeginApply, Journals, Phases
  <2>2. journal' # None
    BY <2>1
  <2> QED
    BY <1>11, <2>1, <2>2, SomePart DEF BeginApply, Phase
<1>12. CASE MoveAside
  BY <1>12 DEF MoveAside, Applying, OnlyFiles, Phase, Journals, Phases
<1>13. CASE PutIn
  BY <1>13 DEF PutIn, Applying, OnlyFiles, Phase, Journals, Phases
<1>14. CASE AwaitBoot
  BY <1>14 DEF AwaitBoot, WritePhase, Idle, Phase, Journals, Phases
<1>15. CASE ApplyFails
  <2>1. journal # None
    BY <1>15 DEF ApplyFails
  <2> QED
    BY <1>15, <2>1, UndoBegins, SomePart DEF ApplyFails
<1>16. ASSUME NEW a \in Actors, LoadsAsItIs(a) PROVE LoopShape'
  BY <1>16 DEF LoadsAsItIs, Loaded, HeldByServer, Phase, Journals, Phases
<1>17. ASSUME NEW a \in Actors, LoadThrows(a) PROVE LoopShape'
  BY <1>17 DEF LoadThrows, HeldByServer, Goes, Phase, Journals, Phases
<1>18. ASSUME NEW a \in Actors, LoadRecovers(a) PROVE LoopShape'
  <2>1. journal # None
    BY <1>18 DEF LoadRecovers, LoadFinishes, LoadUndoes, Phase
  <2>2. CASE Phase = "finalizing"
    BY <1>18, <2>1, <2>2, FinishBegins, SomePart DEF LoadRecovers, LoadFinishes, LoadUndoes
  <2>3. CASE Phase # "finalizing"
    BY <1>18, <2>1, <2>3, UndoBegins, SomePart DEF LoadRecovers, LoadFinishes, LoadUndoes
  <2> QED
    BY <2>2, <2>3
<1>19. ASSUME NEW a \in Actors, Crash(a) PROVE LoopShape'
  BY <1>19 DEF Crash, Dies, Release, Idle, Gone, Phase, Journals, Phases
<1>20. CASE Spawn
  BY <1>20 DEF Spawn, Goes, Phase, Journals, Phases
<1>21. CASE ServerLocks
  BY <1>21 DEF ServerLocks, Goes, Phase, Journals, Phases
<1>22. CASE BootConfirms
  <2>1. journal # None
    BY <1>22 DEF BootConfirms, Booting, Phase
  <2> QED
    BY <1>22, <2>1, FinishBegins, SomePart DEF BootConfirms, Booting
<1>23. CASE BootServes
  BY <1>23 DEF BootServes, Booting, Goes, Phase, Journals, Phases
<1>24. CASE BootFails
  <2>1. CASE Phase \notin {"none", "finalizing"}
    <3>1. journal # None
      BY <2>1 DEF Phase
    <3> QED
      BY <1>24, <2>1, <3>1, UndoBegins, SomePart DEF BootFails, Booting, Goes
  <2>2. CASE Phase \in {"none", "finalizing"}
    BY <1>24, <2>2 DEF BootFails, Booting, Goes, Release
  <2> QED
    BY <2>1, <2>2
<1>25. CASE ManagerStops
  BY <1>25 DEF ManagerStops, Dies, Release, Idle, Phase, Journals, Phases
<1>26. CASE HandEnables
  BY <1>26 DEF HandEnables, Phase, Journals, Phases
<1>27. CASE HandStarts
  BY <1>27 DEF HandStarts, Goes, Phase, Journals, Phases
<1>28. ASSUME NEW c \in Clis, CliBegins(c) PROVE LoopShape'
  BY <1>28 DEF CliBegins, Steps, Goes, Phase, Journals, Phases
<1>29. ASSUME NEW c \in Clis, CliPlans(c) PROVE LoopShape'
  BY <1>29 DEF CliPlans, Steps, Goes, HeldByServer, Phase, Journals, Phases
<1>30. ASSUME NEW c \in Clis, CliStops(c) PROVE LoopShape'
  BY <1>30 DEF CliStops, Steps, Goes, Phase, Journals, Phases
<1>31. ASSUME NEW c \in Clis, CliSeesOffline(c) PROVE LoopShape'
  BY <1>31 DEF CliSeesOffline, Steps, Goes, Phase, Journals, Phases
<1>32. ASSUME NEW c \in Clis, CliLocks(c) PROVE LoopShape'
  BY <1>32 DEF CliLocks, Steps, Goes, Phase, Journals, Phases
<1>33. ASSUME NEW c \in Clis, CliRefuses(c) PROVE LoopShape'
  BY <1>33 DEF CliRefuses, Steps, Release, Phase, Journals, Phases
<1>34. ASSUME NEW c \in Clis, WriteJournal(c) PROVE LoopShape'
  BY <1>34 DEF WriteJournal, Goes, Phase, Journals, Phases
<1>35. ASSUME NEW c \in Clis, CliReleases(c) PROVE LoopShape'
  BY <1>35 DEF CliReleases, Steps, Goes, Phase, Journals, Phases
<1>36. ASSUME NEW c \in Clis, CleanupFails(c) PROVE LoopShape'
  BY <1>36 DEF CleanupFails, Goes, Phase, Journals, Phases
<1>37. ASSUME NEW c \in Clis, CliStarts(c) PROVE LoopShape'
  BY <1>37 DEF CliStarts, Steps, Goes, Phase, Journals, Phases
<1>38. ASSUME NEW c \in Clis, CliConfirms(c) PROVE LoopShape'
  BY <1>38 DEF CliConfirms, Steps, Goes, Phase, Journals, Phases
<1>39. ASSUME NEW c \in Clis, CliFails(c) PROVE LoopShape'
  BY <1>39 DEF CliFails, Steps, Goes, Phase, Journals, Phases
<1>40. ASSUME NEW c \in Clis, CliStopsAgain(c) PROVE LoopShape'
  BY <1>40 DEF CliStopsAgain, Steps, Goes, Phase, Journals, Phases
<1>41. ASSUME NEW c \in Clis, CliUndoes(c) PROVE LoopShape'
  <2>1. journal # None
    BY <1>41 DEF CliUndoes, Settling, Phase
  <2> QED
    BY <1>41, <2>1, UndoBegins, SomePart DEF CliUndoes, Settling
<1>42. ASSUME NEW c \in Clis, CliFindsNone(c) PROVE LoopShape'
  BY <1>42 DEF CliFindsNone, Settling, Goes, Phase, Journals, Phases
<1>43. ASSUME NEW c \in Clis, CliLeavesIt(c) PROVE LoopShape'
  BY <1>43 DEF CliLeavesIt, Steps, Goes, Phase, Journals, Phases
<1> QED
  BY <1>1, <1>2, <1>3, <1>4, <1>5, <1>6, <1>7, <1>8, <1>9, <1>10, <1>11, <1>12, <1>13, <1>14,
     <1>15, <1>16, <1>17, <1>18, <1>19, <1>20, <1>21, <1>22, <1>23, <1>24, <1>25, <1>26, <1>27,
     <1>28, <1>29, <1>30, <1>31, <1>32, <1>33, <1>34, <1>35, <1>36, <1>37, <1>38, <1>39, <1>40,
     <1>41, <1>42, <1>43
  DEF Next, LoopStep, Load, LoadRecovers, Boot, CliStep

-----------------------------------------------------------------------------
(* The files.  A step either leaves what stands and what it would be undone *)
(* to as they were, or is one of the three steps of AtomicRestore.          *)

Same == UNCHANGED <<Installed, ToUndo>>
Atomically == Same \/ Atomic!Install \/ Atomic!Keep \/ Atomic!GoBack

LEMMA WholeStep ==
  ASSUME WholeInv, Atomically,
         Phase' = "pending-boot" => (Phase = "pending-boot" /\ Same) \/ Atomic!Install
  PROVE  WholeInv'
<1>1. Installed' \in Instances
  <2>1. Atomic!GoBack => Phase = "pending-boot" /\ ToUndo = Undone
    BY DEF Atomic!GoBack, ToUndo
  <2> QED
    BY <2>1 DEF Atomically, Same, WholeInv, Atomic!Install, Atomic!Keep, Atomic!GoBack
<1>2. ASSUME Phase' = "pending-boot" PROVE Undone' \in Instances
  <2>1. Undone' = ToUndo'
    BY <1>2 DEF ToUndo
  <2>2. CASE Atomic!Install
    BY <2>1, <2>2 DEF Atomic!Install, WholeInv
  <2>3. CASE Phase = "pending-boot" /\ Same
    BY <2>1, <2>3 DEF WholeInv, Same, ToUndo
  <2> QED
    BY <1>2, <2>2, <2>3
<1> QED
  BY <1>1, <1>2 DEF WholeInv

\* Steps that touch neither the files nor the journal, a death included.
LEMMA ControlKeepsFiles ==
  ASSUME FilesInv, UNCHANGED <<files, journal>>,
         UNCHANGED loop \/ doing' = "nothing"
  PROVE  FilesInv' /\ Same
<1> USE DEF files, loop
<1>1. Phase' = Phase /\ Installed' = Installed /\ ToUndo' = ToUndo /\ Undone' = Undone
  BY DEF Phase, Installed, ToUndo, Stands, Undone, Back, InstalledNew
<1>2. JournalInv' /\ WholeInv'
  BY <1>1 DEF FilesInv, JournalInv, WholeInv, Files
<1>3. ApplyInv' /\ UndoInv' /\ FinishInv'
  BY DEF FilesInv, ApplyInv, UndoInv, FinishInv, UndoneAt, InstalledNew, Files
<1> QED
  BY <1>1, <1>2, <1>3 DEF FilesInv, Same

\* Where what a failed boot would find stays as it is, component by component,
\* and the phase does not end or complete an apply, nothing happens to the instance.
LEMMA BackIsEnough ==
  ASSUME \A i \in Parts : Back(i)' = Back(i), ~Stands, ~Stands'
  PROVE  Same
<1>1. Undone' = Undone
  BY DEF Undone
<1> QED
  BY <1>1 DEF Same, Installed, ToUndo, Stands

LEMMA UndoRemoveFiles ==
  ASSUME Control, FilesInv, UndoRemove
  PROVE  FilesInv' /\ Same
<1> USE DEF Undoing, OnlyFiles, Parts
<1>1. /\ doing = "undo" /\ step = "remove" /\ cur \in Parts /\ Phase = "rolling-back"
      /\ target' = [target EXCEPT ![cur] = None] /\ target \in [Parts -> Gens \cup {None}]
      /\ step' = IF previous[cur] # None THEN "rename" ELSE "next"
      /\ UNCHANGED <<previous, next, journal, doing, cur>>
  BY DEF UndoRemove, Control, LoopShape, TypeOK
<1>2. Phase' = Phase
  BY <1>1 DEF Phase
<1>3. JournalInv'
  BY <1>1, <1>2 DEF FilesInv, JournalInv, Phase
<1>4. UndoInv'
  BY <1>1 DEF FilesInv, UndoInv, UndoneAt, InstalledNew
<1>5. ApplyInv' /\ FinishInv'
  BY <1>1 DEF ApplyInv, FinishInv
<1>6. \A i \in Parts : Back(i)' = Back(i)
  BY <1>1 DEF Back, InstalledNew, FilesInv, UndoInv
<1>7. Same
  BY <1>1, <1>2, <1>6, BackIsEnough DEF Stands
<1>8. WholeInv'
  BY <1>1, <1>2, <1>7, WholeStep DEF FilesInv, Atomically
<1> QED
  BY <1>3, <1>4, <1>5, <1>7, <1>8 DEF FilesInv

LEMMA UndoRenameFiles ==
  ASSUME Control, FilesInv, UndoRename
  PROVE  FilesInv' /\ Same
<1> USE DEF Undoing, OnlyFiles, Parts
<1>1. /\ doing = "undo" /\ step = "rename" /\ cur \in Parts /\ Phase = "rolling-back"
      /\ previous[cur] # None
      /\ target \in [Parts -> Gens \cup {None}] /\ previous \in [Parts -> Gens \cup {None}]
      /\ step' = "drop"
      /\ UNCHANGED <<next, journal, doing, cur>>
  BY DEF UndoRename, Control, LoopShape, TypeOK, FilesInv, UndoInv
<1>2. Phase' = Phase
  BY <1>1 DEF Phase
<1>3. /\ \A i \in Parts : i # cur => target'[i] = target[i] /\ previous'[i] = previous[i]
      /\ target'[cur] = previous[cur] /\ previous'[cur] \in {None, previous[cur]}
  BY <1>1 DEF UndoRename
<1>4. cur \in journal.orig
  BY <1>1 DEF FilesInv, JournalInv
<1>5. JournalInv'
  <2>1. journal # None /\ journal' # None
    BY <1>1 DEF Phase
  <2>2. ASSUME NEW i \in Parts, previous'[i] # None PROVE i \in journal'.orig
    BY <1>1, <1>3, <1>4, <2>2 DEF FilesInv, JournalInv
  <2>3. ASSUME NEW i \in journal'.repl \ journal'.orig, next'[i] # None PROVE target'[i] = None
    <3>1. i # cur /\ i \in Parts
      BY <1>1, <1>4, <2>1 DEF Control, TypeOK, Journals
    <3> QED
      BY <1>1, <1>3, <2>3, <3>1 DEF FilesInv, JournalInv
  <2> QED
    BY <1>1, <1>2, <2>1, <2>2, <2>3 DEF JournalInv
<1>6. UndoInv'
  <2>1. ASSUME NEW i \in Parts, i > cur PROVE UndoneAt(i)'
    BY <1>1, <1>3, <2>1 DEF FilesInv, UndoInv, UndoneAt
  <2> QED
    BY <1>1, <1>3, <1>4, <2>1 DEF UndoInv
<1>7. ApplyInv' /\ FinishInv'
  BY <1>1 DEF ApplyInv, FinishInv
<1>8. ASSUME NEW i \in Parts PROVE Back(i)' = Back(i)
  BY <1>1, <1>3, <1>4 DEF Back, InstalledNew
<1>9. Same
  BY <1>1, <1>2, <1>8, BackIsEnough DEF Stands
<1>10. WholeInv'
  BY <1>1, <1>2, <1>9, WholeStep DEF FilesInv, Atomically
<1> QED
  BY <1>5, <1>6, <1>7, <1>9, <1>10 DEF FilesInv

LEMMA UndoDropFiles ==
  ASSUME Control, FilesInv, UndoDrop
  PROVE  FilesInv' /\ Same
<1> USE DEF Undoing, OnlyFiles, Parts
<1>1. /\ doing = "undo" /\ step = "drop" /\ cur \in Parts /\ Phase = "rolling-back"
      /\ previous' = [previous EXCEPT ![cur] = None] /\ previous \in [Parts -> Gens \cup {None}]
      /\ step' = "next"
      /\ UNCHANGED <<target, next, journal, doing, cur>>
  BY DEF UndoDrop, Control, LoopShape, TypeOK
<1>2. Phase' = Phase
  BY <1>1 DEF Phase
<1>3. cur \in journal.orig /\ (previous[cur] # None => target[cur] = previous[cur])
  BY <1>1 DEF FilesInv, UndoInv
<1>4. JournalInv'
  BY <1>1, <1>2 DEF FilesInv, JournalInv, Phase
<1>5. UndoInv'
  BY <1>1, <1>3 DEF FilesInv, UndoInv, UndoneAt
<1>6. ApplyInv' /\ FinishInv'
  BY <1>1 DEF ApplyInv, FinishInv
<1>7. ASSUME NEW i \in Parts PROVE Back(i)' = Back(i)
  BY <1>1, <1>3 DEF Back, InstalledNew
<1>8. Same
  BY <1>1, <1>2, <1>7, BackIsEnough DEF Stands
<1>9. WholeInv'
  BY <1>1, <1>2, <1>8, WholeStep DEF FilesInv, Atomically
<1> QED
  BY <1>4, <1>5, <1>6, <1>8, <1>9 DEF FilesInv

\* The first step of the undo at a component asks for what is there.
LEMMA UndoStepFits ==
  ASSUME NEW i \in Parts,
         i \in journal.repl \ journal.orig /\ next[i] # None => target[i] = None
  PROVE  /\ UndoStep(i) \in {"remove", "rename", "next"}
         /\ (UndoStep(i) = "remove" /\ previous[i] = None) => i \notin journal.orig /\ InstalledNew(i)
         /\ UndoStep(i) = "rename" => previous[i] # None
         /\ UndoStep(i) = "next" => UndoneAt(i)
<1>1. i # 0
  BY DEF Parts
<1> QED
  BY <1>1 DEF UndoStep, UndoneAt, InstalledNew

LEMMA UndoNextFiles ==
  ASSUME Control, FilesInv, UndoNext
  PROVE  FilesInv' /\ Same
<1> USE DEF Undoing, OnlyFiles, Parts
<1>1. /\ doing = "undo" /\ step = "next" /\ cur \in Parts /\ Phase = "rolling-back"
      /\ next' = [next EXCEPT ![cur] = None] /\ next \in [Parts -> Gens \cup {None}]
      /\ cur' = cur - 1 /\ step' = UndoStep(cur - 1)
      /\ UndoneAt(cur)
      /\ UNCHANGED <<target, previous, journal, doing>>
  BY DEF UndoNext, Control, LoopShape, TypeOK, FilesInv, UndoInv
<1>2. Phase' = Phase
  BY <1>1 DEF Phase
<1>3. JournalInv'
  BY <1>1, <1>2 DEF FilesInv, JournalInv, Phase
<1>4. UndoInv'
  <2>1. ASSUME NEW i \in Parts, i > cur' PROVE UndoneAt(i)'
    <3>1. i = cur \/ i > cur
      BY <1>1, <2>1, PartsAssumption
    <3> QED
      BY <1>1, <3>1 DEF FilesInv, UndoInv, UndoneAt
  <2>2. CASE cur' = 0
    <3>1. step' = "report"
      BY <1>1, <2>2 DEF UndoStep
    <3> QED
      BY <2>1, <3>1 DEF UndoInv
  <2>3. CASE cur' # 0
    <3>1. cur' \in Parts /\ cur' # cur
      BY <1>1, <2>3, PartsAssumption
    <3>2. step' = UndoStep(cur')
      BY <1>1
    <3>3. cur' \in journal.repl \ journal.orig /\ next[cur'] # None => target[cur'] = None
      BY <1>1, <3>1 DEF FilesInv, JournalInv
    <3>4. /\ step' \in {"remove", "rename", "next"}
          /\ (step' = "remove" /\ previous[cur'] = None) => cur' \notin journal.orig /\ InstalledNew(cur')
          /\ step' = "rename" => previous[cur'] # None
          /\ step' = "next" => UndoneAt(cur')
      BY <3>1, <3>2, <3>3, UndoStepFits
    <3>5. next'[cur'] = next[cur']
      BY <1>1, <3>1
    <3>6. step' = "next" => UndoneAt(cur)'
      BY <1>1, <3>4 DEF UndoneAt
    <3>7. (step' = "remove" /\ previous'[cur'] = None) => cur' \notin journal'.orig /\ InstalledNew(cur)'
      BY <1>1, <3>4, <3>5 DEF InstalledNew
    <3> QED
      BY <1>1, <2>1, <3>4, <3>6, <3>7 DEF UndoInv
  <2> QED
    BY <2>2, <2>3
<1>5. ApplyInv' /\ FinishInv'
  BY <1>1 DEF ApplyInv, FinishInv
<1>6. ASSUME NEW i \in Parts PROVE Back(i)' = Back(i)
  BY <1>1 DEF Back, InstalledNew, UndoneAt
<1>7. Same
  BY <1>1, <1>2, <1>6, BackIsEnough DEF Stands
<1>8. WholeInv'
  BY <1>1, <1>2, <1>7, WholeStep DEF FilesInv, Atomically
<1> QED
  BY <1>3, <1>4, <1>5, <1>7, <1>8 DEF FilesInv

\* While the journal is being finalized, what stands is what is at the targets.
LEMMA FinishFiles ==
  ASSUME Control, FilesInv, FinishDrop \/ FinishNext
  PROVE  FilesInv' /\ Same
<1> USE DEF Finishing, OnlyFiles, Parts
<1>1. /\ doing = "finish" /\ cur \in Parts /\ Phase = "finalizing" /\ journal # None
      /\ previous \in [Parts -> Gens \cup {None}]
      /\ UNCHANGED <<target, journal, doing>>
  <2>1. /\ doing = "finish" /\ step \in {"drop", "next"}
        /\ UNCHANGED <<target, journal, doing>>
    BY DEF FinishDrop, FinishNext
  <2>2. cur \in 1..(N + 1) /\ cur # N + 1 /\ Phase = "finalizing" /\ journal # None
    BY <2>1 DEF Control, LoopShape
  <2> QED
    BY <2>1, <2>2, PartsAssumption DEF Control, TypeOK
<1>2. Phase' = Phase
  BY <1>1 DEF Phase
<1>3. JournalInv' /\ ApplyInv' /\ UndoInv'
  BY <1>1, <1>2 DEF JournalInv, ApplyInv, UndoInv
<1>4. FinishInv'
  <2>1. CASE FinishDrop
    BY <1>1, <2>1 DEF FinishDrop, FilesInv, FinishInv
  <2>2. CASE FinishNext
    <3>1. cur' = cur + 1 /\ previous' = previous /\ previous[cur] = None /\ step' # "next"
      BY <1>1, <2>2 DEF FinishNext, FilesInv, FinishInv
    <3>2. ASSUME NEW i \in Parts, i < cur' PROVE previous'[i] = None
      <4>1. i = cur \/ i < cur
        BY <1>1, <3>1, <3>2, PartsAssumption
      <4> QED
        BY <1>1, <3>1, <4>1 DEF FilesInv, FinishInv
    <3> QED
      BY <3>1, <3>2 DEF FinishInv
  <2> QED
    BY <2>1, <2>2
<1>5. Same
  BY <1>1, <1>2 DEF Same, Installed, ToUndo, Stands
<1>6. WholeInv'
  BY <1>1, <1>2, <1>5, WholeStep DEF FilesInv, Atomically
<1> QED
  BY <1>3, <1>4, <1>5, <1>6 DEF FilesInv

LEMMA ReportFiles ==
  ASSUME Control, FilesInv, Report
  PROVE  FilesInv' /\ Same
<1>1. /\ UNCHANGED <<target, previous, next, journal, doing, cur>>
      /\ step = "report" /\ step' = "close" /\ doing \in {"undo", "finish"}
  BY DEF Report, files, Control, LoopShape, TypeOK
<1>2. Phase' = Phase /\ Installed' = Installed /\ ToUndo' = ToUndo /\ Undone' = Undone
  BY <1>1 DEF Phase, Installed, ToUndo, Stands, Undone, Back, InstalledNew
<1>3. JournalInv' /\ WholeInv'
  BY <1>1, <1>2 DEF FilesInv, JournalInv, WholeInv, Files
<1>4. ApplyInv' /\ UndoInv' /\ FinishInv'
  BY <1>1 DEF FilesInv, ApplyInv, UndoInv, FinishInv, UndoneAt
<1> QED
  BY <1>2, <1>3, <1>4 DEF FilesInv, Same

\* When the journal goes, what it would have undone is undone.
LEMMA CloseFiles ==
  ASSUME Control, FilesInv, Close
  PROVE  FilesInv' /\ Same
<1>1. /\ UNCHANGED <<target, previous, next>> /\ journal' = None /\ doing' = "nothing"
      /\ step = "close" /\ doing \in {"undo", "finish"}
      /\ target \in [Parts -> Gens \cup {None}]
  BY DEF Close, Idle, files, Control, LoopShape, TypeOK
<1>2. Phase' = "none"
  BY <1>1 DEF Phase
<1>3. (\A i \in Parts : previous[i] = None) /\ Installed = target /\ ToUndo = None
  <2>1. CASE doing = "finish"
    <3>1. cur = N + 1 /\ Phase = "finalizing"
      BY <1>1, <2>1 DEF Control, LoopShape
    <3> QED
      BY <2>1, <3>1, PartsAssumption DEF FilesInv, FinishInv, Installed, ToUndo, Stands, Parts
  <2>2. CASE doing = "undo"
    <3>1. cur = 0 /\ Phase = "rolling-back"
      BY <1>1, <2>2 DEF Control, LoopShape
    <3>2. ASSUME NEW i \in Parts PROVE previous[i] = None /\ Back(i) = target[i]
      <4>1. UndoneAt(i)
        BY <2>2, <3>1 DEF FilesInv, UndoInv, Parts
      <4> QED
        BY <4>1 DEF UndoneAt, Back, InstalledNew
    <3>3. Undone = target
      BY <1>1, <3>2 DEF Undone
    <3> QED
      BY <3>1, <3>2, <3>3 DEF Installed, ToUndo, Stands
  <2> QED
    BY <1>1, <2>1, <2>2
<1>4. Same
  BY <1>1, <1>2, <1>3 DEF Same, Installed, ToUndo, Stands
<1>5. JournalInv' /\ ApplyInv' /\ UndoInv' /\ FinishInv'
  BY <1>1, <1>2, <1>3 DEF JournalInv, ApplyInv, UndoInv, FinishInv
<1>6. WholeInv'
  BY <1>2, <1>4, WholeStep DEF FilesInv, Atomically
<1> QED
  BY <1>4, <1>5, <1>6 DEF FilesInv


LEMMA PrepareFiles ==
  ASSUME Control, FilesInv, Prepare
  PROVE  FilesInv' /\ Same
<1> USE DEF OnlyFiles, Parts
<1>1. /\ doing = "prepare" /\ cur \in Parts /\ cur' = cur + 1 /\ Phase = "preparing"
      /\ journal # None /\ journal \in Journals
      /\ next' = IF cur \in Has[journal.gen] THEN [next EXCEPT ![cur] = journal.gen] ELSE next
      /\ next \in [Parts -> Gens \cup {None}]
      /\ UNCHANGED <<target, previous, journal, doing, step>>
  <2>1. cur \in 1..(N + 1) /\ cur <= N
    BY DEF Prepare, Control, LoopShape
  <2> QED
    BY <2>1, PartsAssumption DEF Prepare, Control, LoopShape, TypeOK, Phase
<1>2. Phase' = Phase /\ journal.repl = {}
  BY <1>1 DEF Phase, FilesInv, JournalInv
<1>3. JournalInv'
  BY <1>1, <1>2 DEF FilesInv, JournalInv
<1>4. ApplyInv'
  <2>1. journal.gen \in Gens /\ Has[journal.gen] \subseteq Parts
    BY <1>1, HasAssumption DEF Journals
  <2>2. ASSUME NEW i \in Has[journal.gen], i < cur' PROVE next'[i] = journal.gen
    <3>1. i \in Parts /\ (i = cur \/ i < cur)
      BY <1>1, <2>1, <2>2, PartsAssumption
    <3> QED
      BY <1>1, <3>1 DEF FilesInv, ApplyInv
  <2> QED
    BY <1>1, <2>2 DEF ApplyInv
<1>5. UndoInv' /\ FinishInv'
  BY <1>1 DEF UndoInv, FinishInv
<1>6. ASSUME NEW i \in Parts PROVE Back(i)' = Back(i)
  BY <1>1, <1>2 DEF Back, InstalledNew
<1>7. Same
  BY <1>1, <1>2, <1>6, BackIsEnough DEF Stands
<1>8. WholeInv'
  BY <1>1, <1>2, <1>7, WholeStep DEF FilesInv, Atomically
<1> QED
  BY <1>3, <1>4, <1>5, <1>7, <1>8 DEF FilesInv

\* Naming the replacements changes nothing: each of them is still prepared.
LEMMA BeginApplyFiles ==
  ASSUME Control, FilesInv, BeginApply
  PROVE  FilesInv' /\ Same
<1> USE DEF Parts
<1>1. /\ doing = "prepare" /\ cur = N + 1 /\ Phase = "preparing" /\ journal # None
      /\ journal \in Journals /\ journal.gen \in Gens
      /\ Has[journal.gen] \subseteq Parts
      /\ doing' = "apply" /\ cur' = 1 /\ step' = "aside"
      /\ UNCHANGED <<target, previous, next>>
  BY HasAssumption DEF BeginApply, Control, LoopShape, TypeOK, files, Journals
<1>2. /\ journal' # None /\ Phase' = "applying" /\ journal'.repl = Has[journal.gen]
      /\ journal'.orig = journal.orig /\ journal'.gen = journal.gen
  <2>1. journal' = [journal EXCEPT !.phase = "applying", !.repl = Has[journal.gen]]
    BY DEF BeginApply
  <2>2. journal' \in Journals /\ journal'.phase = "applying"
        /\ journal'.repl = Has[journal.gen]
        /\ journal'.orig = journal.orig /\ journal'.gen = journal.gen
    BY <1>1, <2>1 DEF Journals, Phases
  <2> QED
    BY <2>2, NoneAssumption DEF Phase
<1>3. \A i \in Parts : previous[i] = None /\ (i \in journal.orig <=> target[i] # None)
  BY <1>1 DEF FilesInv, JournalInv
<1>4. \A i \in Has[journal.gen] : next[i] = journal.gen /\ next[i] # None
  <2>1. \A i \in Has[journal.gen] : i < cur
    BY <1>1, PartsAssumption
  <2> QED
    BY <1>1, <2>1, NoneAssumption DEF FilesInv, ApplyInv
<1>5. JournalInv'
  BY <1>1, <1>2, <1>3 DEF JournalInv
<1>6. ApplyInv'
  BY <1>1, <1>2, <1>3, <1>4, PartsAssumption DEF ApplyInv
<1>7. UndoInv' /\ FinishInv'
  BY <1>1 DEF UndoInv, FinishInv
<1>8. ASSUME NEW i \in Parts PROVE Back(i)' = Back(i)
  <2>1. journal.repl = {}
    BY <1>1 DEF FilesInv, JournalInv
  <2> QED
    BY <1>1, <1>2, <1>4, <2>1 DEF Back, InstalledNew
<1>9. Same
  BY <1>1, <1>2, <1>8, BackIsEnough DEF Stands
<1>10. WholeInv'
  BY <1>2, <1>9, WholeStep DEF FilesInv, Atomically
<1> QED
  BY <1>5, <1>6, <1>7, <1>9, <1>10 DEF FilesInv

LEMMA MoveAsideFiles ==
  ASSUME Control, FilesInv, MoveAside
  PROVE  FilesInv' /\ Same
<1> USE DEF OnlyFiles, Applying, Parts
<1>1. /\ doing = "apply" /\ step = "aside" /\ cur \in Parts /\ Phase = "applying"
      /\ journal # None /\ journal \in Journals
      /\ target \in [Parts -> Gens \cup {None}] /\ previous \in [Parts -> Gens \cup {None}]
      /\ step' = "in"
      /\ UNCHANGED <<next, journal, doing, cur>>
  <2>1. cur \in 1..(N + 1) /\ cur <= N
    BY DEF MoveAside, Control, LoopShape
  <2> QED
    BY <2>1, PartsAssumption DEF MoveAside, Control, LoopShape, TypeOK, Phase
<1>2. Phase' = Phase
  BY <1>1 DEF Phase
<1>3. /\ \A i \in Parts : i # cur => target'[i] = target[i] /\ previous'[i] = previous[i]
      /\ cur \in journal.orig =>
            previous'[cur] = target[cur] /\ target'[cur] \in {None, target[cur]}
      /\ cur \notin journal.orig => target'[cur] = target[cur] /\ previous'[cur] = previous[cur]
      /\ cur \in journal.orig /\ cur # Config => target'[cur] = None
  BY <1>1 DEF MoveAside
<1>4. /\ previous[cur] = None /\ (cur \in journal.orig <=> target[cur] # None)
      /\ journal.repl = Has[journal.gen]
      /\ cur \in journal.repl => next[cur] # None
  BY <1>1, NoneAssumption, PartsAssumption DEF FilesInv, ApplyInv, Journals
<1>5. JournalInv'
  <2>1. ASSUME NEW i \in Parts, previous'[i] # None PROVE i \in journal'.orig
    BY <1>1, <1>3, <1>4, <2>1 DEF FilesInv, JournalInv
  <2>2. ASSUME NEW i \in journal'.repl \ journal'.orig, next'[i] # None PROVE target'[i] = None
    <3>1. i \in Parts
      BY <1>1 DEF Journals
    <3> QED
      BY <1>1, <1>3, <2>2, <3>1 DEF FilesInv, JournalInv
  <2> QED
    BY <1>1, <1>2, <2>1, <2>2 DEF JournalInv
<1>6. ApplyInv'
  <2>1. ASSUME NEW i \in Parts
        PROVE  /\ i < cur => target'[i] = Files(journal.gen)[i]
               /\ i >= cur =>
                   /\ i \in journal.repl => next[i] = journal.gen
                   /\ i \notin journal.orig => target'[i] = None
               /\ i > cur =>
                   /\ previous'[i] = None
                   /\ i \in journal.orig => target'[i] # None
    BY <1>1, <1>3, PartsAssumption DEF FilesInv, ApplyInv
  <2>2. cur \in journal.orig => previous'[cur] # None
    BY <1>3, <1>4
  <2>3. cur \notin journal.repl => target'[cur] = None
    <3>1. Config \in journal.repl
      BY <1>1, <1>4, HasAssumption DEF Journals
    <3> QED
      BY <1>1, <1>3, <1>4, <3>1
  <2> QED
    BY <1>1, <1>4, <2>1, <2>2, <2>3 DEF ApplyInv, Files
<1>7. UndoInv' /\ FinishInv'
  BY <1>1 DEF UndoInv, FinishInv
<1>8. ASSUME NEW i \in Parts PROVE Back(i)' = Back(i)
  BY <1>1, <1>3, <1>4 DEF Back, InstalledNew
<1>9. Same
  BY <1>1, <1>2, <1>8, BackIsEnough DEF Stands
<1>10. WholeInv'
  BY <1>1, <1>2, <1>9, WholeStep DEF FilesInv, Atomically
<1> QED
  BY <1>5, <1>6, <1>7, <1>9, <1>10 DEF FilesInv

\* A component that existed before has its original aside; one that did not
\* counts as installed from here on.
LEMMA PutInFiles ==
  ASSUME Control, FilesInv, PutIn
  PROVE  FilesInv' /\ Same
<1> USE DEF OnlyFiles, Applying, Parts
<1>1. /\ doing = "apply" /\ step = "in" /\ cur \in Parts /\ Phase = "applying"
      /\ journal # None /\ journal \in Journals
      /\ target \in [Parts -> Gens \cup {None}] /\ next \in [Parts -> Gens \cup {None}]
      /\ cur' = cur + 1 /\ step' = "aside"
      /\ UNCHANGED <<previous, journal, doing>>
  <2>1. cur \in 1..(N + 1) /\ cur <= N
    BY DEF PutIn, Control, LoopShape
  <2> QED
    BY <2>1, PartsAssumption DEF PutIn, Control, LoopShape, TypeOK, Phase
<1>2. Phase' = Phase
  BY <1>1 DEF Phase
<1>3. /\ \A i \in Parts : i # cur => target'[i] = target[i] /\ next'[i] = next[i]
      /\ cur \in journal.repl => target'[cur] = next[cur] /\ next'[cur] = None
      /\ cur \notin journal.repl => target'[cur] = target[cur] /\ next'[cur] = next[cur]
  BY <1>1 DEF PutIn
<1>4. /\ journal.repl = Has[journal.gen]
      /\ cur \in journal.repl => next[cur] = journal.gen /\ next[cur] # None
      /\ cur \in journal.orig => previous[cur] # None
      /\ cur \notin journal.orig => target[cur] = None
      /\ cur \notin journal.repl => target[cur] = None
  BY <1>1, NoneAssumption, PartsAssumption DEF FilesInv, ApplyInv, Journals
<1>5. target'[cur] = Files(journal.gen)[cur]
  BY <1>1, <1>3, <1>4 DEF Files
<1>6. JournalInv'
  <2>1. ASSUME NEW i \in journal'.repl \ journal'.orig, next'[i] # None PROVE target'[i] = None
    <3>1. i \in Parts
      BY <1>1 DEF Journals
    <3> QED
      BY <1>1, <1>3, <2>1, <3>1 DEF FilesInv, JournalInv
  <2> QED
    BY <1>1, <1>2, <2>1 DEF FilesInv, JournalInv
<1>7. ApplyInv'
  <2>1. ASSUME NEW i \in Parts
        PROVE  /\ i < cur' => target'[i] = Files(journal.gen)[i]
               /\ i >= cur' =>
                   /\ i \in journal.repl => next'[i] = journal.gen
                   /\ i \notin journal.orig => target'[i] = None
                   /\ previous'[i] = None
                   /\ i \in journal.orig => target'[i] # None
    <3>1. CASE i = cur
      BY <1>1, <1>5, <3>1, PartsAssumption
    <3>2. CASE i < cur
      BY <1>1, <1>3, <3>2, PartsAssumption DEF FilesInv, ApplyInv
    <3>3. CASE i > cur
      BY <1>1, <1>3, <3>3, PartsAssumption DEF FilesInv, ApplyInv
    <3> QED
      BY <1>1, <3>1, <3>2, <3>3, PartsAssumption
  <2> QED
    BY <1>1, <1>4, <2>1, PartsAssumption DEF ApplyInv, Files
<1>8. UndoInv' /\ FinishInv'
  BY <1>1 DEF UndoInv, FinishInv
<1>9. ASSUME NEW i \in Parts PROVE Back(i)' = Back(i)
  BY <1>1, <1>3, <1>4 DEF Back, InstalledNew
<1>10. Same
  BY <1>1, <1>2, <1>9, BackIsEnough DEF Stands
<1>11. WholeInv'
  BY <1>1, <1>2, <1>10, WholeStep DEF FilesInv, Atomically
<1> QED
  BY <1>6, <1>7, <1>8, <1>10, <1>11 DEF FilesInv


\* The restored instance is installed with its way back.
LEMMA AwaitBootFiles ==
  ASSUME Control, FilesInv, AwaitBoot
  PROVE  FilesInv' /\ Atomically
<1>1. /\ doing = "apply" /\ cur = N + 1 /\ Phase = "applying"
      /\ journal # None /\ journal \in Journals /\ journal.gen \in Gens
      /\ target \in [Parts -> Gens \cup {None}]
      /\ doing' = "nothing"
      /\ UNCHANGED <<target, previous, next>>
  BY DEF AwaitBoot, Idle, files, Control, LoopShape, TypeOK, Journals
<1>2. /\ journal' # None /\ Phase' = "pending-boot" /\ journal'.gen = journal.gen
      /\ journal'.orig = journal.orig /\ journal'.repl = journal.repl
  BY <1>1, PhaseWritten DEF AwaitBoot, Control, Phases
<1>3. target = Files(journal.gen) /\ Files(journal.gen) \in Instances
  <2>1. ASSUME NEW i \in Parts PROVE target[i] = Files(journal.gen)[i]
    <3>1. i < cur
      BY <1>1, PartsAssumption DEF Parts
    <3> QED
      BY <1>1, <3>1 DEF FilesInv, ApplyInv
  <2> QED
    BY <1>1, <2>1 DEF Files, Instances
<1>4. JournalInv'
  BY <1>1, <1>2, <1>3 DEF FilesInv, JournalInv, Files
<1>5. ApplyInv' /\ UndoInv' /\ FinishInv'
  BY <1>1 DEF ApplyInv, UndoInv, FinishInv
<1>6. Undone' = Undone
  BY <1>1, <1>2 DEF Undone, Back, InstalledNew
<1>7. Atomic!Install
  <2>1. Installed = Undone /\ ToUndo = None
    BY <1>1 DEF Installed, ToUndo, Stands
  <2>2. Installed' = target /\ ToUndo' = Undone
    BY <1>1, <1>2, <1>6 DEF Installed, ToUndo, Stands
  <2> QED
    BY <1>3, <2>1, <2>2 DEF Atomic!Install
<1>8. WholeInv'
  BY <1>7, WholeStep DEF FilesInv, Atomically
<1> QED
  BY <1>4, <1>5, <1>7, <1>8 DEF FilesInv, Atomically

LEMMA WriteJournalFiles ==
  ASSUME Control, FilesInv, NEW c \in Clis, WriteJournal(c)
  PROVE  FilesInv' /\ Same
<1>1. /\ journal = None /\ Phase = "none"
      /\ doing' = "prepare" /\ cur' = 1
      /\ target \in [Parts -> Gens \cup {None}]
      /\ UNCHANGED <<target, previous, next>>
  BY DEF WriteJournal, files, Control, TypeOK, Phase
<1>2. /\ journal'.repl = {} /\ journal'.orig = {i \in Parts : target[i] # None}
      /\ journal' # None /\ Phase' = "preparing"
      /\ Has[journal'.gen] \subseteq Parts
  <2>1. journal' = [tx |-> c, gen |-> asked[c].gen, phase |-> "preparing",
                    orig |-> {i \in Parts : target[i] # None}, repl |-> {}]
    BY DEF WriteJournal
  <2>2. asked[c].gen \in Gens
    BY OrdersAssumption DEF Control, TypeOK
  <2>3. journal' \in Journals
    BY <2>1, <2>2 DEF Journals, Phases
  <2>4. Has[asked[c].gen] \subseteq Parts
    BY <2>2, HasAssumption
  <2> QED
    BY <2>1, <2>3, <2>4, NoneAssumption DEF Phase
<1>3. \A i \in Parts : previous[i] = None
  BY <1>1 DEF FilesInv, JournalInv
<1>4. JournalInv'
  BY <1>1, <1>2, <1>3 DEF JournalInv
<1>5. ApplyInv' /\ UndoInv' /\ FinishInv'
  BY <1>1, <1>2, PartsAssumption DEF ApplyInv, UndoInv, FinishInv, Parts
<1>6. Same
  <2>1. ASSUME NEW i \in Parts PROVE Back(i)' = target[i]
    BY <1>1, <1>2, <1>3 DEF Back, InstalledNew
  <2>2. Undone' = target
    BY <1>1, <2>1 DEF Undone
  <2> QED
    BY <1>1, <1>2, <2>2 DEF Same, Installed, ToUndo, Stands
<1>7. WholeInv'
  BY <1>2, <1>6, WholeStep DEF FilesInv, Atomically
<1> QED
  BY <1>4, <1>5, <1>6, <1>7 DEF FilesInv

\* An undo that begins while the boot is awaited goes back at once; any other
\* begins, or begins again, what the journal already means.
LEMMA BeginUndoFiles ==
  ASSUME Control, FilesInv, journal # None, Phase # "finalizing", BeginUndo
  PROVE  FilesInv' /\ Atomically /\ ~Stands'
<1>1. /\ journal' # None /\ Phase' = "rolling-back"
      /\ journal'.orig = journal.orig /\ journal'.repl = journal.repl
      /\ doing' = "undo" /\ cur' = N /\ step' = UndoStep(N)
      /\ UNCHANGED <<target, previous, next>>
  BY UndoBegins DEF Control, files
<1>2. Phase \in {"preparing", "applying", "pending-boot", "rolling-back"}
  BY DEF Control, TypeOK, Journals, Phases, Phase
<1>3. /\ \A i \in Parts : previous[i] # None => i \in journal.orig
      /\ \A i \in journal.repl \ journal.orig : next[i] # None => target[i] = None
  BY <1>2 DEF FilesInv, JournalInv
<1>4. JournalInv'
  BY <1>1, <1>3 DEF JournalInv
<1>5. UndoInv'
  <2>1. N \in Parts /\ \A i \in Parts : ~(i > N)
    BY SomePart DEF Parts
  <2>2. /\ step' \in {"remove", "rename", "next"}
        /\ (step' = "remove" /\ previous[N] = None) => N \notin journal.orig /\ InstalledNew(N)
        /\ step' = "rename" => previous[N] # None
        /\ step' = "next" => UndoneAt(N)
    BY <1>1, <1>3, <2>1, UndoStepFits
  <2> QED
    BY <1>1, <2>1, <2>2 DEF UndoInv, UndoneAt, InstalledNew
<1>6. ApplyInv' /\ FinishInv'
  BY <1>1 DEF ApplyInv, FinishInv
<1>7. Undone' = Undone /\ \A i \in Parts : Back(i)' = Back(i)
  BY <1>1 DEF Undone, Back, InstalledNew
<1>8. Atomically
  <2>1. CASE Phase = "pending-boot"
    <3>1. ToUndo = Undone /\ ToUndo # None
      BY <2>1, NoneAssumption DEF ToUndo, FilesInv, WholeInv
    <3>2. Installed' = Undone /\ ToUndo' = None
      BY <1>1, <1>7 DEF Installed, ToUndo, Stands
    <3> QED
      BY <3>1, <3>2 DEF Atomic!GoBack, Atomically
  <2>2. CASE Phase # "pending-boot"
    BY <1>1, <1>2, <1>7, <2>2, BackIsEnough DEF Stands, Atomically
  <2> QED
    BY <2>1, <2>2
<1>9. WholeInv'
  BY <1>1, <1>8, WholeStep DEF FilesInv
<1> QED
  BY <1>1, <1>4, <1>5, <1>6, <1>8, <1>9 DEF FilesInv, Stands

LEMMA BeginFinishFiles ==
  ASSUME Control, FilesInv, Phase \in {"pending-boot", "finalizing"}, BeginFinish
  PROVE  FilesInv' /\ Atomically /\ Stands'
<1>1. /\ journal' # None /\ Phase' = "finalizing"
      /\ doing' = "finish" /\ cur' = 1 /\ step' = "drop"
      /\ UNCHANGED <<target, previous, next>>
  BY FinishBegins DEF Control, files, Phase
<1>2. JournalInv' /\ ApplyInv' /\ UndoInv' /\ FinishInv'
  BY <1>1, PartsAssumption DEF JournalInv, ApplyInv, UndoInv, FinishInv, Parts
<1>3. Atomically
  <2>1. Installed = target /\ Installed' = target /\ ToUndo' = None
    BY <1>1 DEF Installed, ToUndo, Stands
  <2>2. CASE Phase = "pending-boot"
    <3>1. ToUndo # None
      BY <2>2, NoneAssumption DEF ToUndo, FilesInv, WholeInv
    <3> QED
      BY <2>1, <3>1 DEF Atomic!Keep, Atomically
  <2>3. CASE Phase = "finalizing"
    BY <2>1, <2>3 DEF ToUndo, Atomically, Same
  <2> QED
    BY <2>2, <2>3
<1>4. WholeInv'
  BY <1>1, <1>3, WholeStep DEF FilesInv
<1> QED
  BY <1>1, <1>2, <1>3, <1>4 DEF FilesInv, Stands


\* Any other step leaves files, journal, receipt and fates alone.
Quiet ==
    /\ UNCHANGED <<files, journal, receipt, fate>>
    /\ UNCHANGED loop \/ doing' = "nothing"

LEMMA StepKinds ==
  ASSUME [Next]_vars
  PROVE  \/ Quiet
         \/ LoopStep \/ ApplyFails \/ BootConfirms
         \/ /\ BootFails /\ Phase \notin {"none", "finalizing"} /\ BeginUndo
            /\ at' = [at EXCEPT !["server"] = "failing"] /\ UNCHANGED <<lock, gap, misled>>
         \/ \E a \in Actors : LoadRecovers(a)
         \/ \E c \in Clis : WriteJournal(c) \/ CliUndoes(c)
<1> USE DEF Quiet, disk, files, loop, server, history, bounds
<1>1. CASE UNCHANGED vars
  BY <1>1 DEF vars
<1>2. CASE Spawn \/ ServerLocks \/ BootServes \/ HandEnables \/ HandStarts
  BY <1>2 DEF Spawn, ServerLocks, BootServes, HandEnables, HandStarts
<1>3. CASE BootFails
  BY <1>3 DEF BootFails, Goes
<1>4. CASE ManagerStops
  BY <1>4 DEF ManagerStops, Dies, Idle
<1>5. ASSUME NEW a \in Actors, LoadsAsItIs(a) \/ LoadThrows(a) \/ Crash(a) PROVE Quiet
  BY <1>5 DEF LoadsAsItIs, LoadThrows, Crash, Dies, Idle
<1>6. ASSUME NEW c \in Clis, CliStep(c), ~WriteJournal(c), ~CliUndoes(c) PROVE Quiet
  BY <1>6 DEF CliStep, CliBegins, CliPlans, CliStops, CliSeesOffline, CliLocks, CliRefuses,
     CliReleases, CleanupFails, CliStarts, CliConfirms, CliFails, CliStopsAgain,
     CliFindsNone, CliLeavesIt, Steps
<1> QED
  BY <1>1, <1>2, <1>3, <1>4, <1>5, <1>6 DEF Next, Load, LoadRecovers, Boot

LEMMA FilesStep ==
  ASSUME Control, FilesInv, [Next]_vars
  PROVE  FilesInv' /\ Atomically
<1>1. CASE Quiet
  BY <1>1, ControlKeepsFiles DEF Quiet, Atomically
<1>2. CASE LoopStep
  BY <1>2, UndoRemoveFiles, UndoRenameFiles, UndoDropFiles, UndoNextFiles, FinishFiles,
     ReportFiles, CloseFiles, PrepareFiles, BeginApplyFiles, MoveAsideFiles, PutInFiles,
     AwaitBootFiles DEF LoopStep, Atomically
<1>3. CASE ApplyFails
  <2>1. journal # None /\ Phase # "finalizing" /\ BeginUndo
    BY <1>3 DEF ApplyFails, Control, LoopShape
  <2> QED
    BY <2>1, BeginUndoFiles
<1>4. CASE BootConfirms
  BY <1>4, BeginFinishFiles DEF BootConfirms
<1>5. CASE Phase \notin {"none", "finalizing"} /\ BeginUndo
  BY <1>5, BeginUndoFiles DEF Phase
<1>6. ASSUME NEW a \in Actors, LoadRecovers(a) PROVE FilesInv' /\ Atomically
  BY <1>6, BeginUndoFiles, BeginFinishFiles DEF LoadRecovers, LoadFinishes, LoadUndoes, Phase
<1>7. ASSUME NEW c \in Clis, WriteJournal(c) PROVE FilesInv' /\ Atomically
  BY <1>7, WriteJournalFiles DEF Atomically
<1>8. ASSUME NEW c \in Clis, CliUndoes(c) PROVE FilesInv' /\ Atomically
  BY <1>8, BeginUndoFiles DEF CliUndoes, Phase
<1> QED
  BY <1>1, <1>2, <1>3, <1>4, <1>5, <1>6, <1>7, <1>8, StepKinds


-----------------------------------------------------------------------------
(* The server.  A step keeps what it has read true of what stands, unless a *)
(* replacement crosses it, or gives it the config anew.                     *)

Awaits == at["server"] = "loading" /\ cfg # None /\ ~gap
Watches == (at["server"] \in {"loaded"} \cup Open /\ ~gap) \/ Awaits

LEMMA ServerKept ==
  ASSUME ServerInv, Watches' => Watches /\ (Awaits' <=> Awaits), cfg' = cfg,
         Watches => /\ target'[Config] = target[Config]
                    /\ Stands => Stands'
                    /\ doing \in {"nothing", "finish"} => doing' \in {"nothing", "finish"}
  PROVE  ServerInv'
BY DEF ServerInv, Watches, Awaits, Open

LEMMA ServerReads ==
  ASSUME Control, ServerInv, at["server"] = "loading", Loaded("server"),
         Stands', UNCHANGED <<target, gap>>
  PROVE  ServerInv'
<1>1. at'["server"] = "loaded" /\ cfg' = IF cfg = None THEN target[Config] ELSE cfg
  BY DEF Loaded, Control, TypeOK, Actors
<1> QED
  BY <1>1 DEF ServerInv

\* Nothing but a finalize runs beside a server that watches.
LEMMA WatchedLoops ==
  ASSUME Control, ServerInv, Watches
  PROVE  /\ doing \in {"nothing", "finish"}
         /\ at["server"] \in Open => lock = "server"
         /\ ~Awaits => Stands
BY DEF ServerInv, Watches, Awaits, Control, TypeOK, Holder, LoopShape, Stands, Open

LEMMA ServerStep ==
  ASSUME Control, ServerInv, [Next]_vars
  PROVE  ServerInv'
<1> USE DEF disk, files, loop, server, history, bounds
<1> USE WatchedLoops
<1>1. CASE UNCHANGED vars
  BY <1>1, ServerKept DEF vars, Watches, Awaits, Stands, Phase
<1>2. CASE UndoRemove \/ UndoRename \/ UndoDrop \/ UndoNext
  <2>1. ~Watches /\ UNCHANGED <<at, cfg, gap>>
    <3>1. doing = "undo" /\ UNCHANGED <<at, cfg, gap>>
      BY <1>2 DEF UndoRemove, UndoRename, UndoDrop, UndoNext, Undoing, OnlyFiles
    <3>2. ASSUME Watches PROVE FALSE
      BY <3>1, <3>2, WatchedLoops
    <3> QED
      BY <3>1, <3>2
  <2> QED
    BY <2>1 DEF ServerInv, Watches, Awaits
<1>3. CASE FinishDrop \/ FinishNext
  BY <1>3, ServerKept DEF FinishDrop, FinishNext, OnlyFiles, Watches, Awaits, Stands, Phase
<1>4. CASE Report
  BY <1>4, ServerKept DEF Report, Watches, Awaits, Stands, Phase
<1>5. CASE Close
  <2>1. Stands' /\ UNCHANGED target
    BY <1>5 DEF Close, Stands, Phase
  <2>2. CASE at[lock] = "loading" /\ lock = "server"
    BY <1>5, <2>1, <2>2, ServerReads DEF Close
  <2>3. CASE at[lock] = "loading" /\ lock # "server"
    <3>1. UNCHANGED <<cfg, gap>> /\ at'["server"] = at["server"] /\ doing' = "nothing"
      BY <1>5, <2>3 DEF Close, Idle, Loaded, Control, TypeOK, Actors
    <3> QED
      BY <2>1, <3>1, ServerKept DEF Watches, Awaits
  <2>4. CASE at[lock] # "loading"
    <3>1. /\ cfg' = cfg /\ gap' = gap /\ at' = [at EXCEPT ![lock] = After(at[lock])]
          /\ doing' = "nothing"
      BY <1>5, <2>4 DEF Close, Idle
    <3>2. lock = "server" => After(at[lock]) \in {"serving", "down"} /\ at[lock] \in {"booting", "failing"}
      <4>1. at[lock] \in {"loading", "applying", "failing", "settling", "booting"}
        BY <1>5 DEF Close, Control, TypeOK, LoopShape
      <4> QED
        BY <2>4, <4>1 DEF Control, Holder, After
    <3>3. at[lock] = "failing" => After(at[lock]) = "down"
      BY DEF After
    <3>4. Watches' => Watches /\ (Awaits' <=> Awaits)
      BY <2>4, <3>1, <3>2, <3>3 DEF Watches, Awaits, Open, Control, TypeOK
    <3> QED
      BY <2>1, <3>1, <3>4, ServerKept
  <2> QED
    BY <2>2, <2>3, <2>4
<1>6. CASE Prepare \/ BeginApply \/ MoveAside \/ PutIn \/ ApplyFails
  <2>1. ~Watches /\ UNCHANGED <<at, cfg, gap>>
    <3>1. doing \in {"prepare", "apply"} /\ UNCHANGED <<at, cfg, gap>>
      BY <1>6 DEF Prepare, BeginApply, MoveAside, PutIn, ApplyFails, Applying, OnlyFiles
    <3>2. ASSUME Watches PROVE FALSE
      BY <3>1, <3>2, WatchedLoops
    <3> QED
      BY <3>1, <3>2
  <2> QED
    BY <2>1 DEF ServerInv, Watches, Awaits
<1>7. CASE AwaitBoot
  <2>1. ~Watches /\ UNCHANGED <<cfg, gap>> /\ at' = [at EXCEPT ![lock] = "applied"]
    <3>1. doing = "apply" /\ UNCHANGED <<cfg, gap>> /\ at' = [at EXCEPT ![lock] = "applied"]
      BY <1>7 DEF AwaitBoot
    <3>2. ASSUME Watches PROVE FALSE
      BY <3>1, <3>2, WatchedLoops
    <3> QED
      BY <3>1, <3>2
  <2> QED
    BY <2>1 DEF ServerInv, Watches, Awaits, Open, Control, TypeOK
<1>8. ASSUME NEW a \in Actors, LoadsAsItIs(a) PROVE ServerInv'
  <2>1. CASE a = "server"
    <3>1. Stands' /\ UNCHANGED target
      BY <1>8, <2>1 DEF LoadsAsItIs, HeldByServer, Stands, Phase
    <3> QED
      BY <1>8, <2>1, <3>1, ServerReads DEF LoadsAsItIs
  <2>2. CASE a # "server"
    BY <1>8, <2>2, ServerKept DEF LoadsAsItIs, Loaded, Watches, Awaits, Stands, Phase, Control, TypeOK
  <2> QED
    BY <2>1, <2>2
<1>9. ASSUME NEW a \in Actors, LoadThrows(a) PROVE ServerInv'
  BY <1>9, ServerKept DEF LoadThrows, Goes, Watches, Awaits, Open, Stands, Phase, Control, TypeOK
<1>10. ASSUME NEW a \in Actors, LoadRecovers(a) PROVE ServerInv'
  <2>1. UNCHANGED at /\ journal # None /\ lock = None /\ at["server"] \notin Open
    BY <1>10, NoneAssumption
    DEF LoadRecovers, LoadFinishes, LoadUndoes, Phase, Open, Control, Holder, Actors
  <2>2. CASE LoadFinishes(a)
    <3>1. Stands' /\ UNCHANGED <<target, cfg, gap>> /\ doing' = "finish"
      BY <2>1, <2>2, FinishBegins DEF LoadFinishes, Control, Stands
    <3> QED
      BY <2>1, <3>1, ServerKept DEF Watches, Awaits
  <2>3. CASE LoadUndoes(a)
    <3>1. ~Stands
      BY <2>3 DEF LoadUndoes, Stands
    <3>2. CASE a = "server"
      <4>1. at["server"] = "loading" /\ gap' = gap
            /\ cfg' = (IF cfg = target[Config] THEN None ELSE cfg)
        BY <2>3, <3>2 DEF LoadUndoes
      <4> QED
        BY <2>1, <4>1 DEF ServerInv, Open
    <3>3. CASE a # "server"
      <4>1. cfg' = cfg /\ Crosses
        BY <2>3, <3>3 DEF LoadUndoes
      <4> QED
        BY <2>1, <4>1 DEF Crosses, ServerInv
    <3> QED
      BY <3>2, <3>3
  <2> QED
    BY <1>10, <2>2, <2>3 DEF LoadRecovers
<1>11. ASSUME NEW a \in Actors, Crash(a) PROVE ServerInv'
  <2>1. CASE a = "server"
    <3>1. at'["server"] = "down"
      BY <1>11, <2>1 DEF Crash, Dies, Control, TypeOK
    <3> QED
      BY <3>1 DEF ServerInv, Open
  <2>2. CASE a # "server"
    <3>1. /\ at'["server"] = at["server"] /\ UNCHANGED <<target, journal, cfg, gap>>
          /\ doing' \in {doing, "nothing"}
      BY <1>11, <2>2 DEF Crash, Dies, Idle, Control, TypeOK
    <3> QED
      BY <3>1, ServerKept DEF Watches, Awaits, Stands, Phase
  <2> QED
    BY <2>1, <2>2
<1>12. CASE Spawn \/ HandStarts
  <2>1. at'["server"] = "loading" /\ UNCHANGED <<target, loop>>
    BY <1>12 DEF Spawn, HandStarts, Goes, Control, TypeOK, Actors
  <2>2. CASE HandStarts
    BY <2>1, <2>2 DEF HandStarts, ServerInv, Open
  <2>3. CASE Spawn
    <3>1. cfg' = target[Config] /\ gap' = (lock # None)
      BY <2>3 DEF Spawn
    <3>2. lock = None => doing = "nothing"
      BY DEF Control, LoopShape
    <3> QED
      BY <2>1, <3>1, <3>2 DEF ServerInv, Open
  <2> QED
    BY <1>12, <2>2, <2>3
<1>13. CASE ServerLocks
  BY <1>13, ServerKept DEF ServerLocks, Goes, Watches, Awaits, Open, Stands, Phase, Control, TypeOK
<1>14. CASE BootConfirms
  <2>1. UNCHANGED <<at, cfg, gap>> /\ journal # None
    BY <1>14 DEF BootConfirms, Phase
  <2>2. Stands' /\ UNCHANGED target /\ doing' = "finish"
    BY <1>14, <2>1, FinishBegins DEF BootConfirms, Control, Stands
  <2> QED
    BY <2>1, <2>2, ServerKept DEF Watches, Awaits
<1>15. CASE BootServes
  BY <1>15, ServerKept DEF BootServes, Goes, Watches, Awaits, Open, Stands, Phase, Control, TypeOK
<1>16. CASE BootFails
  <2>1. at'["server"] \in {"failing", "down"}
    BY <1>16 DEF BootFails, Goes, Control, TypeOK, Actors
  <2> QED
    BY <2>1 DEF ServerInv, Open
<1>17. CASE ManagerStops
  BY <1>17 DEF ManagerStops, Dies, ServerInv, Open, Control, TypeOK, Actors
<1>18. CASE HandEnables
  BY <1>18, ServerKept DEF HandEnables, Watches, Awaits, Stands, Phase
<1>19. ASSUME NEW c \in Clis, WriteJournal(c) PROVE ServerInv'
  <2>1. lock = c /\ c # "server" /\ at'["server"] = at["server"] /\ cfg' = cfg /\ Crosses
    BY <1>19, ClisAssumption DEF WriteJournal, Goes, Control, TypeOK, Holder, Actors
  <2>2. at["server"] \notin Open
    BY <2>1 DEF Control, Holder, Open
  <2> QED
    BY <2>1, <2>2 DEF ServerInv, Crosses
<1>20. ASSUME NEW c \in Clis, CliUndoes(c) PROVE ServerInv'
  <2>1. lock = None /\ UNCHANGED <<at, cfg>> /\ Crosses
    BY <1>20 DEF CliUndoes, Settling
  <2>2. at["server"] \notin Open
    BY <2>1, NoneAssumption DEF Control, Holder, Open, Actors
  <2> QED
    BY <2>1, <2>2 DEF ServerInv, Crosses
<1>21. ASSUME NEW c \in Clis, CliStep(c), ~WriteJournal(c), ~CliUndoes(c) PROVE ServerInv'
  <2>1. UNCHANGED <<journal, target, cfg, gap, doing>> /\ at'["server"] = at["server"]
    <3> c # "server" /\ "server" \in Actors /\ at \in [Actors -> ServerStages \cup CliStages]
      BY ClisAssumption DEF Control, TypeOK, Actors
    <3>1. CASE CliBegins(c) \/ CliPlans(c) \/ CliStops(c) \/ CliSeesOffline(c) \/ CliLocks(c)
      BY <3>1 DEF CliBegins, CliPlans, CliStops, CliSeesOffline, CliLocks, Steps, Goes
    <3>2. CASE CliRefuses(c) \/ CliReleases(c) \/ CleanupFails(c) \/ CliStarts(c)
      BY <3>2 DEF CliRefuses, CliReleases, CleanupFails, CliStarts, Steps, Goes
    <3>3. CASE CliConfirms(c) \/ CliStopsAgain(c) \/ CliFindsNone(c) \/ CliLeavesIt(c)
      BY <3>3 DEF CliConfirms, CliStopsAgain, CliFindsNone, CliLeavesIt, Steps, Goes
    <3>4. CASE CliFails(c)
      BY <3>4 DEF CliFails, Steps, Goes
    <3> QED
      BY <1>21, <3>1, <3>2, <3>3, <3>4 DEF CliStep
  <2> QED
    BY <2>1, ServerKept DEF Watches, Awaits, Stands, Phase
<1> QED
  BY <1>1, <1>2, <1>3, <1>4, <1>5, <1>6, <1>7, <1>8, <1>9, <1>10, <1>11, <1>12, <1>13, <1>14,
     <1>15, <1>16, <1>17, <1>18, <1>19, <1>20, <1>21
  DEF Next, LoopStep, Load, LoadRecovers, Boot


-----------------------------------------------------------------------------
(* The reports. *)

Undecided == {"preparing", "applying", "pending-boot"}

\* A command that keeps to what it knows: where it may go while the fates stand.
Honest(c) ==
    \/ at'[c] = at[c]
    \/ at[c] \in Early /\ at'[c] \in Early \cup {"refused"}
    \/ at'[c] \notin Early \cup {"refused", "restored", "putBack"}
    \/ at'[c] = "restored" /\ fate[c] = "completed"
    \/ at'[c] = "putBack" /\ (fate[c] = "rolled-back" \/ c \in misled')
    \/ at'[c] = "refused" /\ fate[c] # "completed" /\ journal' = None

LEMMA HonestKeeps ==
  ASSUME FateInv, TellsTruth, UNCHANGED fate, misled \subseteq misled',
         \A c \in Clis : Honest(c),
         \/ journal' = None \/ UNCHANGED journal
         \/ /\ journal # None /\ journal'.tx = journal.tx
            /\ Phase \in Undecided /\ Phase' \in Undecided,
         receipt' = None \/ UNCHANGED receipt \/ fate[receipt'.tx] = receipt'.outcome
  PROVE  FateInv' /\ TellsTruth'
<1> "completed" # None /\ "rolled-back" # None
  BY NoneAssumption DEF Outcomes
<1>1. TellsTruth'
  BY DEF Honest, FateInv, TellsTruth, Early
<1>2. \A c \in Clis :
        /\ at'[c] \in Early => fate'[c] = None
        /\ at'[c] = "refused" => fate'[c] # "completed"
        /\ (at'[c] \in Early \cup {"refused"} /\ journal' # None) => journal'.tx # c
  BY DEF Honest, FateInv, TellsTruth, Early
<1>3. \/ Phase' = "none" \/ (Phase' = Phase /\ UNCHANGED journal)
      \/ journal'.tx = journal.tx /\ Phase \in Undecided /\ Phase' \in Undecided
  BY DEF Phase
<1>4. /\ Phase' \in {"preparing", "applying", "pending-boot"} => fate'[journal'.tx] = None
      /\ Phase' = "rolling-back" => fate'[journal'.tx] = "rolled-back"
      /\ Phase' = "finalizing" => fate'[journal'.tx] = "completed"
  BY <1>3 DEF FateInv, Undecided
<1>5. receipt' # None => fate'[receipt'.tx] = receipt'.outcome
  BY DEF FateInv
<1> QED
  BY <1>1, <1>2, <1>4, <1>5 DEF FateInv

\* A transaction gets its fate once: only the same one again.
LEMMA FateDecided ==
  ASSUME TypeOK, FateInv, TellsTruth, journal # None, misled \subseteq misled',
         \A c \in Clis : at'[c] = at[c], UNCHANGED receipt,
         \/ BeginUndo /\ Phase # "finalizing"
         \/ BeginFinish /\ Phase \in {"pending-boot", "finalizing"}
  PROVE  FateInv' /\ TellsTruth'
<1>1. PICK outcome \in Outcomes :
        /\ fate' = [fate EXCEPT ![journal.tx] = outcome]
        /\ fate[journal.tx] \in {None, outcome}
        /\ Phase' = IF outcome = "completed" THEN "finalizing" ELSE "rolling-back"
  <2>1. CASE BeginUndo /\ Phase # "finalizing"
    <3>1. Phase \in {"preparing", "applying", "pending-boot", "rolling-back"}
      BY <2>1 DEF TypeOK, Journals, Phases, Phase
    <3>2. fate[journal.tx] \in {None, "rolled-back"}
      BY <3>1 DEF FateInv
    <3>3. fate' = [fate EXCEPT ![journal.tx] = "rolled-back"] /\ Phase' = "rolling-back"
      BY <2>1, UndoBegins
    <3> QED
      BY <3>2, <3>3 DEF Outcomes
  <2>2. CASE BeginFinish /\ Phase \in {"pending-boot", "finalizing"}
    <3>1. fate[journal.tx] \in {None, "completed"}
      BY <2>2 DEF FateInv
    <3>2. fate' = [fate EXCEPT ![journal.tx] = "completed"] /\ Phase' = "finalizing"
      BY <2>2, FinishBegins
    <3> QED
      BY <3>1, <3>2 DEF Outcomes
  <2> QED
    BY <2>1, <2>2
<1>2. /\ journal.tx \in Clis /\ journal'.tx = journal.tx /\ journal' # None
      /\ fate \in [Clis -> Outcomes \cup {None}]
      /\ receipt \in Receipts \cup {None}
  BY UndoBegins, FinishBegins DEF TypeOK
<1>3. /\ fate'[journal.tx] = outcome
      /\ \A c \in Clis : c # journal.tx => fate'[c] = fate[c]
  BY <1>1, <1>2
<1>4. \A c \in Clis : fate[c] # None => fate'[c] = fate[c]
  BY <1>1, <1>3
<1>5. ASSUME NEW c \in Clis
      PROVE  /\ at'[c] \in Early => fate'[c] = None
             /\ at'[c] = "refused" => fate'[c] # "completed"
             /\ (at'[c] \in Early \cup {"refused"} /\ journal' # None) => journal'.tx # c
             /\ at'[c] = "restored" => fate'[c] = "completed"
             /\ at'[c] = "putBack" => fate'[c] = "rolled-back" \/ c \in misled'
  <2>1. at[c] \in Early \cup {"refused"} => c # journal.tx
    BY DEF FateInv
  <2>2. None \notin {"completed", "rolled-back"}
    BY NoneAssumption DEF Outcomes
  <2>3. /\ at[c] = "restored" => fate[c] = "completed"
        /\ at[c] = "putBack" => fate[c] = "rolled-back" \/ c \in misled
        /\ at[c] \in Early => fate[c] = None
        /\ at[c] = "refused" => fate[c] # "completed"
    BY DEF TellsTruth, FateInv
  <2>4. fate[c] # None => fate'[c] = fate[c]
    BY <1>4
  <2>5. c # journal.tx => fate'[c] = fate[c]
    BY <1>3
  <2>6. at'[c] = at[c] /\ journal'.tx = journal.tx /\ (c \in misled => c \in misled')
    BY <1>2
  <2> QED
    BY <2>1, <2>2, <2>3, <2>4, <2>5, <2>6
<1>6. receipt' # None => fate'[receipt'.tx] = receipt'.outcome
  <2>1. CASE receipt = None
    BY <2>1
  <2>2. CASE receipt # None
    <3>1. receipt.tx \in Clis /\ receipt.outcome \in Outcomes
      BY <1>2, <2>2 DEF Receipts
    <3>2. fate[receipt.tx] = receipt.outcome /\ receipt.outcome # None
      BY <2>2, <3>1, NoneAssumption DEF FateInv
    <3> QED
      BY <1>4, <3>1, <3>2
  <2> QED
    BY <2>1, <2>2
<1>7. /\ Phase' \notin {"preparing", "applying", "pending-boot"}
      /\ Phase' = "rolling-back" => fate'[journal'.tx] = "rolled-back"
      /\ Phase' = "finalizing" => fate'[journal'.tx] = "completed"
  BY <1>1, <1>2, <1>3 DEF Outcomes
<1> QED
  BY <1>5, <1>6, <1>7 DEF FateInv, TellsTruth


LEMMA WriteJournalReports ==
  ASSUME Control, FateInv, TellsTruth, NEW c \in Clis, WriteJournal(c)
  PROVE  FateInv' /\ TellsTruth'
<1>1. /\ journal = None /\ at[c] = "locked" /\ at' = [at EXCEPT ![c] = "applying"]
      /\ at \in [Actors -> ServerStages \cup CliStages] /\ c \in Actors
      /\ UNCHANGED <<receipt, fate, misled>>
  BY DEF WriteJournal, Goes, Control, TypeOK, Actors
<1>2. journal' # None /\ journal'.tx = c /\ Phase' = "preparing"
  <2>1. journal' = [tx |-> c, gen |-> asked[c].gen, phase |-> "preparing",
                    orig |-> {i \in Parts : target[i] # None}, repl |-> {}]
    BY DEF WriteJournal
  <2>2. asked[c].gen \in Gens
    BY OrdersAssumption DEF Control, TypeOK
  <2>3. journal' \in Journals
    BY <2>1, <2>2 DEF Journals, Phases
  <2> QED
    BY <2>1, <2>3, NoneAssumption DEF Phase
<1>3. fate[c] = None
  BY <1>1 DEF FateInv, Early
<1>4. \A d \in Clis : at'[d] = IF d = c THEN "applying" ELSE at[d]
  BY <1>1 DEF Actors
<1> QED
  BY <1>1, <1>2, <1>3, <1>4 DEF FateInv, TellsTruth, Early

LEMMA FateStep ==
  ASSUME Control, Reports, [Next]_vars
  PROVE  FateInv' /\ TellsTruth'
<1> USE DEF disk, files, loop, server, history, bounds, Reports
<1> /\ at \in [Actors -> ServerStages \cup CliStages] /\ "server" \in Actors
    /\ \A c \in Clis : c \in Actors /\ c # "server"
  BY ClisAssumption DEF Control, TypeOK, Actors
<1>1. CASE UNCHANGED vars
  BY <1>1, HonestKeeps DEF vars, Honest
<1>2. CASE UndoRemove \/ UndoRename \/ UndoDrop \/ UndoNext \/ FinishDrop \/ FinishNext
  BY <1>2, HonestKeeps
  DEF UndoRemove, UndoRename, UndoDrop, UndoNext, FinishDrop, FinishNext, OnlyFiles, Honest
<1>3. CASE Prepare \/ MoveAside \/ PutIn
  BY <1>3, HonestKeeps DEF Prepare, MoveAside, PutIn, OnlyFiles, Honest
<1>4. CASE Report
  <2>1. /\ receipt'.tx = journal.tx /\ UNCHANGED <<journal, at, fate, misled>>
        /\ receipt'.outcome = IF doing = "undo" THEN "rolled-back" ELSE "completed"
    BY <1>4 DEF Report
  <2>2. Phase = IF doing = "undo" THEN "rolling-back" ELSE "finalizing"
    BY <1>4 DEF Report, Control, TypeOK, LoopShape
  <2> QED
    BY <2>1, <2>2, HonestKeeps DEF Honest, FateInv
<1>5. CASE Close
  <2>1. journal' = None /\ journal # None /\ UNCHANGED <<receipt, fate, misled>>
    BY <1>5 DEF Close, Control, TypeOK, LoopShape
  <2>2. lock \in Actors /\ \A c \in Clis : c # lock => at'[c] = at[c]
    BY <1>5 DEF Close, Loaded, Control, TypeOK
  <2>3. ASSUME lock \in Clis PROVE Honest(lock)
    <3>1. CASE at[lock] = "loading"
      BY <1>5, <2>3, <3>1 DEF Close, Loaded, Honest, Early
    <3>2. CASE at[lock] # "loading"
      <4>1. /\ doing \in {"undo", "finish"} /\ at[lock] \in {"applying", "settling"}
            /\ doing = "undo"
        BY <1>5, <2>3, <3>2 DEF Close, Control, TypeOK, LoopShape, Holder, CliStages
      <4>2. fate[journal.tx] = "rolled-back"
        BY <4>1 DEF FateInv, Control, LoopShape
      <4>3. at'[lock] = After(at[lock])
        BY <1>5, <2>2, <3>2 DEF Close
      <4>4. CASE at[lock] = "applying"
        BY <2>1, <4>1, <4>2, <4>3, <4>4 DEF After, OwnInv, Honest
      <4>5. CASE at[lock] = "settling"
        BY <2>1, <4>1, <4>2, <4>3, <4>5 DEF After, OwnInv, Honest, Early
      <4> QED
        BY <4>1, <4>4, <4>5
    <3> QED
      BY <3>1, <3>2
  <2>4. \A c \in Clis : Honest(c)
    BY <2>2, <2>3 DEF Honest
  <2> QED
    BY <2>1, <2>4, HonestKeeps
<1>6. CASE BeginApply
  <2>1. /\ journal # None /\ journal \in Journals /\ Phase = "preparing"
        /\ journal' = [journal EXCEPT !.phase = "applying", !.repl = Has[journal.gen]]
        /\ UNCHANGED <<receipt, at, fate, misled>>
    BY <1>6 DEF BeginApply, Control, TypeOK, LoopShape
  <2>2. journal'.tx = journal.tx /\ Phase' \in {"applying", "none"} /\ (Phase' = "none" => journal' = None)
    BY <2>1 DEF Phase, Journals
  <2> QED
    BY <2>1, <2>2, HonestKeeps DEF Honest, Undecided
<1>7. CASE AwaitBoot
  <2>1. /\ journal # None /\ Phase = "applying" /\ at' = [at EXCEPT ![lock] = "applied"]
        /\ WritePhase("pending-boot") /\ UNCHANGED <<receipt, fate, misled>>
    BY <1>7 DEF AwaitBoot, Control, TypeOK, LoopShape
  <2>2. journal'.tx = journal.tx /\ Phase' = "pending-boot"
    BY <2>1, PhaseWritten DEF Control, Phases
  <2>3. \A c \in Clis : Honest(c)
    BY <2>1 DEF Honest, Early
  <2> QED
    BY <2>1, <2>2, <2>3, HonestKeeps DEF Undecided
<1>8. CASE ApplyFails
  <2>1. journal # None /\ Phase # "finalizing"
    BY <1>8 DEF ApplyFails, Control, LoopShape
  <2> QED
    BY <1>8, <2>1, FateDecided DEF ApplyFails, BeginUndo, Control
<1>9. CASE BootConfirms
  BY <1>9, FateDecided DEF BootConfirms, BeginFinish, Control, Phase
<1>10. CASE /\ BootFails /\ Phase \notin {"none", "finalizing"} /\ BeginUndo
            /\ at' = [at EXCEPT !["server"] = "failing"] /\ UNCHANGED <<lock, gap, misled>>
  <2>1. journal # None /\ \A c \in Clis : at'[c] = at[c]
    BY <1>10 DEF Phase
  <2> QED
    BY <1>10, <2>1, FateDecided DEF BeginUndo, Control
<1>11. ASSUME NEW a \in Actors, LoadRecovers(a) PROVE FateInv' /\ TellsTruth'
  BY <1>11, FateDecided DEF LoadRecovers, LoadFinishes, LoadUndoes, BeginUndo, BeginFinish, Control, Phase
<1>12. ASSUME NEW c \in Clis, CliUndoes(c) PROVE FateInv' /\ TellsTruth'
  <2>1. journal # None /\ Phase # "finalizing" /\ BeginUndo /\ UNCHANGED at /\ misled \subseteq misled'
    BY <1>12 DEF CliUndoes, Phase
  <2> QED
    BY <2>1, FateDecided DEF BeginUndo, Control
<1>13. ASSUME NEW c \in Clis, WriteJournal(c) PROVE FateInv' /\ TellsTruth'
  BY <1>13, WriteJournalReports
<1>14. CASE Spawn \/ ServerLocks \/ BootServes \/ HandEnables \/ HandStarts
  BY <1>14, HonestKeeps DEF Spawn, ServerLocks, BootServes, HandEnables, HandStarts, Goes, Honest
<1>15. CASE BootFails /\ Quiet
  BY <1>15, HonestKeeps DEF BootFails, Quiet, Goes, Honest
<1>16. CASE ManagerStops
  BY <1>16, HonestKeeps DEF ManagerStops, Dies, Honest
<1>17. ASSUME NEW a \in Actors, LoadsAsItIs(a) PROVE FateInv' /\ TellsTruth'
  BY <1>17, HonestKeeps DEF LoadsAsItIs, Loaded, Honest, Early
<1>18. ASSUME NEW a \in Actors, LoadThrows(a) PROVE FateInv' /\ TellsTruth'
  BY <1>18, HonestKeeps DEF LoadThrows, Goes, Honest, Early
<1>19. ASSUME NEW a \in Actors, Crash(a) PROVE FateInv' /\ TellsTruth'
  BY <1>19, HonestKeeps DEF Crash, Dies, Honest, Early
<1>20. ASSUME NEW c \in Clis, CliStep(c), ~WriteJournal(c), ~CliUndoes(c)
       PROVE  FateInv' /\ TellsTruth'
  <2>1. UNCHANGED <<journal, receipt, fate>> /\ misled \subseteq misled'
        /\ \A d \in Clis : d # c => at'[d] = at[d]
    <3>1. CASE CliBegins(c) \/ CliPlans(c) \/ CliStops(c) \/ CliSeesOffline(c) \/ CliLocks(c)
      BY <3>1 DEF CliBegins, CliPlans, CliStops, CliSeesOffline, CliLocks, Steps, Goes
    <3>2. CASE CliRefuses(c) \/ CliReleases(c) \/ CleanupFails(c) \/ CliStarts(c)
      BY <3>2 DEF CliRefuses, CliReleases, CleanupFails, CliStarts, Steps, Goes
    <3>3. CASE CliConfirms(c) \/ CliStopsAgain(c) \/ CliFindsNone(c) \/ CliLeavesIt(c)
      BY <3>3 DEF CliConfirms, CliStopsAgain, CliFindsNone, CliLeavesIt, Steps, Goes
    <3>4. CASE CliFails(c)
      BY <3>4 DEF CliFails, Steps, Goes
    <3> QED
      BY <1>20, <3>1, <3>2, <3>3, <3>4 DEF CliStep
  <2>2. Honest(c)
    <3>1. CASE CliBegins(c) \/ CliPlans(c) \/ CliStops(c) \/ CliSeesOffline(c) \/ CliLocks(c)
      BY <3>1 DEF CliBegins, CliPlans, CliStops, CliSeesOffline, CliLocks, Goes, Honest, Early
    <3>2. CASE CliRefuses(c)
      BY <3>2 DEF CliRefuses, Honest, Early
    <3>3. CASE CliReleases(c) \/ CleanupFails(c) \/ CliStarts(c) \/ CliStopsAgain(c) \/ CliLeavesIt(c)
      BY <3>3 DEF CliReleases, CleanupFails, CliStarts, CliStopsAgain, CliLeavesIt, Goes, Honest, Early
    <3>4. CASE CliConfirms(c)
      <4>1. receipt # None /\ receipt.tx = c /\ receipt.outcome = "completed"
        BY <3>4, NoneAssumption DEF CliConfirms, Receipts, Outcomes
      <4> QED
        BY <3>4, <4>1 DEF CliConfirms, Goes, Honest, FateInv
    <3>5. CASE CliFails(c)
      <4>1. ASSUME receipt = [tx |-> c, outcome |-> "rolled-back"] PROVE fate[c] = "rolled-back"
        <5>1. receipt # None /\ receipt.tx = c /\ receipt.outcome = "rolled-back"
          BY <4>1, NoneAssumption DEF Receipts, Outcomes
        <5> QED
          BY <5>1 DEF FateInv
      <4> QED
        BY <3>5, <4>1 DEF CliFails, Goes, Honest, Early
    <3>6. CASE CliFindsNone(c)
      BY <3>6 DEF CliFindsNone, Goes, Honest
    <3> QED
      BY <1>20, <3>1, <3>2, <3>3, <3>4, <3>5, <3>6 DEF CliStep
  <2> QED
    BY <2>1, <2>2, HonestKeeps DEF Honest
<1>21. ASSUME NEW a \in Actors, Load(a) \/ Crash(a) PROVE FateInv' /\ TellsTruth'
  BY <1>11, <1>17, <1>18, <1>19, <1>21 DEF Load, LoadRecovers
<1>22. CASE LoopStep
  BY <1>2, <1>3, <1>4, <1>5, <1>6, <1>7, <1>22 DEF LoopStep
<1>23. CASE Boot
  <2>1. CASE Quiet
    BY <1>9, <1>14, <1>15, <1>23, <2>1 DEF Boot
  <2> QED
    BY <1>8, <1>9, <1>10, <1>11, <1>12, <1>13, <1>22, <2>1, StepKinds
<1>24. ASSUME NEW c \in Clis, CliStep(c) PROVE FateInv' /\ TellsTruth'
  BY <1>12, <1>13, <1>20, <1>24
<1> QED
  BY <1>1, <1>8, <1>14, <1>16, <1>21, <1>22, <1>23, <1>24 DEF Next


LEMMA OwnStep ==
  ASSUME Control, OwnInv, [Next]_vars
  PROVE  OwnInv'
<1> USE DEF disk, files, loop, server, history, bounds
<1> DEFINE Kept == doing # "nothing" /\ lock' = lock /\ at'[lock] = at[lock]
<1>a. ASSUME doing' = "nothing" \/ Kept, misled \subseteq misled',
             journal' = journal \/ journal'.tx = journal.tx
      PROVE  OwnInv'
  BY <1>a DEF OwnInv
<1> /\ at \in [Actors -> ServerStages \cup CliStages] /\ "server" \in Actors
    /\ \A c \in Clis : c \in Actors /\ c # "server"
    /\ lock \in Actors \cup {None} /\ None \notin Actors
    /\ doing # "nothing" => lock # None
  BY ClisAssumption, NoneAssumption DEF Control, TypeOK, LoopShape, Actors
<1> DEFINE Working == {"loading", "applying", "settling", "booting", "failing"}
<1> HIDE DEF Kept
<1>b. doing # "nothing" => at[lock] \in Working
  BY DEF Control, TypeOK, LoopShape
<1>1. CASE UNCHANGED vars
  BY <1>1, <1>a DEF vars, Kept
<1>2. CASE UndoRemove \/ UndoRename \/ UndoDrop \/ UndoNext \/ FinishDrop \/ FinishNext
  <2>1. doing # "nothing" /\ UNCHANGED <<lock, at, journal, misled>>
    BY <1>2 DEF UndoRemove, UndoRename, UndoDrop, UndoNext, FinishDrop, FinishNext,
       Undoing, Finishing, OnlyFiles
  <2> QED
    BY <2>1, <1>a DEF Kept
<1>3. CASE Prepare \/ MoveAside \/ PutIn
  <2>1. doing # "nothing" /\ UNCHANGED <<lock, at, journal, misled>>
    BY <1>3 DEF Prepare, MoveAside, PutIn, Applying, OnlyFiles
  <2> QED
    BY <2>1, <1>a DEF Kept
<1>4. CASE Report
  <2>1. doing # "nothing"
    BY <1>4 DEF Report, Control, LoopShape
  <2> QED
    BY <1>4, <2>1, <1>a DEF Report, Kept
<1>5. CASE Close \/ AwaitBoot
  BY <1>5 DEF Close, AwaitBoot, Idle, OwnInv
<1>6. CASE BeginApply
  <2>1. /\ journal \in Journals /\ doing = "prepare"
        /\ journal' = [journal EXCEPT !.phase = "applying", !.repl = Has[journal.gen]]
    BY <1>6 DEF BeginApply, Control, TypeOK, LoopShape
  <2>2. journal'.tx = journal.tx
    BY <2>1 DEF Journals
  <2> QED
    BY <1>6, <2>1, <2>2, <1>a DEF BeginApply, Kept
<1>7. CASE ApplyFails
  <2>1. journal # None /\ doing # "nothing"
    BY <1>7 DEF ApplyFails, Control, LoopShape
  <2> QED
    BY <1>7, <2>1, <1>a, UndoBegins DEF ApplyFails, Control, Kept
<1>8. CASE BootConfirms \/ BootFails
  <2>1. lock = "server" /\ at["server"] = "booting"
    BY <1>8 DEF BootConfirms, BootFails, Booting, Control, Holder
  <2>2. CASE doing' = "nothing"
    BY <2>2 DEF OwnInv
  <2>3. CASE doing' # "nothing"
    <3>1. lock' = "server" /\ at'["server"] \in {"booting", "failing"}
      BY <1>8, <2>1, <2>3 DEF BootConfirms, BootFails, Booting, Goes
    <3> QED
      BY <3>1 DEF OwnInv
  <2> QED
    BY <2>2, <2>3
<1>9. ASSUME NEW a \in Actors, LoadRecovers(a) PROVE OwnInv'
  BY <1>9 DEF LoadRecovers, LoadFinishes, LoadUndoes, OwnInv
<1>10. ASSUME NEW c \in Clis, CliUndoes(c) PROVE OwnInv'
  <2>1. journal # None /\ at' = at /\ at[c] = "settling" /\ lock' = c /\ BeginUndo
        /\ misled' = IF journal.tx = c THEN misled ELSE misled \cup {c}
    BY <1>10 DEF CliUndoes, Settling, Phase
  <2>2. journal'.tx = journal.tx
    BY <2>1, UndoBegins DEF Control
  <2> QED
    BY <2>1, <2>2 DEF OwnInv
<1>11. ASSUME NEW c \in Clis, WriteJournal(c) PROVE OwnInv'
  <2>1. lock' = c /\ at'[c] = "applying"
    BY <1>11 DEF WriteJournal, Goes, Control, Holder
  <2>2. journal' = [tx |-> c, gen |-> asked[c].gen, phase |-> "preparing",
                    orig |-> {i \in Parts : target[i] # None}, repl |-> {}]
    BY <1>11 DEF WriteJournal
  <2> QED
    BY <2>1, <2>2 DEF OwnInv
<1>12. CASE Spawn \/ ServerLocks \/ BootServes \/ HandEnables \/ HandStarts
  <2>1. doing # "nothing" => Kept
    <3>1. CASE HandEnables
      BY <3>1 DEF HandEnables, Kept
    <3>2. CASE ~HandEnables
      <4>1. doing # "nothing" => lock' = lock
        BY <1>12, <3>2, <1>b DEF Spawn, ServerLocks, BootServes, HandStarts, Goes, Booting
      <4>2. doing # "nothing" => lock # "server" \/ at'["server"] = at["server"]
        BY <1>12, <3>2, <1>b DEF Spawn, ServerLocks, BootServes, HandStarts, Goes, Booting
      <4>3. \A c \in Clis : at'[c] = at[c]
        BY <1>12, <3>2 DEF Spawn, ServerLocks, BootServes, HandStarts, Goes
      <4> QED
        BY <4>1, <4>2, <4>3 DEF Kept, Actors
    <3> QED
      BY <3>1, <3>2
  <2>2. UNCHANGED <<journal, misled, doing>>
    BY <1>12 DEF Spawn, ServerLocks, BootServes, HandEnables, HandStarts
  <2> QED
    BY <2>1, <2>2, <1>a
<1>13. ASSUME NEW a \in Actors, Dies(a), UNCHANGED <<journal, misled>> PROVE OwnInv'
  <2>1. CASE lock = a
    BY <1>13, <2>1, <1>a DEF Dies, Idle
  <2>2. CASE lock # a
    <3>1. UNCHANGED <<lock, doing>> /\ \A b \in Actors : b # a => at'[b] = at[b]
      BY <1>13, <2>2 DEF Dies, Release
    <3> QED
      BY <1>13, <2>2, <3>1, <1>a DEF Kept
  <2> QED
    BY <2>1, <2>2
<1>14. CASE ManagerStops
  BY <1>13, <1>14 DEF ManagerStops
<1>15. ASSUME NEW a \in Actors, Crash(a) PROVE OwnInv'
  BY <1>13, <1>15 DEF Crash
<1>16. ASSUME NEW a \in Actors, LoadsAsItIs(a) \/ LoadThrows(a) PROVE OwnInv'
  <2>1. lock # a /\ UNCHANGED <<journal, misled, lock, doing>>
        /\ \A b \in Actors : b # a => at'[b] = at[b]
    BY <1>16 DEF LoadsAsItIs, LoadThrows, Loaded, Goes
  <2> QED
    BY <2>1, <1>a DEF Kept
<1>17. ASSUME NEW c \in Clis, CliStep(c), ~WriteJournal(c), ~CliUndoes(c) PROVE OwnInv'
  <2>1. UNCHANGED <<journal, doing>> /\ misled \subseteq misled'
        /\ \A b \in Actors : b # c => at'[b] = at[b]
    <3>1. CASE CliBegins(c) \/ CliPlans(c) \/ CliStops(c) \/ CliSeesOffline(c) \/ CliLocks(c)
      BY <3>1 DEF CliBegins, CliPlans, CliStops, CliSeesOffline, CliLocks, Steps, Goes
    <3>2. CASE CliRefuses(c) \/ CliReleases(c) \/ CleanupFails(c) \/ CliStarts(c)
      BY <3>2 DEF CliRefuses, CliReleases, CleanupFails, CliStarts, Steps, Goes
    <3>3. CASE CliConfirms(c) \/ CliStopsAgain(c) \/ CliFindsNone(c) \/ CliLeavesIt(c)
      BY <3>3 DEF CliConfirms, CliStopsAgain, CliFindsNone, CliLeavesIt, Steps, Goes
    <3>4. CASE CliFails(c)
      BY <3>4 DEF CliFails, Steps, Goes
    <3> QED
      BY <1>17, <3>1, <3>2, <3>3, <3>4 DEF CliStep
  <2>2. doing # "nothing" => lock # c /\ lock' = lock
    <3>1. CASE CliBegins(c) \/ CliPlans(c) \/ CliStops(c) \/ CliSeesOffline(c) \/ CliLocks(c)
      BY <3>1 DEF CliBegins, CliPlans, CliStops, CliSeesOffline, CliLocks, Steps, Goes,
         Control, Holder
    <3>2. CASE CliRefuses(c) \/ CliReleases(c) \/ CleanupFails(c) \/ CliStarts(c)
      <4>1. at[c] \in {"planned", "stopping", "offline", "locked", "applied", "starting"}
        BY <3>2 DEF CliRefuses, CliReleases, CleanupFails, CliStarts, Goes
      <4>2. doing # "nothing" => lock # c /\ at[c] \notin {"locked", "applied"}
        BY <1>b, <4>1 DEF Control, Holder
      <4> QED
        BY <3>2, <4>2 DEF CliRefuses, CliReleases, CleanupFails, CliStarts, Goes, Release, Steps
    <3>3. CASE CliConfirms(c) \/ CliStopsAgain(c) \/ CliFindsNone(c) \/ CliLeavesIt(c)
      BY <3>3 DEF CliConfirms, CliStopsAgain, CliFindsNone, CliLeavesIt, Settling, Steps, Goes,
         Control, Holder
    <3>4. CASE CliFails(c)
      BY <3>4 DEF CliFails, Steps, Goes, Control, Holder
    <3> QED
      BY <1>17, <3>1, <3>2, <3>3, <3>4 DEF CliStep
  <2> QED
    BY <2>1, <2>2, <1>a DEF Kept
<1> QED
  BY <1>1, <1>2, <1>3, <1>4, <1>5, <1>6, <1>7, <1>8, <1>9, <1>10, <1>11, <1>12, <1>14, <1>15,
     <1>16, <1>17
  DEF Next, LoopStep, Load, LoadRecovers, Boot


-----------------------------------------------------------------------------
(* The theorems. *)

LEMMA InitHolds == Init => Inv /\ Atomic!Init
<1> SUFFICES ASSUME Init PROVE Inv /\ Atomic!Init
  OBVIOUS
<1> USE DEF Init
<1>1. PICK g \in Gens \ Bad : target = Files(g) /\ cfg = g
  OBVIOUS
<1>2. /\ journal = None /\ Phase = "none" /\ receipt = None /\ doing = "nothing"
      /\ lock = "server" /\ at["server"] = "serving" /\ \A c \in Clis : at[c] = "new"
  BY ClisAssumption DEF Phase, Actors
<1>3. TypeOK
  <2>1. target \in [Parts -> Gens \cup {None}] /\ cfg \in Gens
    BY <1>1 DEF Files
  <2>2. at \in [Actors -> ServerStages \cup CliStages] /\ "serving" \in ServerStages /\ "new" \in CliStages
    BY DEF ServerStages, CliStages
  <2>3. cur \in 0..(N + 1) /\ faults \in 0..MaxFaults /\ hands \in 0..MaxHands
    BY PartsAssumption, BoundsAssumption
  <2> QED
    BY <1>2, <2>1, <2>2, <2>3, OrdersAssumption DEF TypeOK, Actors
<1>4. Control
  BY <1>2, <1>3, ClisAssumption, NoneAssumption DEF Control, Holder, LoopShape, Actors
<1>5. Installed = target /\ target \in Instances /\ ToUndo = None
  BY <1>1, <1>2 DEF Installed, ToUndo, Stands, Instances
<1>6. FilesInv
  BY <1>2, <1>5 DEF FilesInv, JournalInv, ApplyInv, UndoInv, FinishInv, WholeInv
<1>7. ServerInv
  BY <1>1, <1>2, PartsAssumption, HasAssumption DEF ServerInv, Stands, Files
<1>8. Reports
  BY <1>2, NoneAssumption DEF Reports, FateInv, OwnInv, TellsTruth, Outcomes, Early
<1>9. Atomic!Init
  BY <1>5 DEF Atomic!Init
<1> QED
  BY <1>4, <1>6, <1>7, <1>8, <1>9 DEF Inv

LEMMA InvStep == Inv /\ [Next]_vars => Inv' /\ Atomically
<1> SUFFICES ASSUME Inv, [Next]_vars PROVE Inv' /\ Atomically
  OBVIOUS
<1>1. Control' /\ FilesInv' /\ Atomically /\ ServerInv'
  BY TypeStep, HolderStep, LoopShapeStep, FilesStep, ServerStep DEF Inv, Control
<1>2. Reports'
  BY FateStep, OwnStep DEF Inv, Reports
<1> QED
  BY <1>1, <1>2 DEF Inv

\* Every file, the journal, the receipt, the lock and every process stay within
\* their types, in every execution of restores, boots and recoveries.
THEOREM TypeCorrect == Spec => []TypeOK
<1>1. Inv => TypeOK
  BY DEF Inv, Control
<1> QED
  BY InitHolds, InvStep, <1>1, PTL DEF Spec

\* The journal, its phases and the order of the renames make the replacement of
\* all the files one atomic step that can be undone until the instance served.
THEOREM RestoresAreAtomic == Spec => RestoreIsAtomic
<1>1. Atomically => [Atomic!Next]_<<Installed, ToUndo>>
  BY DEF Atomically, Same, Atomic!Next
<1> QED
  BY InitHolds, InvStep, <1>1, PTL DEF Spec, RestoreIsAtomic, Atomic!Spec

\* A server that is booting or serving finds the whole instance whose config it read.
THEOREM ServersOpenWholeInstances == Spec => []WholeWhenOpen
<1>1. Inv => WholeWhenOpen
  <2> SUFFICES ASSUME Inv, at["server"] \in Open, ~gap PROVE target = Files(cfg)
    BY DEF WholeWhenOpen
  <2>1. Stands /\ cfg = target[Config]
    BY DEF Inv, ServerInv
  <2>2. PICK g \in Gens : target = Files(g)
    BY <2>1 DEF Inv, FilesInv, WholeInv, Installed, Instances
  <2>3. Config \in Parts /\ Config \in Has[g]
    BY PartsAssumption, HasAssumption
  <2> QED
    BY <2>1, <2>2, <2>3 DEF Files
<1> QED
  BY InitHolds, InvStep, <1>1, PTL DEF Spec

\* What a restore command last said of its transaction is what became of it.
THEOREM CommandsTellTheTruth == Spec => []TellsTruth
<1>1. Inv => TellsTruth
  BY DEF Inv, Reports
<1> QED
  BY InitHolds, InvStep, <1>1, PTL DEF Spec
=============================================================================
