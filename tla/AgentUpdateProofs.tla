-------------------------- MODULE AgentUpdateProofs --------------------------
(***************************************************************************)
(* Theorems about AgentUpdate: its types, and that a binary the plane has  *)
(* not accepted keeps its way back, for any releases, any planes and any   *)
(* number of updates, deaths and changes of the plane.                     *)
(***************************************************************************)
EXTENDS AgentUpdate, TLAPS

LEMMA InitInv == Init => Inv
<1> SUFFICES ASSUME Init PROVE Inv
  OBVIOUS
<1> USE VersionsAssumption, PlanesAssumption, ActorsAssumption, BoundsAssumption, NoneAssumption
<1>1. TypeOK
  BY DEF Init, TypeOK, Work, Idle, Stages, Updating, RollingBack, Links, Settles, Reverts
<1>2. ProcessInv
  BY DEF Init, ProcessInv
<1>3. OneAtATime /\ UpdateInv /\ SettleInv /\ RevertInv /\ CopyIsProven
  BY DEF Init, Idle, OneAtATime, MidWork, MidSettle, MidRevert, UpdateInv, SettleInv, RevertInv,
         CopyIsProven
<1>4. WayBack /\ CopyIsAccounted /\ RecordIsTrue
  BY DEF Init, WayBack, CopyIsAccounted, RecordIsTrue
<1>5. RecordInv
  BY DEF Init, Idle, RecordInv
<1> QED
  BY <1>1, <1>2, <1>3, <1>4, <1>5 DEF Inv, FilesInv

-----------------------------------------------------------------------------
(* Types. *)

\* What the end of a process leaves behind is well typed.
LEMMA ExitTypes ==
  ASSUME TypeOK, Exits, JobEnds
  PROVE  /\ run' = None /\ link' \in Links /\ settle' \in Settles /\ revert' \in Reverts
         /\ reverting' = None /\ work' \in [Actors -> Work]
BY VersionsAssumption DEF TypeOK, Exits, JobEnds, Links, Settles, Reverts, Work, Idle, Stages

LEMMA TypeStep ==
  ASSUME TypeOK, [Next]_vars
  PROVE  TypeOK'
<1> USE VersionsAssumption, PlanesAssumption, ActorsAssumption, BoundsAssumption, NoneAssumption
<1> USE DEF TypeOK, disk, daemon, plane, bounds, When
<1>1. CASE UNCHANGED vars
  BY <1>1 DEF vars
<1>2. CASE Spawn
  BY <1>2 DEF Spawn
<1>3. CASE Dial
  BY <1>3 DEF Dial, Links
<1>4. CASE PlaneAccepts
  BY <1>4 DEF PlaneAccepts, Links
<1>5. CASE PlaneHolds
  BY <1>5 DEF PlaneHolds, Links
<1>6. CASE LinkDrops
  BY <1>6 DEF LinkDrops, Links
<1>7. CASE PlaneMoves
  BY <1>7 DEF PlaneMoves, Links
<1>8. CASE MarkAccepted
  BY <1>8 DEF MarkAccepted, Settles
<1>9. CASE SettleReads
  BY <1>9 DEF SettleReads, Settles
<1>10. CASE SettleDropsCopy
  BY <1>10 DEF SettleDropsCopy, Settles
<1>11. CASE SettleDropsMarker
  BY <1>11 DEF SettleDropsMarker, Settles
<1>12. CASE PlaneGivesUp
  BY <1>12 DEF PlaneGivesUp, Links, Settles, Reverts
<1>13. CASE RevertReads
  <2>1. CASE pending = None
    BY <1>13, <2>1, ExitTypes DEF RevertReads
  <2>2. CASE pending # None
    BY <1>13, <2>2 DEF RevertReads, Reverts
  <2> QED
    BY <2>1, <2>2
<1>14. CASE RevertLooks
  <2>1. CASE previous = None
    BY <1>14, <2>1, ExitTypes DEF RevertLooks
  <2>2. CASE previous # None
    BY <1>14, <2>2 DEF RevertLooks, Reverts
  <2> QED
    BY <2>1, <2>2
<1>15. CASE RevertRestores
  <2>1. CASE previous = None
    BY <1>15, <2>1, ExitTypes DEF RevertRestores
  <2>2. CASE previous # None
    BY <1>15, <2>2 DEF RevertRestores, Restores, Reverts
  <2> QED
    BY <2>1, <2>2
<1>16. CASE RevertRecords
  BY <1>16 DEF RevertRecords, Reverts
<1>17. CASE RevertThrows
  BY <1>17, ExitTypes DEF RevertThrows
<1>18. CASE RevertDropsMarker
  BY <1>18, ExitTypes DEF RevertDropsMarker
<1>19. CASE DaemonDies
  BY <1>19, ExitTypes DEF DaemonDies
<1>20. CASE TerminalDies
  BY <1>20 DEF TerminalDies, Work, Idle, Stages
<1>21. ASSUME NEW a \in Actors, Begin(a)
       PROVE  TypeOK'
  <2>1. PICK v \in Versions :
          work' = [work EXCEPT ![a] = [at |-> "fetching",
                                       from |-> IF a = "daemon" THEN run ELSE binary, to |-> v]]
    BY <1>21 DEF Begin
  <2>2. work' \in [Actors -> Work]
    BY <1>21, <2>1 DEF Begin, Work, Stages, Updating
  <2> QED
    BY <1>21, <2>2 DEF Begin
<1>22. ASSUME NEW a \in Actors, Mark(a)
       PROVE  TypeOK'
  BY <1>22 DEF Mark, At, To, Markers, Work, Stages, Updating
<1>23. ASSUME NEW a \in Actors,
              FetchFails(a) \/ Clear(a) \/ Keep(a) \/ KeepFails(a) \/ Swap(a) \/ SwapFails(a)
                \/ Unmark(a)
       PROVE  TypeOK'
  <2>1. work' \in [Actors -> Work]
    BY <1>23 DEF FetchFails, Clear, Keep, KeepFails, Swap, SwapFails, Unmark, At, To, Work, Idle,
                 Stages, Updating
  <2>2. work[a].to \in Versions
    BY DEF Work
  <2>3. CASE FetchFails(a) \/ KeepFails(a)
    BY <2>1, <2>3 DEF FetchFails, KeepFails
  <2>4. CASE Clear(a)
    BY <2>1, <2>4 DEF Clear
  <2>5. CASE SwapFails(a)
    BY <2>1, <2>5 DEF SwapFails
  <2>6. CASE Unmark(a)
    BY <2>1, <2>6 DEF Unmark
  <2>7. CASE Keep(a)
    BY <2>1, <2>7 DEF Keep
  <2>8. CASE Swap(a)
    BY <2>1, <2>2, <2>8 DEF Swap
  <2> QED
    BY <1>23, <2>3, <2>4, <2>5, <2>6, <2>7, <2>8
<1>24. ASSUME NEW a \in Actors,
              RollbackLooks(a) \/ RollbackRenames(a) \/ RollbackDropsMarker(a) \/ LeaveRunning(a)
       PROVE  TypeOK'
  <2>1. work' \in [Actors -> Work]
    BY <1>24 DEF RollbackLooks, RollbackRenames, RollbackDropsMarker, LeaveRunning, At, To, Work,
                 Idle, Stages, RollingBack
  <2>2. CASE RollbackLooks(a)
    BY <2>1, <2>2 DEF RollbackLooks
  <2>3. CASE RollbackRenames(a)
    BY <2>1, <2>3 DEF RollbackRenames, Restores
  <2>4. CASE RollbackDropsMarker(a)
    BY <2>1, <2>4 DEF RollbackDropsMarker
  <2>5. CASE LeaveRunning(a)
    BY <2>1, <2>5 DEF LeaveRunning
  <2> QED
    BY <1>24, <2>2, <2>3, <2>4, <2>5
<1>25. ASSUME NEW a \in Actors, Restart(a)
       PROVE  TypeOK'
  BY <1>25 DEF Restart, Exits, Links, Settles, Reverts, Work, Idle, Stages
<1> QED
  BY <1>1, <1>2, <1>3, <1>4, <1>5, <1>6, <1>7, <1>8, <1>9, <1>10, <1>11, <1>12, <1>13, <1>14, <1>15,
     <1>16, <1>17, <1>18, <1>19, <1>20, <1>21, <1>22, <1>23, <1>24, <1>25 DEF Next

-----------------------------------------------------------------------------
(* The files. *)

\* What nobody in flight means for whoever begins.
LEMMA NobodyInFlight ==
  ASSUME InFlight = {}
  PROVE  ~MidSettle /\ ~MidRevert /\ \A a \in Actors : ~MidWork(a)
BY DEF InFlight, MidSettle, MidRevert, MidWork

LEMMA SlipsStay ==
  ASSUME [Next]_vars
  PROVE  slips \subseteq slips'
BY DEF Next, vars, disk, daemon, plane, bounds, When, Spawn, Dial, PlaneAccepts, PlaneHolds,
       LinkDrops, PlaneMoves, MarkAccepted, SettleReads, SettleDropsCopy, SettleDropsMarker,
       PlaneGivesUp, RevertReads, RevertLooks, RevertRestores, RevertRecords, RevertThrows,
       RevertDropsMarker, Begin, FetchFails, Mark, Clear, Keep, KeepFails, Swap, SwapFails, Unmark,
       RollbackLooks, RollbackRenames, RollbackDropsMarker, Restart, LeaveRunning, DaemonDies,
       TerminalDies

\* The process keeps what it knows of the plane's verdict.
LEMMA ProcessStep ==
  ASSUME TypeOK, ProcessInv, [Next]_vars
  PROVE  ProcessInv'
<1> USE DEF ProcessInv, Unless, disk, daemon, plane, bounds, When
<1>1. CASE UNCHANGED vars
  BY <1>1 DEF vars
<1>2. CASE Spawn \/ Dial \/ PlaneHolds \/ LinkDrops \/ PlaneMoves
  BY <1>2 DEF Spawn, Dial, PlaneHolds, LinkDrops, PlaneMoves
<1>3. CASE PlaneAccepts
  BY <1>3 DEF PlaneAccepts
<1>4. CASE MarkAccepted
  BY <1>4 DEF MarkAccepted
<1>5. CASE SettleReads \/ SettleDropsCopy \/ SettleDropsMarker
  BY <1>5 DEF SettleReads, SettleDropsCopy, SettleDropsMarker
<1>6. CASE PlaneGivesUp
  BY <1>6 DEF PlaneGivesUp
<1>7. CASE RevertReads \/ RevertLooks \/ RevertRestores
  BY <1>7 DEF RevertReads, RevertLooks, RevertRestores, Exits
<1>8. CASE RevertRecords \/ RevertThrows \/ RevertDropsMarker \/ DaemonDies \/ TerminalDies
  BY <1>8 DEF RevertRecords, RevertThrows, RevertDropsMarker, DaemonDies, TerminalDies, Exits
<1>9. ASSUME NEW a \in Actors,
             Begin(a) \/ FetchFails(a) \/ Mark(a) \/ Clear(a) \/ Keep(a) \/ KeepFails(a) \/ Swap(a)
               \/ SwapFails(a) \/ Unmark(a) \/ RollbackLooks(a) \/ RollbackRenames(a)
               \/ RollbackDropsMarker(a) \/ Restart(a) \/ LeaveRunning(a)
      PROVE  ProcessInv'
  BY <1>9 DEF Begin, FetchFails, Mark, Clear, Keep, KeepFails, Swap, SwapFails, Unmark,
              RollbackLooks, RollbackRenames, RollbackDropsMarker, Restart, LeaveRunning, Exits
<1> QED
  BY <1>1, <1>2, <1>3, <1>4, <1>5, <1>6, <1>7, <1>8, <1>9 DEF Next

\* FilesInv, WayBack and CopyIsAccounted without their excuses.
Files ==
    /\ OneAtATime /\ UpdateInv /\ SettleInv /\ RevertInv /\ CopyIsProven
    /\ binary \notin proven => pending # None /\ pending.to = binary /\ previous \in proven
    /\ previous \notin {None, binary} => pending # None

\* A step that leaves the files alone and only takes transactions out of flight.
LEMMA FilesKeep ==
  ASSUME Files, UNCHANGED disk, proven \subseteq proven',
         \A a \in Actors : work'[a] = work[a] \/ work'[a].at \in {"idle", "fetching"},
         settle' = settle \/ settle' \notin {"read", "copyGone"},
         revert' = revert \/ revert' \in {"none", "asked"}
  PROVE  Files'
<1> USE DEF Files, disk
<1>1. OneAtATime'
  BY DEF OneAtATime, MidWork, MidSettle, MidRevert
<1>2. UpdateInv'
  BY DEF UpdateInv
<1>3. SettleInv' /\ RevertInv' /\ CopyIsProven'
  BY DEF SettleInv, RevertInv, CopyIsProven, MidSettle
<1> QED
  BY <1>1, <1>2, <1>3

\* The end of the daemon's process is such a step.
LEMMA FilesExit ==
  ASSUME TypeOK, Files, Exits, JobEnds, UNCHANGED <<disk, proven>>
  PROVE  Files'
BY FilesKeep DEF Exits, JobEnds, Idle, disk

\* The steps of a settlement and of a revert.
LEMMA FilesSettle ==
  ASSUME TypeOK, ProcessInv, Files, Unless(Misreasoned)',
         SettleReads \/ SettleDropsCopy \/ SettleDropsMarker
  PROVE  Files'
<1> USE DEF disk, daemon, plane, bounds
<1>1. CASE SettleReads
  <2>1. CASE pending = None
    BY <1>1, <2>1, FilesKeep DEF SettleReads
  <2>2. CASE pending # None
    <3>1. /\ slips' = slips \cup When("early", pending.to # run) \cup When("crossed", InFlight # {})
          /\ settle = "begun" /\ settle' = "read"
          /\ UNCHANGED <<disk, run, revert, work, proven>>
      BY <1>1, <2>2 DEF SettleReads
    <3>2. InFlight = {} /\ pending.to = run /\ "leaked" \notin slips
      BY <3>1 DEF Unless, Misreasoned, When
    <3>3. run \in proven
      BY <3>1, <3>2 DEF ProcessInv, Unless
    <3>4. OneAtATime'
      BY <3>1, <3>2, NobodyInFlight DEF OneAtATime, MidSettle, MidRevert, MidWork
    <3>5. UpdateInv' /\ RevertInv' /\ CopyIsProven'
      BY <3>1 DEF Files, UpdateInv, RevertInv, CopyIsProven
    <3>6. SettleInv'
      BY <2>2, <3>1, <3>2, <3>3 DEF SettleInv, MidSettle
    <3> QED
      BY <3>1, <3>4, <3>5, <3>6 DEF Files
  <2> QED
    BY <2>1, <2>2
<1>2. ASSUME MidSettle, UNCHANGED <<binary, work, revert, proven>>
      PROVE  /\ \A a \in Actors : ~MidWork(a)
             /\ ~MidRevert /\ UpdateInv' /\ RevertInv'
             /\ pending # None /\ pending.to \in proven /\ binary \in proven
  <2>1. (\A a \in Actors : ~MidWork(a)) /\ ~MidRevert
    BY <1>2 DEF Files, OneAtATime
  <2> QED
    BY <1>2, <2>1 DEF Files, SettleInv, UpdateInv, RevertInv, MidWork, MidRevert
<1>3. CASE SettleDropsCopy
  BY <1>2, <1>3 DEF SettleDropsCopy, Files, OneAtATime, SettleInv, CopyIsProven, MidSettle, MidWork,
                    MidRevert
<1>4. CASE SettleDropsMarker
  BY <1>2, <1>4 DEF SettleDropsMarker, Files, OneAtATime, SettleInv, CopyIsProven, MidSettle,
                    MidWork, MidRevert
<1> QED
  BY <1>1, <1>3, <1>4

LEMMA FilesRevert ==
  ASSUME TypeOK, Files, Unless(Misreasoned)',
         RevertReads \/ RevertLooks \/ RevertRestores \/ RevertRecords \/ RevertDropsMarker
  PROVE  Files'
<1> USE NoneAssumption DEF disk, daemon, plane, bounds
<1>1. CASE RevertReads
  <2>1. CASE pending = None
    BY <1>1, <2>1, FilesExit DEF RevertReads
  <2>2. CASE pending # None
    <3>1. /\ slips' = slips \cup When("crossed", InFlight # {})
          /\ revert' = "read"
          /\ UNCHANGED <<disk, settle, work, proven>>
      BY <1>1, <2>2 DEF RevertReads
    <3>2. InFlight = {}
      BY <3>1 DEF Unless, Misreasoned, When
    <3>3. OneAtATime'
      BY <3>1, <3>2, NobodyInFlight DEF OneAtATime, MidSettle, MidRevert, MidWork
    <3> QED
      BY <3>1, <3>3 DEF Files, UpdateInv, SettleInv, RevertInv, CopyIsProven, MidSettle
  <2> QED
    BY <2>1, <2>2
<1>2. ASSUME MidRevert, UNCHANGED work
      PROVE  /\ ~MidSettle /\ \A a \in Actors : ~MidWork(a)
             /\ UpdateInv'
  BY <1>2 DEF Files, OneAtATime, UpdateInv, MidWork
<1>3. CASE RevertLooks
  <2>1. CASE previous = None
    BY <1>3, <2>1, FilesExit DEF RevertLooks
  <2>2. CASE previous # None
    <3>1. revert' = "runs"
      BY <1>3, <2>2 DEF RevertLooks, Unless, Misreasoned, When
    <3>2. MidRevert /\ UNCHANGED <<disk, work, settle, proven>>
      BY <1>3, <2>2 DEF RevertLooks, MidRevert
    <3> QED
      BY <1>2, <3>1, <3>2 DEF Files, OneAtATime, SettleInv, RevertInv, CopyIsProven, MidSettle,
                              MidRevert, MidWork
  <2> QED
    BY <2>1, <2>2
<1>4. CASE RevertRestores
  <2>1. CASE previous = None
    BY <1>4, <2>1, FilesExit DEF RevertRestores
  <2>2. CASE previous # None
    <3>1. /\ MidRevert /\ revert' = "restored"
          /\ binary' = previous /\ previous' \in {None, previous} /\ binary' \in proven
          /\ UNCHANGED <<pending, work, settle, proven>>
      BY <1>4, <2>2 DEF RevertRestores, Restores, MidRevert, Files, CopyIsProven
    <3> QED
      BY <1>2, <3>1 DEF Files, OneAtATime, SettleInv, RevertInv, CopyIsProven, MidSettle, MidRevert,
                        MidWork
  <2> QED
    BY <2>1, <2>2
<1>5. CASE RevertRecords
  <2>1. revert = "restored" /\ revert' = "recorded" /\ UNCHANGED <<binary, previous, pending, work, settle, proven>>
    BY <1>5 DEF RevertRecords, Files, RevertInv
  <2>2. MidRevert
    BY <2>1 DEF MidRevert
  <2> QED
    BY <1>2, <2>1, <2>2 DEF Files, OneAtATime, SettleInv, RevertInv, CopyIsProven, MidSettle, MidRevert,
                      MidWork
<1>6. CASE RevertDropsMarker
  <2>1. MidRevert /\ Exits /\ JobEnds /\ binary \in proven /\ previous \in {None, binary}
    BY <1>6 DEF RevertDropsMarker, MidRevert, Files, RevertInv
  <2>2. \A a \in Actors : ~MidWork(a)
    BY <2>1 DEF Files, OneAtATime
  <2>3. \A a \in Actors : work'[a].at \in {"idle", "fetching"}
    BY <2>1, <2>2 DEF JobEnds, Idle, MidWork
  <2>4. OneAtATime' /\ UpdateInv' /\ SettleInv' /\ RevertInv'
    BY <2>1, <2>3 DEF Exits, OneAtATime, UpdateInv, SettleInv, RevertInv, MidSettle, MidRevert,
                      MidWork
  <2> QED
    BY <1>6, <2>1, <2>4 DEF RevertDropsMarker, Files, CopyIsProven
<1> QED
  BY <1>1, <1>3, <1>4, <1>5, <1>6

\* Whoever is in flight is alone, and the others' claims are void.
LEMMA Alone ==
  ASSUME Files, NEW a \in Actors, MidWork(a)
  PROVE  /\ ~MidSettle /\ ~MidRevert
         /\ \A b \in Actors : b # a => ~MidWork(b)
BY DEF Files, OneAtATime

LEMMA FilesUpdate ==
  ASSUME TypeOK, Files, Unless(Misreasoned)', NEW a \in Actors,
         Mark(a) \/ Clear(a) \/ Keep(a) \/ KeepFails(a) \/ Swap(a) \/ SwapFails(a) \/ Unmark(a)
  PROVE  Files'
<1> USE NoneAssumption DEF disk, daemon, plane, bounds
<1>1. work \in [Actors -> Work]
  BY DEF TypeOK
<1>2. CASE Mark(a)
  <2>1. /\ slips' = slips \cup When("crossed", InFlight # {}) \cup When("again", pending # None)
                          \cup When("behind", binary # work[a].from)
        /\ work' = [work EXCEPT ![a].at = "marked"]
        /\ pending' = [from |-> work[a].from, to |-> work[a].to]
        /\ UNCHANGED <<binary, previous, settle, revert, proven>>
    BY <1>2 DEF Mark, To
  <2>2. InFlight = {} /\ pending = None
    BY <2>1 DEF Unless, Misreasoned, When
  <2>3. ~MidSettle /\ ~MidRevert /\ \A b \in Actors : ~MidWork(b)
    BY <2>2, NobodyInFlight
  <2>4. binary \in proven /\ previous \in {None, binary}
    BY <2>2 DEF Files
  <2>5. pending' # None /\ pending'.to = work[a].to
    BY <2>1, <1>1 DEF Work, Markers
  <2>6. work'[a].at = "marked" /\ work'[a].to = work[a].to /\ \A b \in Actors : b # a => work'[b] = work[b]
    BY <2>1, <1>1
  <2>7. OneAtATime'
    BY <2>1, <2>3, <2>6 DEF OneAtATime, MidSettle, MidRevert, MidWork
  <2>8. UpdateInv'
    BY <2>1, <2>3, <2>4, <2>5, <2>6 DEF UpdateInv, MidWork
  <2>9. SettleInv' /\ RevertInv' /\ CopyIsProven'
    BY <2>1, <2>3, <2>4 DEF SettleInv, RevertInv, CopyIsProven, MidSettle, MidRevert, Files
  <2> QED
    BY <2>1, <2>4, <2>5, <2>7, <2>8, <2>9 DEF Files
<1>3. ASSUME MidWork(a), NEW s,
             work' = [work EXCEPT ![a].at = s] \/ work' = [work EXCEPT ![a] = Idle],
             UNCHANGED <<settle, revert, proven>>
      PROVE  /\ OneAtATime' /\ SettleInv'
             /\ ~MidRevert
             /\ \A b \in Actors : b # a => work'[b] = work[b] /\ work[b].at \in {"idle", "fetching"}
  <2>1. ~MidSettle /\ ~MidRevert /\ \A b \in Actors : b # a => work'[b] = work[b] /\ ~MidWork(b)
    BY <1>1, <1>3, Alone
  <2> QED
    BY <1>3, <2>1 DEF OneAtATime, SettleInv, MidSettle, MidRevert, MidWork
<1>4. CASE Clear(a)
  <2>1. /\ work[a].at = "marked" /\ work' = [work EXCEPT ![a].at = "cleared"] /\ previous' = None
        /\ UNCHANGED <<binary, pending, settle, revert, proven>>
    BY <1>4 DEF Clear, At, To
  <2>2. work'[a].at = "cleared" /\ work'[a].to = work[a].to
    BY <2>1, <1>1
  <2>3. MidWork(a) /\ binary \in proven /\ pending # None /\ pending.to = work[a].to
    BY <2>1 DEF MidWork, Files, UpdateInv
  <2> QED
    BY <1>3, <2>1, <2>2, <2>3 DEF Files, UpdateInv, RevertInv, CopyIsProven, MidRevert
<1>5. CASE Keep(a)
  <2>1. /\ work[a].at = "cleared" /\ work' = [work EXCEPT ![a].at = "kept"] /\ previous' = binary
        /\ UNCHANGED <<binary, pending, settle, revert, proven>>
    BY <1>5 DEF Keep, At, To
  <2>2. work'[a].at = "kept" /\ work'[a].to = work[a].to
    BY <2>1, <1>1
  <2>3. MidWork(a) /\ binary \in proven /\ pending # None /\ pending.to = work[a].to
    BY <2>1 DEF MidWork, Files, UpdateInv
  <2> QED
    BY <1>3, <2>1, <2>2, <2>3 DEF Files, UpdateInv, RevertInv, CopyIsProven, MidRevert
<1>6. CASE KeepFails(a)
  <2>1. /\ work[a].at = "cleared" /\ work' = [work EXCEPT ![a].at = "unkept"]
        /\ UNCHANGED <<binary, previous, pending, settle, revert, proven>>
    BY <1>6 DEF KeepFails, At, To
  <2>2. work'[a].at = "unkept" /\ work'[a].to = work[a].to
    BY <2>1, <1>1
  <2>3. MidWork(a) /\ binary \in proven /\ pending # None /\ pending.to = work[a].to
    BY <2>1 DEF MidWork, Files, UpdateInv
  <2> QED
    BY <1>3, <2>1, <2>2, <2>3 DEF Files, UpdateInv, RevertInv, CopyIsProven, MidRevert
<1>7. CASE Swap(a)
  <2>1. /\ work[a].at = "kept" /\ work' = [work EXCEPT ![a].at = "swapped"] /\ binary' = work[a].to
        /\ UNCHANGED <<previous, pending, settle, revert, proven>>
    BY <1>7 DEF Swap, At, To
  <2>2. work'[a].at = "swapped"
    BY <2>1, <1>1
  <2>3. MidWork(a) /\ previous \in proven /\ pending # None /\ pending.to = work[a].to
    BY <2>1 DEF MidWork, Files, UpdateInv
  <2> QED
    BY <1>3, <2>1, <2>2, <2>3 DEF Files, UpdateInv, RevertInv, CopyIsProven, MidRevert
<1>8. CASE SwapFails(a)
  <2>1. /\ work[a].at = "kept" /\ work' = [work EXCEPT ![a].at = "unkept"] /\ previous' = None
        /\ UNCHANGED <<binary, pending, settle, revert, proven>>
    BY <1>8 DEF SwapFails, At, To
  <2>2. work'[a].at = "unkept" /\ work'[a].to = work[a].to
    BY <2>1, <1>1
  <2>3. MidWork(a) /\ binary \in proven /\ pending # None /\ pending.to = work[a].to
    BY <2>1 DEF MidWork, Files, UpdateInv
  <2> QED
    BY <1>3, <2>1, <2>2, <2>3 DEF Files, UpdateInv, RevertInv, CopyIsProven, MidRevert
<1>9. CASE Unmark(a)
  <2>1. /\ work[a].at = "unkept" /\ work' = [work EXCEPT ![a] = Idle] /\ pending' = None
        /\ UNCHANGED <<binary, previous, settle, revert, proven>>
    BY <1>9 DEF Unmark, At
  <2>2. work'[a].at = "idle"
    BY <2>1, <1>1 DEF Idle
  <2>3. MidWork(a) /\ binary \in proven /\ previous = None
    BY <2>1 DEF MidWork, Files, UpdateInv
  <2> QED
    BY <1>3, <2>1, <2>2, <2>3 DEF Files, UpdateInv, RevertInv, CopyIsProven, MidRevert
<1> QED
  BY <1>2, <1>4, <1>5, <1>6, <1>7, <1>8, <1>9

LEMMA FilesRollback ==
  ASSUME TypeOK, Files, Unless(Misreasoned)', NEW a \in Actors,
         RollbackLooks(a) \/ RollbackRenames(a) \/ RollbackDropsMarker(a)
  PROVE  Files'
<1> USE NoneAssumption DEF disk, daemon, plane, bounds
<1>1. work \in [Actors -> Work]
  BY DEF TypeOK
<1>2. CASE RollbackLooks(a)
  <2>1. /\ slips' = slips \cup When("crossed", InFlight # {})
        /\ work' = [work EXCEPT ![a].at = "looked"]
        /\ UNCHANGED <<disk, settle, revert, proven>>
    BY <1>2 DEF RollbackLooks, To
  <2>2. InFlight = {}
    BY <2>1 DEF Unless, Misreasoned, When
  <2>3. work'[a].at = "looked" /\ \A b \in Actors : b # a => work'[b] = work[b]
    BY <2>1, <1>1
  <2>4. OneAtATime'
    BY <2>1, <2>2, <2>3, NobodyInFlight DEF OneAtATime, MidSettle, MidRevert, MidWork
  <2>5. UpdateInv'
    BY <2>1, <2>3 DEF Files, UpdateInv
  <2> QED
    BY <2>1, <2>4, <2>5 DEF Files, SettleInv, RevertInv, CopyIsProven, MidSettle
<1>3. CASE RollbackRenames(a)
  <2>1. CASE previous = None
    <3>1. work' = [work EXCEPT ![a] = Idle] /\ UNCHANGED <<disk, settle, revert, proven>>
      BY <1>3, <2>1 DEF RollbackRenames
    <3> QED
      BY <1>1, <3>1, FilesKeep DEF Idle
  <2>2. CASE previous # None
    <3>1. /\ work[a].at = "looked" /\ work' = [work EXCEPT ![a].at = "rolled"]
          /\ binary' = previous /\ previous' \in {None, previous}
          /\ UNCHANGED <<pending, settle, revert, proven>>
      BY <1>3, <2>2 DEF RollbackRenames, Restores, At, To
    <3>2. binary' \in proven /\ MidWork(a)
      BY <2>2, <3>1 DEF Files, CopyIsProven, MidWork
    <3>3. ~MidSettle /\ ~MidRevert /\ \A b \in Actors : b # a => ~MidWork(b)
      BY <3>2, Alone
    <3>4. work'[a].at = "rolled" /\ \A b \in Actors : b # a => work'[b] = work[b]
      BY <3>1, <1>1
    <3>5. OneAtATime' /\ UpdateInv'
      BY <3>1, <3>2, <3>3, <3>4 DEF OneAtATime, UpdateInv, MidSettle, MidRevert, MidWork
    <3> QED
      BY <3>1, <3>2, <3>3, <3>5 DEF Files, SettleInv, RevertInv, CopyIsProven, MidSettle, MidRevert
  <2> QED
    BY <2>1, <2>2
<1>4. CASE RollbackDropsMarker(a)
  <2>1. /\ work[a].at = "rolled" /\ work' = [work EXCEPT ![a].at = "rolledBack"] /\ pending' = None
        /\ UNCHANGED <<binary, previous, settle, revert, proven>>
    BY <1>4 DEF RollbackDropsMarker, At, To
  <2>2. binary \in proven /\ previous \in {None, binary} /\ MidWork(a)
    BY <2>1 DEF Files, UpdateInv, MidWork
  <2>3. ~MidSettle /\ ~MidRevert /\ \A b \in Actors : b # a => ~MidWork(b)
    BY <2>2, Alone
  <2>4. work'[a].at = "rolledBack" /\ \A b \in Actors : b # a => work'[b] = work[b]
    BY <2>1, <1>1
  <2>5. OneAtATime' /\ UpdateInv'
    BY <2>1, <2>3, <2>4 DEF OneAtATime, UpdateInv, MidSettle, MidRevert, MidWork
  <2> QED
    BY <2>1, <2>2, <2>3, <2>5 DEF Files, SettleInv, RevertInv, CopyIsProven, MidSettle, MidRevert
<1> QED
  BY <1>2, <1>3, <1>4

\* While no excuse stands, every step keeps what is claimed of the files.
LEMMA FilesStep ==
  ASSUME TypeOK, ProcessInv, Files, Unless(Misreasoned)', [Next]_vars
  PROVE  Files'
<1> USE DEF disk, daemon, plane, bounds
<1>1. CASE UNCHANGED vars
  BY <1>1, FilesKeep DEF vars
<1>2. CASE Spawn \/ Dial \/ PlaneHolds \/ LinkDrops \/ PlaneMoves
  BY <1>2, FilesKeep DEF Spawn, Dial, PlaneHolds, LinkDrops, PlaneMoves
<1>3. CASE PlaneAccepts
  BY <1>3, FilesKeep DEF PlaneAccepts
<1>4. CASE MarkAccepted
  BY <1>4, FilesKeep DEF MarkAccepted
<1>5. CASE SettleReads \/ SettleDropsCopy \/ SettleDropsMarker
  BY <1>5, FilesSettle
<1>6. CASE PlaneGivesUp
  BY <1>6, FilesKeep DEF PlaneGivesUp
<1>7. CASE RevertReads \/ RevertLooks \/ RevertRestores \/ RevertRecords \/ RevertDropsMarker
  BY <1>7, FilesRevert
<1>8. CASE RevertThrows \/ DaemonDies
  BY <1>8, FilesExit DEF RevertThrows, DaemonDies
<1>9. CASE TerminalDies
  BY <1>9, FilesKeep DEF TerminalDies, TypeOK, Idle
<1>10. ASSUME NEW a \in Actors, Begin(a)
       PROVE  Files'
  <2>1. \A b \in Actors : work'[b] = work[b] \/ work'[b].at = "fetching"
    BY <1>10 DEF Begin, TypeOK
  <2> QED
    BY <1>10, <2>1, FilesKeep DEF Begin
<1>11. ASSUME NEW a \in Actors, FetchFails(a) \/ LeaveRunning(a)
       PROVE  Files'
  BY <1>11, FilesKeep DEF FetchFails, LeaveRunning, TypeOK, Idle
<1>12. ASSUME NEW a \in Actors, Restart(a)
       PROVE  Files'
  BY <1>12, FilesKeep DEF Restart, Exits, Idle
<1>13. ASSUME NEW a \in Actors,
              Mark(a) \/ Clear(a) \/ Keep(a) \/ KeepFails(a) \/ Swap(a) \/ SwapFails(a) \/ Unmark(a)
       PROVE  Files'
  BY <1>13, FilesUpdate
<1>14. ASSUME NEW a \in Actors,
              RollbackLooks(a) \/ RollbackRenames(a) \/ RollbackDropsMarker(a)
       PROVE  Files'
  BY <1>14, FilesRollback
<1> QED
  BY <1>1, <1>2, <1>3, <1>4, <1>5, <1>6, <1>7, <1>8, <1>9, <1>10, <1>11, <1>12, <1>13, <1>14 DEF Next

-----------------------------------------------------------------------------
(* The record of a revert. *)

Moving == {"marked", "cleared", "unkept", "kept"}
Exact == Misreasoned \cup {"behind"}

\* RecordInv and RecordIsTrue without their excuses.
Record ==
    /\ pending # None /\ previous # None => previous = pending.from
    /\ \A a \in Actors : work[a].at \in Moving => binary = pending.from
    /\ revert \in {"read", "runs"} => pending # None /\ reverting = pending
    /\ revert \in {"restored", "recorded"} => binary = reverting.from

\* A step that leaves the binary and the marker and begins nothing.
LEMMA RecordKeep ==
  ASSUME Record, UNCHANGED <<binary, pending>>, previous' \in {None, previous},
         \A a \in Actors : work'[a].at \in Moving => work[a].at \in Moving,
         revert' \in {"read", "runs"} => revert \in {"read", "runs"} /\ UNCHANGED reverting,
         revert' \in {"restored", "recorded"} =>
             revert \in {"restored", "recorded"} /\ UNCHANGED reverting
  PROVE  Record'
BY DEF Record

LEMMA RecordSettles ==
  ASSUME TypeOK, Files, Record, SettleReads \/ SettleDropsCopy \/ SettleDropsMarker
  PROVE  Record'
<1> USE DEF disk, daemon, plane, bounds
<1>1. CASE SettleReads \/ SettleDropsCopy
  BY <1>1, RecordKeep DEF SettleReads, SettleDropsCopy
<1>2. CASE SettleDropsMarker
  <2>1. ~MidRevert /\ \A a \in Actors : ~MidWork(a)
    BY <1>2 DEF SettleDropsMarker, Files, OneAtATime, MidSettle
  <2> QED
    BY <1>2, <2>1 DEF SettleDropsMarker, Record, MidRevert, MidWork, Moving
<1> QED
  BY <1>1, <1>2

LEMMA RecordReverts ==
  ASSUME TypeOK, Files, Record, Unless(Exact)',
         RevertReads \/ RevertLooks \/ RevertRestores \/ RevertRecords \/ RevertDropsMarker
  PROVE  Record'
<1> USE NoneAssumption DEF disk, daemon, plane, bounds, Exits, JobEnds, Idle
<1>1. CASE RevertReads
  <2>1. CASE pending = None
    BY <1>1, <2>1, RecordKeep DEF RevertReads, Moving
  <2>2. CASE pending # None
    BY <1>1, <2>2 DEF RevertReads, Record
  <2> QED
    BY <2>1, <2>2
<1>2. CASE RevertLooks
  <2>1. CASE previous = None
    BY <1>2, <2>1, RecordKeep DEF RevertLooks, Moving
  <2>2. CASE previous # None
    BY <1>2, <2>2, RecordKeep DEF RevertLooks
  <2> QED
    BY <2>1, <2>2
<1>3. CASE RevertRestores
  <2>1. CASE previous = None
    BY <1>3, <2>1, RecordKeep DEF RevertRestores, Moving
  <2>2. CASE previous # None
    <3>1. /\ revert = "runs" /\ revert' = "restored"
          /\ binary' = previous /\ previous' \in {None, previous}
          /\ UNCHANGED <<pending, work, reverting>>
      BY <1>3, <2>2 DEF RevertRestores, Restores
    <3>2. \A a \in Actors : ~MidWork(a)
      BY <3>1 DEF Files, OneAtATime, MidRevert
    <3> QED
      BY <2>2, <3>1, <3>2 DEF Record, MidWork, Moving
  <2> QED
    BY <2>1, <2>2
<1>4. CASE RevertRecords
  BY <1>4, RecordKeep DEF RevertRecords, Files, RevertInv
<1>5. CASE RevertDropsMarker
  <2>1. \A a \in Actors : ~MidWork(a)
    BY <1>5 DEF RevertDropsMarker, Files, OneAtATime, MidRevert
  <2> QED
    BY <1>5, <2>1 DEF RevertDropsMarker, Record, MidWork, Moving
<1> QED
  BY <1>1, <1>2, <1>3, <1>4, <1>5

LEMMA RecordUpdates ==
  ASSUME TypeOK, Files, Record, Unless(Exact)', NEW a \in Actors,
         Mark(a) \/ Keep(a) \/ Swap(a) \/ Unmark(a)
           \/ RollbackRenames(a) \/ RollbackDropsMarker(a)
  PROVE  Record'
<1> USE NoneAssumption DEF disk, daemon, plane, bounds
<1>1. work \in [Actors -> Work]
  BY DEF TypeOK
<1>2. CASE Mark(a)
  <2>1. InFlight = {} /\ pending = None /\ binary = work[a].from
    BY <1>2 DEF Mark, Unless, Exact, Misreasoned, When
  <2>2. ~MidRevert /\ \A b \in Actors : ~MidWork(b)
    BY <2>1, NobodyInFlight
  <2>3. previous \in {None, binary}
    BY <2>1 DEF Files
  <2>4. pending'.from = binary /\ UNCHANGED <<binary, previous, revert>>
    BY <1>2, <2>1 DEF Mark
  <2>5. \A b \in Actors : b # a => work'[b] = work[b]
    BY <1>2, <1>1 DEF Mark, To
  <2> QED
    BY <2>2, <2>3, <2>4, <2>5 DEF Record, MidRevert, MidWork, Moving
<1>3. ASSUME MidWork(a)
      PROVE  ~MidRevert /\ \A b \in Actors : b # a => ~MidWork(b)
  BY <1>3, Alone
<1>4. CASE Keep(a)
  <2>1. /\ work[a].at = "cleared" /\ work'[a].at = "kept" /\ previous' = binary
        /\ UNCHANGED <<binary, pending, revert>> /\ \A b \in Actors : b # a => work'[b] = work[b]
    BY <1>4, <1>1 DEF Keep, At, To
  <2> QED
    BY <1>3, <2>1 DEF Record, MidRevert, MidWork, Moving
<1>5. CASE Swap(a)
  <2>1. /\ work[a].at = "kept" /\ work'[a].at = "swapped"
        /\ UNCHANGED <<previous, pending, revert>> /\ \A b \in Actors : b # a => work'[b] = work[b]
    BY <1>5, <1>1 DEF Swap, At, To
  <2> QED
    BY <1>3, <2>1 DEF Record, MidRevert, MidWork, Moving
<1>6. CASE Unmark(a)
  <2>1. /\ work[a].at = "unkept" /\ work'[a].at = "idle" /\ pending' = None
        /\ UNCHANGED <<binary, previous, revert>> /\ \A b \in Actors : b # a => work'[b] = work[b]
    BY <1>6, <1>1 DEF Unmark, At, Idle
  <2> QED
    BY <1>3, <2>1 DEF Record, MidRevert, MidWork, Moving
<1>7. CASE RollbackRenames(a)
  <2>1. work[a].at = "looked" /\ work'[a].at \in {"idle", "rolled"} /\ previous' \in {None, previous}
        /\ UNCHANGED <<pending, revert>> /\ \A b \in Actors : b # a => work'[b] = work[b]
    <3>1. CASE previous = None
      BY <1>7, <1>1, <3>1 DEF RollbackRenames, At, Idle
    <3>2. CASE previous # None
      <4>1. /\ work[a].at = "looked" /\ work' = [work EXCEPT ![a].at = "rolled"]
            /\ previous' \in {None, previous} /\ UNCHANGED <<pending, revert>>
        BY <1>7, <3>2 DEF RollbackRenames, Restores, At, To
      <4> QED
        BY <1>1, <4>1
    <3> QED
      BY <3>1, <3>2
  <2> QED
    BY <1>3, <2>1 DEF Record, MidRevert, MidWork, Moving
<1>8. CASE RollbackDropsMarker(a)
  <2>1. /\ work[a].at = "rolled" /\ work'[a].at = "rolledBack" /\ pending' = None
        /\ UNCHANGED <<binary, previous, revert>> /\ \A b \in Actors : b # a => work'[b] = work[b]
    BY <1>8, <1>1 DEF RollbackDropsMarker, At, To
  <2> QED
    BY <1>3, <2>1 DEF Record, MidRevert, MidWork, Moving
<1> QED
  BY <1>2, <1>4, <1>5, <1>6, <1>7, <1>8

LEMMA RecordStep ==
  ASSUME TypeOK, Files, Record, Unless(Exact)', [Next]_vars
  PROVE  Record'
<1> USE DEF disk, daemon, plane, bounds
<1>1. CASE UNCHANGED vars
  BY <1>1, RecordKeep DEF vars
<1>2. CASE Spawn \/ Dial \/ PlaneAccepts \/ PlaneHolds \/ LinkDrops \/ PlaneMoves \/ MarkAccepted
  BY <1>2, RecordKeep
  DEF Spawn, Dial, PlaneAccepts, PlaneHolds, LinkDrops, PlaneMoves, MarkAccepted
<1>3. CASE SettleReads \/ SettleDropsCopy \/ SettleDropsMarker
  BY <1>3, RecordSettles
<1>4. CASE PlaneGivesUp
  BY <1>4, RecordKeep DEF PlaneGivesUp
<1>5. CASE RevertReads \/ RevertLooks \/ RevertRestores \/ RevertRecords \/ RevertDropsMarker
  BY <1>5, RecordReverts
<1>6. CASE RevertThrows \/ DaemonDies
  BY <1>6, RecordKeep DEF RevertThrows, DaemonDies, Exits, JobEnds, Idle, Moving
<1>7. CASE TerminalDies
  BY <1>7, RecordKeep DEF TerminalDies, TypeOK, Idle, Moving
<1>8. ASSUME NEW a \in Actors,
             Begin(a) \/ FetchFails(a) \/ Clear(a) \/ KeepFails(a) \/ SwapFails(a)
               \/ RollbackLooks(a) \/ LeaveRunning(a) \/ Restart(a)
      PROVE  Record'
  <2>1. work \in [Actors -> Work]
    BY DEF TypeOK
  <2>2. \A b \in Actors : work'[b].at \in Moving => work[b].at \in Moving
    <3>1. CASE Begin(a)
      BY <3>1, <2>1 DEF Begin, Moving
    <3>2. CASE Clear(a) \/ KeepFails(a) \/ SwapFails(a) \/ RollbackLooks(a)
      <4>1. \A b \in Actors : b # a => work'[b] = work[b]
        BY <3>2, <2>1 DEF Clear, KeepFails, SwapFails, RollbackLooks, To
      <4>2. work[a].at \in Moving \/ RollbackLooks(a)
        BY <3>2 DEF Clear, KeepFails, SwapFails, At, Moving
      <4>3. RollbackLooks(a) => work'[a].at = "looked"
        BY <2>1 DEF RollbackLooks, To
      <4> QED
        BY <4>1, <4>2, <4>3 DEF Moving
    <3>3. CASE FetchFails(a) \/ LeaveRunning(a) \/ Restart(a)
      BY <3>3, <2>1 DEF FetchFails, LeaveRunning, Restart, Idle, Moving
    <3> QED
      BY <1>8, <3>1, <3>2, <3>3
  <2>3. /\ UNCHANGED <<binary, pending>> /\ previous' \in {None, previous}
        /\ revert' = "none" \/ UNCHANGED <<revert, reverting>>
    BY <1>8 DEF Begin, FetchFails, Clear, KeepFails, SwapFails, RollbackLooks, LeaveRunning,
                Restart, Exits
  <2> QED
    BY <2>2, <2>3, RecordKeep
<1>9. ASSUME NEW a \in Actors,
             Mark(a) \/ Keep(a) \/ Swap(a) \/ Unmark(a)
               \/ RollbackRenames(a) \/ RollbackDropsMarker(a)
      PROVE  Record'
  BY <1>9, RecordUpdates
<1> QED
  BY <1>1, <1>2, <1>3, <1>4, <1>5, <1>6, <1>7, <1>8, <1>9 DEF Next

-----------------------------------------------------------------------------
(* Theorems. *)

\* What TLC evaluates of the files is Files, unless excused.
FilesOnly == TypeOK /\ ProcessInv /\ (Unless(Misreasoned) => Files)

LEMMA FilesInvariant == Spec => []FilesOnly
<1>1. Init => FilesOnly
  BY InitInv, NoneAssumption
  DEF Inv, FilesOnly, FilesInv, Files, WayBack, CopyIsAccounted
<1>2. FilesOnly /\ [Next]_vars => FilesOnly'
  <2> SUFFICES ASSUME FilesOnly, [Next]_vars PROVE FilesOnly'
    OBVIOUS
  <2>1. Unless(Misreasoned)' => Unless(Misreasoned)
    BY SlipsStay DEF Unless, Misreasoned
  <2> QED
    BY <2>1, TypeStep, ProcessStep, FilesStep DEF FilesOnly
<1> QED
  BY <1>1, <1>2, PTL DEF Spec

\* Every value of every variable is one the program can hold.
THEOREM TypeCorrect == Spec => []TypeOK
BY FilesInvariant, PTL DEF FilesOnly

\* A binary no plane has accepted keeps the marker and the proven copy a 4406
\* needs, whatever dies and whenever, unless one of five named things happened.
THEOREM BinaryKeepsItsWayBack == Spec => []WayBack
<1>1. FilesOnly => WayBack
  BY DEF FilesOnly, Files, WayBack
<1> QED
  BY <1>1, FilesInvariant, PTL

\* No copy of another version is left that no transaction knows of.
THEOREM CopyKeepsItsMarker == Spec => []CopyIsAccounted
<1>1. FilesOnly => CopyIsAccounted
  BY DEF FilesOnly, Files, CopyIsAccounted
<1> QED
  BY <1>1, FilesInvariant, PTL

LEMMA RecordInvariant == Spec => [](Unless(Exact) => Record)
<1>1. Init => (Unless(Exact) => Record)
  BY NoneAssumption DEF Init, Record, Idle, Moving
<1>2. FilesOnly /\ (Unless(Exact) => Record) /\ [Next]_vars => (Unless(Exact) => Record)'
  <2> SUFFICES ASSUME FilesOnly, Unless(Exact) => Record, [Next]_vars, Unless(Exact)'
               PROVE  Record'
    BY DEF Unless
  <2>1. Unless(Exact) /\ Unless(Misreasoned)
    BY SlipsStay DEF Unless, Exact
  <2> QED
    BY <2>1, RecordStep DEF FilesOnly
<1> QED
  BY <1>1, <1>2, FilesInvariant, PTL DEF Spec

\* A revert records the version it really went back to, unless the marker was
\* written by a process that was not the version at the path, or one of the five.
THEOREM RevertsRecordTheTruth == Spec => []RecordIsTrue
<1>1. (Unless(Exact) => Record) => RecordIsTrue
  BY DEF Record, RecordIsTrue, Exact
<1> QED
  BY <1>1, RecordInvariant, PTL
=============================================================================
