---------------------------- MODULE LiveFeedProofs ----------------------------
(***************************************************************************)
(* What holds of LiveFeed for every set of users and every bound: the      *)
(* topics of a row reach exactly those who may see it, and each of them    *)
(* once; its variables keep their types; no copy of the row ever travels   *)
(* to, or stays with, a user who never had access to it; and a tab that    *)
(* has heard everything shows the row, or shows it no more, with the       *)
(* access its viewer has.                                                  *)
(*                                                                         *)
(* NeverSharedNeverSeen speaks of the tab and of what is on its way to it. *)
(* What is inductive speaks of the reads the two are fed from as well: the *)
(* grants the publisher has read, and the rows the socket has listed.      *)
(*                                                                         *)
(* What a tab shows in the end follows from what is still to be said of    *)
(* the row (RowTold: its copy as it is, last in the channel, or a tab that *)
(* no copy under way can set back) and of the accesses that have ended     *)
(* (AccessTold: an event that says so waits, or the tab will ask again).   *)
(***************************************************************************)
EXTENDS LiveFeed, FiniteSetTheorems, SequenceTheorems, TLAPS

-----------------------------------------------------------------------------
(* Topics                                                                  *)

\* Whoever may see the row is reached through one of its topics, exactly once,
\* and nobody else is: the derivation of topics from a row and the resolution of
\* a user's access to it agree (recipientTopics and resolveSubshellAccess).
THEOREM TopicsReachViewers ==
  ASSUME NEW u \in Users, NEW shares \in Grants
  PROVE  Cardinality(recipientTopics(shares) \cap {u, Everyone})
           = IF resolveSubshellAccess(u, shares) = "none" THEN 0 ELSE 1
<1> DEFINE R == recipientTopics(shares)
<1>1. u # Everyone BY UsersAssumption DEF Users
<1>2. \A p \in Grantees \cup {Everyone} : shares[p] \in Levels BY DEF Grants
<1>3. CASE shares[Everyone] # "none"
  <2>1. R \cap {u, Everyone} = {Everyone} BY <1>1, <1>3 DEF recipientTopics
  <2>2. resolveSubshellAccess(u, shares) # "none"
    BY <1>2, <1>3 DEF resolveSubshellAccess, Higher, Levels
  <2> QED BY <2>1, <2>2, FS_Singleton
<1>4. CASE shares[Everyone] = "none"
  <2>1. R = {Owner} \cup {g \in Grantees : shares[g] # "none"} BY <1>4 DEF recipientTopics
  <2>2. Everyone \notin R BY <2>1, UsersAssumption
  <2>3. u \in R <=> resolveSubshellAccess(u, shares) # "none"
    BY <1>2, <1>4, <2>1, UsersAssumption DEF resolveSubshellAccess, Higher, Levels, Users
  <2>4. CASE u \in R
    <3>1. R \cap {u, Everyone} = {u} BY <2>2, <2>4
    <3> QED BY <2>3, <2>4, <3>1, FS_Singleton
  <2>5. CASE u \notin R
    <3>1. R \cap {u, Everyone} = {} BY <2>2, <2>5
    <3> QED BY <2>3, <2>5, <3>1, FS_EmptySet
  <2> QED BY <2>4, <2>5
<1> QED BY <1>3, <1>4

\* What is sent to the tab is a sequence of copies of the frame.
LEMMA SentIs ==
  ASSUME NEW S, NEW frame \in S, NEW topics
  PROVE  Sent(topics, frame) \in Seq(S)
<1> DEFINE n == Cardinality(topics \cap topicsForViewer)
<1>1. IsFiniteSet({viewer}) /\ IsFiniteSet({Everyone}) BY FS_Singleton
<1>2. IsFiniteSet({viewer} \cup {Everyone}) BY <1>1, FS_Union
<1>3. topics \cap topicsForViewer \in SUBSET ({viewer} \cup {Everyone}) BY DEF topicsForViewer
<1>4. n \in Nat BY <1>2, <1>3, FS_Subset, FS_CardinalityType
<1> HIDE DEF n
<1>5. Repeat(frame, n) \in Seq(S) BY <1>4 DEF Repeat
<1>6. <<>> \in Seq(S) BY EmptySeq
<1> QED BY <1>5, <1>6 DEF Sent, n

\* A frame is heard: what stays behind are the others.
LEMMA HearsIs ==
  ASSUME NEW S, chan \in Seq(S), NEW type, Hears(type)
  PROVE  chan' \in Seq(S) /\ Head(chan) \in S /\ Head(chan).type = type
BY HeadTailProperties DEF Hears

\* A read moves on, or is over.
LEMMA ReadsMove ==
  ASSUME NEW S, reads \in Seq(S), NEW i \in 1..Len(reads)
  PROVE  /\ reads[i] \in S
         /\ \A r \in S : Replace(i, r) => reads' \in Seq(S)
         /\ Without(i) \in Seq(S)
<1>1. reads[i] \in S BY ElementOfSeq
<1>2. \A r \in S : Replace(i, r) => reads' \in Seq(S) BY ExceptSeq DEF Replace
<1>3. Len(reads) \in Nat BY LenProperties
<1>4. \A j \in 1..(i - 1) : reads[j] \in S BY <1>3, ElementOfSeq
<1>5. \A j \in (i + 1)..Len(reads) : reads[j] \in S BY <1>3, ElementOfSeq
<1>6. SubSeq(reads, 1, i - 1) \in Seq(S) BY <1>3, <1>4, SubSeqProperties
<1>7. SubSeq(reads, i + 1, Len(reads)) \in Seq(S) BY <1>3, <1>5, SubSeqProperties
<1>8. Without(i) \in Seq(S) BY <1>6, <1>7, ConcatProperties DEF Without
<1> QED BY <1>1, <1>2, <1>8

-----------------------------------------------------------------------------
(* Types                                                                   *)

MutationOK ==
  /\ viewer \in Users
  /\ row \in [exists : BOOLEAN, version : Versions \ {0}, grants : Grants]
  /\ row.version + faults <= MaxEvents + 1
  /\ editing \subseteq Grants /\ deleting \subseteq Grants
  /\ owed \subseteq Events
  /\ faults \in Nat
  /\ saw \in BOOLEAN
  /\ exposed \subseteq Meetings

PublisherOK ==
  /\ pending \in Events \cup {NoEvent}
  /\ queue \in Seq(Events)
  /\ drain \in Drains

TabRec == [open : BOOLEAN, connected : BOOLEAN, held : Versions, access : Access,
           live : BOOLEAN, gone : BOOLEAN, asking : BOOLEAN]

SocketOK ==
  /\ chan \in Seq(Frames)
  /\ reads \in Seq(Reads)
  /\ tab \in TabRec

\* The type invariant is the three parts together.
LEMMA Parts == TypeOK <=> MutationOK /\ PublisherOK /\ SocketOK
  BY DEF TypeOK, MutationOK, PublisherOK, SocketOK, TabRec

\* What Next does, action by action.
LEMMA NextCases ==
  ASSUME [Next]_vars
  PROVE  \/ Change \/ ReadBefore \/ ReadGrants
         \/ \E b \in editing, s \in Grants : ReplaceShares(b, s)
         \/ \E s \in deleting : DeleteRow(s)
         \/ \E e \in owed : publishLive(e)
         \/ flush \/ TakeNext \/ FindRow \/ ListShares \/ Broadcast \/ ResolveFails
         \/ Connect \/ Drop
         \/ \E i \in 1..Len(reads) : ListRows(i) \/ ListAccess(i) \/ SendSnapshot(i) \/ ListFails(i)
         \/ HearsSnapshot \/ HearsSubshell \/ HearsGone \/ HearsRecheck
         \/ UNCHANGED vars
  BY DEF Next, Mutate, Publish, Serve, Listen

\* Access is always one of its levels.
LEMMA AccessIs ==
  ASSUME NEW u, NEW shares \in Grants
  PROVE  resolveSubshellAccess(u, shares) \in Access
<1>1. \A p \in Grantees \cup {Everyone} : shares[p] \in Levels BY DEF Grants
<1> QED BY <1>1 DEF resolveSubshellAccess, Higher, Levels, Access

LEMMA NoSharesIs == NoShares \in Grants
  BY DEF NoShares, Grants, Levels

\* No step leaves the types of the row, its grants and what is announced.
LEMMA MutationStep == ASSUME TypeOK, [Next]_vars PROVE MutationOK'
<1> USE BoundsAssumption DEF MutationOK, mutation, publisher, socket, bounds, Meetings
<1>0. MutationOK /\ PublisherOK /\ SocketOK BY Parts
<1>1. CASE Change
  <2>1. row.version \in Nat \ {0} BY <1>0 DEF Versions
  <2>2. row.version + 1 \in Versions \ {0} BY <1>0, <1>1, <2>1 DEF Versions, Change, Eventful
  <2>3. row' \in [exists : BOOLEAN, version : Versions \ {0}, grants : Grants]
    BY <1>0, <1>1, <2>2 DEF Change
  <2>4. row'.version = row.version + 1 /\ faults' = faults BY <1>0, <1>1 DEF Change
  <2>5. row'.version + faults' <= MaxEvents + 1 BY <1>0, <1>1, <2>1, <2>4 DEF Change, Eventful
  <2> QED BY <1>0, <1>1, <2>3, <2>5 DEF Change, Events
<1>2. CASE ReadBefore BY <1>0, <1>2 DEF ReadBefore
<1>3. CASE ReadGrants BY <1>0, <1>3 DEF ReadGrants
<1>4. ASSUME NEW b \in editing, NEW s \in Grants, ReplaceShares(b, s) PROVE MutationOK'
  <2>1. CASE ~row.exists
    BY <1>0, <1>4, <2>1 DEF ReplaceShares
  <2>2. CASE row.exists
    <3>1. row.version \in Nat \ {0} BY <1>0 DEF Versions
    <3>2. row.version + 1 \in Versions \ {0} BY <1>0, <1>4, <2>2, <3>1 DEF Versions, ReplaceShares, Eventful
    <3>3. row' = [row EXCEPT !.version = @ + 1, !.grants = s] /\ faults' = faults
      BY <1>4, <2>2 DEF ReplaceShares
    <3>4. row' \in [exists : BOOLEAN, version : Versions \ {0}, grants : Grants]
      BY <1>0, <3>2, <3>3
    <3>5. row'.version + faults' <= MaxEvents + 1
      BY <1>0, <1>4, <2>2, <3>1, <3>3 DEF ReplaceShares, Eventful
    <3>6. owed' \subseteq Events /\ editing' \subseteq Grants
      BY <1>0, <1>4, <2>2 DEF ReplaceShares, Events
    <3>7. saw' \in BOOLEAN /\ exposed' \subseteq Meetings
      BY <1>0, <1>4, <2>2 DEF ReplaceShares
    <3> QED BY <1>0, <1>4, <3>4, <3>5, <3>6, <3>7 DEF ReplaceShares
  <2> QED BY <2>1, <2>2
<1>5. ASSUME NEW s \in deleting, DeleteRow(s) PROVE MutationOK'
  BY <1>0, <1>5, NoSharesIs DEF DeleteRow, Events
<1>6. ASSUME NEW e \in owed, publishLive(e) PROVE MutationOK'
  BY <1>0, <1>6 DEF publishLive
<1>7. CASE flush BY <1>0, <1>7 DEF flush
<1>8. CASE TakeNext BY <1>0, <1>8 DEF TakeNext
<1>9. CASE FindRow BY <1>0, <1>9 DEF FindRow
<1>10. CASE ListShares BY <1>0, <1>10 DEF ListShares
<1>11. CASE Broadcast BY <1>0, <1>11 DEF Broadcast
<1>f. ASSUME Fault, row' = row
      PROVE  faults' \in Nat /\ row'.version + faults' <= MaxEvents + 1
  <2>1. row.version \in Nat BY <1>0 DEF Versions
  <2> QED BY <1>0, <1>f, <2>1 DEF Fault, Eventful
<1>12. CASE ResolveFails BY <1>0, <1>12, <1>f DEF ResolveFails
<1>13. CASE Connect BY <1>0, <1>13 DEF Connect
<1>14. CASE Drop BY <1>0, <1>14, <1>f DEF Drop
<1>15. ASSUME NEW i \in 1..Len(reads), ListRows(i) PROVE MutationOK'
  BY <1>0, <1>15 DEF ListRows
<1>16. ASSUME NEW i \in 1..Len(reads), ListAccess(i) PROVE MutationOK'
  BY <1>0, <1>16 DEF ListAccess
<1>17. ASSUME NEW i \in 1..Len(reads), SendSnapshot(i) PROVE MutationOK'
  BY <1>0, <1>17 DEF SendSnapshot
<1>18. ASSUME NEW i \in 1..Len(reads), ListFails(i) PROVE MutationOK'
  BY <1>0, <1>18, <1>f DEF ListFails
<1>19. CASE HearsSnapshot BY <1>0, <1>19 DEF HearsSnapshot
<1>20. CASE HearsSubshell BY <1>0, <1>20 DEF HearsSubshell, Asks, Crossed
<1>21. CASE HearsGone BY <1>0, <1>21 DEF HearsGone
<1>22. CASE HearsRecheck BY <1>0, <1>22 DEF HearsRecheck, Asks, Crossed
<1>23. CASE UNCHANGED vars BY <1>0, <1>23 DEF vars
<1> QED BY <1>1, <1>2, <1>3, <1>4, <1>5, <1>6, <1>7, <1>8, <1>9, <1>10, <1>11, <1>12, <1>13,
           <1>14, <1>15, <1>16, <1>17, <1>18, <1>19, <1>20, <1>21, <1>22, <1>23, NextCases

\* What the publisher resolves is an event and what it has read of it.
LEMMA ResolvingIs ==
  ASSUME NEW step \in {"row", "shares", "views"}, NEW event \in Events,
         NEW version \in Versions, NEW shares \in Grants
  PROVE  Resolving(step, event, version, shares) \in Drains
  BY DEF Resolving, Drains

\* No step leaves the types of the publisher's window, queue and drain.
LEMMA PublisherStep == ASSUME TypeOK, [Next]_vars PROVE PublisherOK'
<1> USE BoundsAssumption DEF PublisherOK, mutation, publisher, socket, bounds
<1>0. MutationOK /\ PublisherOK /\ SocketOK BY Parts
<1>i. Idle \in Drains BY DEF Idle, Drains
<1>d. drain.step \in {"row", "shares", "views"} =>
        drain \in [step : {"row", "shares", "views"}, event : Events, version : Versions, shares : Grants]
  BY <1>0 DEF Drains
<1>1. CASE Change BY <1>0, <1>1 DEF Change
<1>2. CASE ReadBefore BY <1>0, <1>2 DEF ReadBefore
<1>3. CASE ReadGrants BY <1>0, <1>3 DEF ReadGrants
<1>4. ASSUME NEW b \in editing, NEW s \in Grants, ReplaceShares(b, s) PROVE PublisherOK'
  BY <1>0, <1>4 DEF ReplaceShares
<1>5. ASSUME NEW s \in deleting, DeleteRow(s) PROVE PublisherOK'
  BY <1>0, <1>5 DEF DeleteRow
<1>6. ASSUME NEW e \in owed, publishLive(e) PROVE PublisherOK'
  BY <1>0, <1>6 DEF publishLive, MutationOK
<1>7. CASE flush
  <2>1. pending \in Events BY <1>0, <1>7 DEF flush
  <2>2. queue' \in Seq(Events) BY <1>0, <1>7, <2>1 DEF flush
  <2> QED BY <1>0, <1>7, <2>2 DEF flush
<1>8. CASE TakeNext
  <2>1. Head(queue) \in Events /\ Tail(queue) \in Seq(Events)
    BY <1>0, <1>8, HeadTailProperties DEF TakeNext
  <2>2. 0 \in Versions BY DEF Versions
  <2>3. drain' \in Drains BY <1>0, <1>8, <2>1, <2>2, ResolvingIs, NoSharesIs DEF TakeNext
  <2> QED BY <1>0, <1>8, <2>1, <2>3 DEF TakeNext
<1>9. CASE FindRow
  <2>1. row.version \in Versions BY <1>0 DEF MutationOK
  <2>2. drain' \in Drains BY <1>d, <1>i, <1>9, <2>1 DEF FindRow, Drains
  <2> QED BY <1>0, <1>9, <2>2 DEF FindRow
<1>10. CASE ListShares
  <2>1. row.grants \in Grants BY <1>0 DEF MutationOK
  <2>2. drain' \in Drains BY <1>d, <1>10, <2>1 DEF ListShares, Drains
  <2> QED BY <1>0, <1>10, <2>2 DEF ListShares
<1>11. CASE Broadcast BY <1>0, <1>i, <1>11 DEF Broadcast
<1>12. CASE ResolveFails BY <1>0, <1>i, <1>12 DEF ResolveFails
<1>13. CASE Connect BY <1>0, <1>13 DEF Connect
<1>14. CASE Drop BY <1>0, <1>14 DEF Drop
<1>15. ASSUME NEW i \in 1..Len(reads), ListRows(i) PROVE PublisherOK'
  BY <1>0, <1>15 DEF ListRows
<1>16. ASSUME NEW i \in 1..Len(reads), ListAccess(i) PROVE PublisherOK'
  BY <1>0, <1>16 DEF ListAccess
<1>17. ASSUME NEW i \in 1..Len(reads), SendSnapshot(i) PROVE PublisherOK'
  BY <1>0, <1>17 DEF SendSnapshot
<1>18. ASSUME NEW i \in 1..Len(reads), ListFails(i) PROVE PublisherOK'
  BY <1>0, <1>18 DEF ListFails
<1>19. CASE HearsSnapshot BY <1>0, <1>19 DEF HearsSnapshot
<1>20. CASE HearsSubshell BY <1>0, <1>20 DEF HearsSubshell
<1>21. CASE HearsGone BY <1>0, <1>21 DEF HearsGone
<1>22. CASE HearsRecheck BY <1>0, <1>22 DEF HearsRecheck
<1>23. CASE UNCHANGED vars BY <1>0, <1>23 DEF vars
<1> QED BY <1>1, <1>2, <1>3, <1>4, <1>5, <1>6, <1>7, <1>8, <1>9, <1>10, <1>11, <1>12, <1>13,
           <1>14, <1>15, <1>16, <1>17, <1>18, <1>19, <1>20, <1>21, <1>22, <1>23, NextCases

\* The three frames of a broadcast.
LEMMA FramesAre ==
  /\ \A v \in Versions : [type |-> "subshell", version |-> v] \in Frames
  /\ [type |-> "gone"] \in Frames
  /\ [type |-> "recheck"] \in Frames
  BY DEF Frames

\* A new question is a read like any other.
LEMMA AsksIs ==
  ASSUME NEW S, reads \in Seq(S), NewRead \in S, NEW heard \in TabRec, Asks(heard)
  PROVE  reads' \in Seq(S) /\ tab' \in TabRec
<1>1. tab' = [heard EXCEPT !.asking = TRUE] BY DEF Asks
<1>2. tab' \in TabRec BY <1>1 DEF TabRec
<1>3. Append(reads, NewRead) \in Seq(S) OBVIOUS
<1>4. reads' = reads \/ reads' = Append(reads, NewRead) BY DEF Asks
<1> QED BY <1>2, <1>3, <1>4

LEMMA NewReadIs == NewRead \in Reads
  BY DEF NewRead, Reads

\* No step leaves the types of the frames, the reads and the tab.
LEMMA SocketStep == ASSUME TypeOK, [Next]_vars PROVE SocketOK'
<1> USE BoundsAssumption DEF SocketOK, mutation, publisher, socket, bounds
<1>0. MutationOK /\ PublisherOK /\ SocketOK BY Parts
<1>e. <<>> \in Seq(Frames) /\ <<>> \in Seq(Reads) BY EmptySeq
<1>z. 0 \in Versions BY DEF Versions
<1>1. CASE Change BY <1>0, <1>1 DEF Change
<1>2. CASE ReadBefore BY <1>0, <1>2 DEF ReadBefore
<1>3. CASE ReadGrants BY <1>0, <1>3 DEF ReadGrants
<1>4. ASSUME NEW b \in editing, NEW s \in Grants, ReplaceShares(b, s) PROVE SocketOK'
  BY <1>0, <1>4 DEF ReplaceShares
<1>5. ASSUME NEW s \in deleting, DeleteRow(s) PROVE SocketOK'
  BY <1>0, <1>5 DEF DeleteRow
<1>6. ASSUME NEW e \in owed, publishLive(e) PROVE SocketOK'
  BY <1>0, <1>6 DEF publishLive
<1>7. CASE flush BY <1>0, <1>7 DEF flush
<1>8. CASE TakeNext
  <2>1. chan' \in Seq(Frames)
    BY <1>0, <1>8, FramesAre, SentIs, ConcatProperties DEF TakeNext
  <2> QED BY <1>0, <1>8, <2>1 DEF TakeNext
<1>9. CASE FindRow BY <1>0, <1>9 DEF FindRow
<1>10. CASE ListShares BY <1>0, <1>10 DEF ListShares
<1>11. CASE Broadcast
  <2>1. drain.version \in Versions BY <1>0, <1>11 DEF Broadcast, PublisherOK, Drains
  <2>2. \A T : Sent(T, [type |-> "subshell", version |-> drain.version]) \in Seq(Frames)
    BY <2>1, FramesAre, SentIs
  <2>3. \A T : Sent(T, [type |-> "gone"]) \in Seq(Frames) BY FramesAre, SentIs
  <2>4. \A T : Sent(T, [type |-> "recheck"]) \in Seq(Frames) BY FramesAre, SentIs
  <2>5. chan' \in Seq(Frames)
    BY <1>0, <1>11, <2>2, <2>3, <2>4, ConcatProperties DEF Broadcast
  <2> QED BY <1>0, <1>11, <2>5 DEF Broadcast
<1>12. CASE ResolveFails
  <2>1. chan' \in Seq(Frames)
    BY <1>0, <1>12, FramesAre, SentIs, ConcatProperties DEF ResolveFails
  <2> QED BY <1>0, <1>12, <2>1 DEF ResolveFails
<1>13. CASE Connect
  <2>1. <<NewRead>> \in Seq(Reads) BY NewReadIs
  <2> QED BY <1>0, <1>13, <2>1 DEF Connect, TabRec
<1>14. CASE Drop BY <1>0, <1>e, <1>14 DEF Drop, Closed, TabRec
<1>15. ASSUME NEW i \in 1..Len(reads), ListRows(i) PROVE SocketOK'
  <2>1. reads[i] \in Reads BY <1>0, ReadsMove
  <2>2. row.version \in Versions \ {0} BY <1>0 DEF MutationOK
  <2>3. [reads[i] EXCEPT !.step = "ready"] \in Reads BY <1>15, <2>1 DEF ListRows, Reads
  <2>4. [reads[i] EXCEPT !.step = "shares", !.version = row.version] \in Reads
    BY <1>15, <2>1, <2>2 DEF ListRows, Reads
  <2>5. reads' \in Seq(Reads) BY <1>0, <1>15, <2>3, <2>4, ReadsMove DEF ListRows
  <2> QED BY <1>0, <1>15, <2>5 DEF ListRows
<1>16. ASSUME NEW i \in 1..Len(reads), ListAccess(i) PROVE SocketOK'
  <2> DEFINE a == resolveSubshellAccess(viewer, row.grants)
             r == [reads[i] EXCEPT !.step = "ready", !.access = IF a = "none" THEN "view" ELSE a]
  <2>1. reads[i] \in Reads BY <1>0, ReadsMove
  <2>2. a \in Access BY <1>0, AccessIs DEF MutationOK
  <2>3. r \in Reads BY <1>16, <2>1, <2>2 DEF ListAccess, Reads, Access, Levels
  <2>4. reads' \in Seq(Reads) BY <1>0, <1>16, <2>3, ReadsMove DEF ListAccess
  <2> QED BY <1>0, <1>16, <2>4 DEF ListAccess
<1>17. ASSUME NEW i \in 1..Len(reads), SendSnapshot(i) PROVE SocketOK'
  <2>1. reads[i] \in Reads BY <1>0, ReadsMove
  <2>2. [type |-> "snapshot", version |-> reads[i].version, access |-> reads[i].access] \in Frames
    BY <1>17, <2>1 DEF SendSnapshot, Reads, Frames
  <2>3. chan' \in Seq(Frames) BY <1>0, <1>17, <2>2 DEF SendSnapshot
  <2>4. reads' \in Seq(Reads) BY <1>0, <1>17, ReadsMove DEF SendSnapshot
  <2> QED BY <1>0, <1>17, <2>3, <2>4 DEF SendSnapshot
<1>18. ASSUME NEW i \in 1..Len(reads), ListFails(i) PROVE SocketOK'
  <2>1. Without(i) \in Seq(Reads) BY <1>0, ReadsMove
  <2> QED BY <1>0, <1>e, <1>18, <2>1 DEF ListFails, Closed, TabRec
<1>19. CASE HearsSnapshot
  <2>1. chan' \in Seq(Frames) /\ Head(chan) \in Frames /\ Head(chan).type = "snapshot"
    BY <1>0, <1>19, HearsIs DEF HearsSnapshot
  <2>2. Head(chan).version \in Versions /\ Head(chan).access \in Access
    BY <1>z, <2>1 DEF Frames, Access, Levels
  <2>3. tab' \in TabRec BY <1>0, <1>z, <1>19, <2>2 DEF HearsSnapshot, TabRec, Access, Levels
  <2> QED BY <1>0, <1>19, <2>1, <2>3 DEF HearsSnapshot
<1>20. CASE HearsSubshell
  <2> DEFINE heard == [tab EXCEPT !.live = TRUE, !.gone = FALSE]
  <2>1. chan' \in Seq(Frames) /\ Head(chan) \in Frames /\ Head(chan).type = "subshell"
    BY <1>0, <1>20, HearsIs DEF HearsSubshell
  <2>2. Head(chan).version \in Versions BY <2>1 DEF Frames
  <2>3. heard \in TabRec BY <1>0 DEF TabRec
  <2>4. CASE Holds
    <3>1. tab' = [heard EXCEPT !.held = Head(chan).version, !.connected = TRUE] /\ reads' = reads
      BY <1>20, <2>4 DEF HearsSubshell
    <3> HIDE DEF heard
    <3>2. tab' \in TabRec BY <2>2, <2>3, <3>1 DEF TabRec
    <3> QED BY <1>0, <2>1, <3>1, <3>2
  <2>5. CASE ~Holds
    <3>1. Asks(heard) BY <1>20, <2>5 DEF HearsSubshell
    <3> QED BY <1>0, <2>1, <2>3, <3>1, AsksIs, NewReadIs
  <2> QED BY <2>4, <2>5
<1>21. CASE HearsGone
  <2>1. chan' \in Seq(Frames) BY <1>0, <1>21, HearsIs DEF HearsGone
  <2>2. tab' \in TabRec BY <1>0, <1>z, <1>21 DEF HearsGone, Holds, TabRec, Access, Levels
  <2> QED BY <1>0, <1>21, <2>1, <2>2 DEF HearsGone
<1>22. CASE HearsRecheck
  <2>1. chan' \in Seq(Frames) BY <1>0, <1>22, HearsIs DEF HearsRecheck
  <2> QED BY <1>0, <1>22, <2>1, AsksIs, NewReadIs DEF HearsRecheck
<1>23. CASE UNCHANGED vars BY <1>0, <1>23 DEF vars
<1> QED BY <1>1, <1>2, <1>3, <1>4, <1>5, <1>6, <1>7, <1>8, <1>9, <1>10, <1>11, <1>12, <1>13,
           <1>14, <1>15, <1>16, <1>17, <1>18, <1>19, <1>20, <1>21, <1>22, <1>23, NextCases

\* Every variable keeps its type, in every behaviour of the feed.
THEOREM TypeCorrect == Spec => []TypeOK
<1>1. Init => TypeOK
  <2> SUFFICES ASSUME Init PROVE TypeOK OBVIOUS
  <2> USE BoundsAssumption DEF Init
  <2>1. 0 \in Versions /\ 1 \in Versions \ {0} BY DEF Versions
  <2>2. row \in [exists : BOOLEAN, version : Versions \ {0}, grants : Grants] BY <2>1
  <2>3. row.version + faults <= MaxEvents + 1 BY DEF Init
  <2>4. MutationOK BY <2>2, <2>3 DEF MutationOK
  <2>5. <<>> \in Seq(Events) /\ <<>> \in Seq(Frames) /\ <<>> \in Seq(Reads) BY EmptySeq
  <2>6. PublisherOK BY <2>5 DEF PublisherOK, Idle, Drains
  <2>7. SocketOK BY <2>1, <2>5 DEF SocketOK, TabRec, Access, Levels
  <2> QED BY <2>4, <2>6, <2>7, Parts
<1>2. TypeOK /\ [Next]_vars => TypeOK'
  <2> SUFFICES ASSUME TypeOK, [Next]_vars PROVE TypeOK' OBVIOUS
  <2>1. MutationOK' /\ PublisherOK' /\ SocketOK' BY MutationStep, PublisherStep, SocketStep
  <2> QED BY <2>1 DEF TypeOK, MutationOK, PublisherOK, SocketOK, TabRec
<1> QED BY <1>1, <1>2, PTL DEF Spec

-----------------------------------------------------------------------------
(* Who never had access                                                    *)

SafeFrames == {f \in Frames : f.type # "subshell" /\ (f.type = "snapshot" => f.version = 0)}
SafeReads == {r \in Reads : r.version = 0}

\* While the viewer has never had access, nothing the tab is fed from holds the
\* row: neither the grants the publisher read, nor the rows the socket listed.
Unseen ==
  ~saw => /\ resolveSubshellAccess(viewer, row.grants) = "none"
          /\ drain.step = "views" => resolveSubshellAccess(viewer, drain.shares) = "none"
          /\ reads \in Seq(SafeReads)
          /\ chan \in Seq(SafeFrames)
          /\ ~Holds

\* Somebody without access hears nothing sent to the topics of the row.
LEMMA NothingSent ==
  ASSUME TypeOK, NEW shares \in Grants, NEW frame, resolveSubshellAccess(viewer, shares) = "none"
  PROVE  Sent(recipientTopics(shares), frame) = <<>>
<1>1. viewer \in Users BY DEF TypeOK
<1>2. Cardinality(recipientTopics(shares) \cap topicsForViewer) = 0
  BY <1>1, TopicsReachViewers DEF topicsForViewer
<1>3. Repeat(frame, 0) \in Seq({frame}) /\ Len(Repeat(frame, 0)) = 0 BY DEF Repeat
<1>4. Repeat(frame, 0) = <<>> BY <1>3, EmptySeq
<1> QED BY <1>2, <1>4 DEF Sent

\* The end of every grant leaves a user who had none without access.
LEMMA NoGrantNoAccess ==
  ASSUME NEW u, NEW shares, resolveSubshellAccess(u, shares) = "none"
  PROVE  resolveSubshellAccess(u, NoShares) = "none"
  BY DEF resolveSubshellAccess, NoShares, Higher

LEMMA SafeFramesAre ==
  /\ [type |-> "gone"] \in SafeFrames
  /\ [type |-> "recheck"] \in SafeFrames
  BY DEF SafeFrames, Frames

LEMMA NewReadIsSafe == NewRead \in SafeReads
  BY NewReadIs DEF SafeReads, NewRead

LEMMA UnseenStep == ASSUME TypeOK, Unseen, [Next]_vars PROVE Unseen'
<1> SUFFICES ASSUME ~saw' PROVE Unseen' BY DEF Unseen
<1> USE DEF mutation, publisher, socket, bounds
<1>0. MutationOK /\ PublisherOK /\ SocketOK BY Parts
<1>v. viewer' = viewer
  <2>1. UNCHANGED viewer
    BY NextCases DEF Change, ReadBefore, ReadGrants, ReplaceShares, DeleteRow, publishLive, flush,
         TakeNext, FindRow, ListShares, Broadcast, ResolveFails, Connect, Drop, ListRows, ListAccess,
         SendSnapshot, ListFails, HearsSnapshot, HearsSubshell, HearsGone, HearsRecheck, vars
  <2> QED BY <2>1
<1>s. ~saw
  <2>1. saw' = saw \/ \E b \in editing, s \in Grants : ReplaceShares(b, s)
    BY NextCases DEF Change, ReadBefore, ReadGrants, DeleteRow, publishLive, flush,
         TakeNext, FindRow, ListShares, Broadcast, ResolveFails, Connect, Drop, ListRows, ListAccess,
         SendSnapshot, ListFails, HearsSnapshot, HearsSubshell, HearsGone, HearsRecheck, vars
  <2> QED BY <2>1, <1>0 DEF ReplaceShares, MutationOK
<1>u. /\ resolveSubshellAccess(viewer, row.grants) = "none"
      /\ drain.step = "views" => resolveSubshellAccess(viewer, drain.shares) = "none"
      /\ reads \in Seq(SafeReads)
      /\ chan \in Seq(SafeFrames)
      /\ ~Holds
  BY <1>s DEF Unseen
<1>e. <<>> \in Seq(SafeFrames) /\ <<>> \in Seq(SafeReads) BY EmptySeq
<1>q. \A T : /\ Sent(T, [type |-> "gone"]) \in Seq(SafeFrames)
             /\ Sent(T, [type |-> "recheck"]) \in Seq(SafeFrames)
  BY SafeFramesAre, SentIs
<1>1. CASE Change BY <1>0, <1>v, <1>u, <1>1 DEF Change, Unseen, Holds, MutationOK
<1>2. CASE ReadBefore BY <1>v, <1>u, <1>2 DEF ReadBefore, Unseen, Holds
<1>3. CASE ReadGrants BY <1>v, <1>u, <1>3 DEF ReadGrants, Unseen, Holds
<1>4. ASSUME NEW b \in editing, NEW s \in Grants, ReplaceShares(b, s) PROVE Unseen'
  <2>1. drain' = drain /\ reads' = reads /\ chan' = chan /\ tab' = tab BY <1>4 DEF ReplaceShares
  <2>2. row' = row \/ (row'.grants = s /\ saw' = (saw \/ resolveSubshellAccess(viewer, s) # "none"))
    BY <1>0, <1>4 DEF ReplaceShares, MutationOK
  <2>3. resolveSubshellAccess(viewer, row'.grants) = "none" BY <1>u, <2>2
  <2> QED BY <1>v, <1>u, <2>1, <2>3 DEF Unseen, Holds
<1>5. ASSUME NEW s \in deleting, DeleteRow(s) PROVE Unseen'
  <2>1. drain' = drain /\ reads' = reads /\ chan' = chan /\ tab' = tab BY <1>5 DEF DeleteRow
  <2>2. row' = row \/ row'.grants = NoShares BY <1>0, <1>5 DEF DeleteRow, MutationOK
  <2>3. resolveSubshellAccess(viewer, row'.grants) = "none" BY <1>u, <2>2, NoGrantNoAccess
  <2> QED BY <1>v, <1>u, <2>1, <2>3 DEF Unseen, Holds
<1>6. ASSUME NEW e \in owed, publishLive(e) PROVE Unseen'
  BY <1>v, <1>u, <1>6 DEF publishLive, Unseen, Holds
<1>7. CASE flush BY <1>v, <1>u, <1>7 DEF flush, Unseen, Holds
<1>8. CASE TakeNext
  <2>1. chan' \in Seq(SafeFrames) BY <1>u, <1>q, <1>8, ConcatProperties DEF TakeNext
  <2>2. drain' = drain \/ drain'.step = "row" BY <1>8 DEF TakeNext, Resolving
  <2>3. row' = row /\ reads' = reads /\ tab' = tab BY <1>8 DEF TakeNext
  <2> QED BY <1>v, <1>u, <2>1, <2>2, <2>3 DEF Unseen, Holds
<1>9. CASE FindRow
  <2>d. drain \in [step : {"row", "shares", "views"}, event : Events, version : Versions, shares : Grants]
    BY <1>0, <1>9 DEF FindRow, PublisherOK, Drains
  <2>e. drain' = Idle \/ drain' = [drain EXCEPT !.step = "shares", !.version = row.version]
    BY <1>9 DEF FindRow
  <2>f. [drain EXCEPT !.step = "shares", !.version = row.version].step = "shares"
    BY <2>d
  <2>g. Idle.step = "idle" BY DEF Idle
  <2>1. drain'.step \in {"shares", "idle"} BY <2>e, <2>f, <2>g
  <2>2. row' = row /\ reads' = reads /\ tab' = tab /\ chan' = chan BY <1>9 DEF FindRow
  <2> QED BY <1>v, <1>u, <2>1, <2>2 DEF Unseen, Holds
<1>10. CASE ListShares
  <2>1. drain'.shares = row.grants BY <1>0, <1>10 DEF ListShares, PublisherOK, Drains
  <2>2. row' = row /\ reads' = reads /\ tab' = tab /\ chan' = chan BY <1>10 DEF ListShares
  <2> QED BY <1>v, <1>u, <2>1, <2>2 DEF Unseen, Holds
<1>11. CASE Broadcast
  <2>1. drain.shares \in Grants BY <1>0, <1>11 DEF Broadcast, PublisherOK, Drains
  <2>2. \A f : Sent(recipientTopics(drain.shares), f) = <<>>
    BY <1>u, <1>11, <2>1, NothingSent DEF Broadcast
  <2>3. chan' \in Seq(SafeFrames)
    BY <1>u, <1>e, <1>q, <1>11, <2>2, ConcatProperties DEF Broadcast
  <2>4. drain'.step = "idle" /\ row' = row /\ reads' = reads /\ tab' = tab
    BY <1>11 DEF Broadcast, Idle
  <2> QED BY <1>v, <1>u, <2>3, <2>4 DEF Unseen, Holds
<1>12. CASE ResolveFails
  <2>1. chan' \in Seq(SafeFrames) BY <1>u, <1>q, <1>12, ConcatProperties DEF ResolveFails
  <2>2. drain'.step = "idle" /\ row' = row /\ reads' = reads /\ tab' = tab
    BY <1>12 DEF ResolveFails, Idle
  <2> QED BY <1>v, <1>u, <2>1, <2>2 DEF Unseen, Holds
<1>13. CASE Connect
  <2>1. <<NewRead>> \in Seq(SafeReads) BY NewReadIsSafe
  <2>2. tab'.held = tab.held BY <1>0, <1>13 DEF Connect, SocketOK, TabRec
  <2> QED BY <1>v, <1>u, <1>13, <2>1, <2>2 DEF Connect, Unseen, Holds
<1>14. CASE Drop
  <2>1. tab'.held = tab.held BY <1>0, <1>14 DEF Drop, Closed, SocketOK, TabRec
  <2> QED BY <1>v, <1>u, <1>e, <1>14, <2>1 DEF Drop, Closed, Unseen, Holds
<1>15. ASSUME NEW i \in 1..Len(reads), ListRows(i) PROVE Unseen'
  <2>1. reads[i] \in Reads /\ reads[i] \in SafeReads BY <1>0, <1>u, ReadsMove DEF SocketOK
  <2>2. MayHave = "none" BY <1>u DEF MayHave
  <2>3. [reads[i] EXCEPT !.step = "ready"] \in SafeReads
    BY <1>15, <2>1 DEF ListRows, SafeReads, Reads
  <2>4. reads' \in Seq(SafeReads) BY <1>u, <1>15, <2>2, <2>3, ReadsMove DEF ListRows
  <2> QED BY <1>v, <1>u, <1>15, <2>4 DEF ListRows, Unseen, Holds
<1>16. ASSUME NEW i \in 1..Len(reads), ListAccess(i) PROVE Unseen'
  <2>1. reads[i] \in SafeReads BY <1>u, ReadsMove
  <2>2. FALSE BY <1>16, <2>1 DEF ListAccess, SafeReads, Reads
  <2> QED BY <2>2
<1>17. ASSUME NEW i \in 1..Len(reads), SendSnapshot(i) PROVE Unseen'
  <2>1. reads[i] \in SafeReads BY <1>u, ReadsMove
  <2>2. [type |-> "snapshot", version |-> reads[i].version, access |-> reads[i].access] \in SafeFrames
    BY <1>17, <2>1 DEF SendSnapshot, SafeReads, Reads, SafeFrames, Frames
  <2>3. chan' \in Seq(SafeFrames) BY <1>u, <1>17, <2>2 DEF SendSnapshot
  <2>4. reads' \in Seq(SafeReads) BY <1>u, <1>17, ReadsMove DEF SendSnapshot
  <2> QED BY <1>v, <1>u, <1>17, <2>3, <2>4 DEF SendSnapshot, Unseen, Holds
<1>18. ASSUME NEW i \in 1..Len(reads), ListFails(i) PROVE Unseen'
  <2>1. Without(i) \in Seq(SafeReads) BY <1>u, ReadsMove
  <2>2. tab'.held = tab.held BY <1>0, <1>18 DEF ListFails, Closed, SocketOK, TabRec
  <2> QED BY <1>v, <1>u, <1>e, <1>18, <2>1, <2>2 DEF ListFails, Closed, Unseen, Holds
<1>19. CASE HearsSnapshot
  <2>1. chan' \in Seq(SafeFrames) /\ Head(chan) \in SafeFrames /\ Head(chan).type = "snapshot"
    BY <1>u, <1>19, HearsIs DEF HearsSnapshot
  <2>2. Head(chan).version = 0 BY <2>1 DEF SafeFrames
  <2>3. tab'.held = 0 BY <1>0, <1>19, <2>2 DEF HearsSnapshot, SocketOK, TabRec
  <2> QED BY <1>v, <1>u, <1>19, <2>1, <2>3 DEF HearsSnapshot, Unseen, Holds
<1>20. CASE HearsSubshell
  <2>1. Head(chan) \in SafeFrames /\ Head(chan).type = "subshell"
    BY <1>u, <1>20, HearsIs DEF HearsSubshell
  <2> QED BY <2>1 DEF SafeFrames
<1>21. CASE HearsGone
  <2>1. chan' \in Seq(SafeFrames) BY <1>u, <1>21, HearsIs DEF HearsGone
  <2>2. tab'.held = 0 BY <1>0, <1>21 DEF HearsGone, SocketOK, TabRec
  <2> QED BY <1>v, <1>u, <1>21, <2>1, <2>2 DEF HearsGone, Unseen, Holds
<1>22. CASE HearsRecheck
  <2>1. chan' \in Seq(SafeFrames) BY <1>u, <1>22, HearsIs DEF HearsRecheck
  <2> QED BY <1>v, <1>u, <1>22, <2>1 DEF HearsRecheck, Unseen, Holds
<1>23. CASE UNCHANGED vars BY <1>v, <1>u, <1>23 DEF vars, Unseen, Holds
<1> QED BY <1>1, <1>2, <1>3, <1>4, <1>5, <1>6, <1>7, <1>8, <1>9, <1>10, <1>11, <1>12, <1>13,
           <1>14, <1>15, <1>16, <1>17, <1>18, <1>19, <1>20, <1>21, <1>22, <1>23, NextCases

\* No copy of the row travels to, or stays with, a user who never had access to
\* it, whatever the publisher had read and whenever the grants changed.
THEOREM NeverLeaks == Spec => []NeverSharedNeverSeen
<1>1. Init => Unseen
  <2> SUFFICES ASSUME Init, ~saw PROVE Unseen BY DEF Unseen
  <2>1. resolveSubshellAccess(viewer, row.grants) = "none" BY DEF Init
  <2>2. chan \in Seq(SafeFrames) /\ reads \in Seq(SafeReads) BY EmptySeq DEF Init
  <2>3. ~Holds /\ drain.step # "views" BY DEF Init, Holds, Idle
  <2> QED BY <2>1, <2>2, <2>3 DEF Unseen
<1>2. TypeOK /\ Unseen /\ [Next]_vars => Unseen' BY UnseenStep
<1>3. TypeOK /\ Unseen => NeverSharedNeverSeen
  <2> SUFFICES ASSUME Unseen, ~saw PROVE NeverSharedNeverSeen BY DEF NeverSharedNeverSeen
  <2>1. ~Holds /\ chan \in Seq(SafeFrames) BY DEF Unseen
  <2>2. \A i \in 1..Len(chan) : chan[i] \in SafeFrames BY <2>1, ElementOfSeq
  <2> QED BY <2>1, <2>2 DEF SafeFrames, NeverSharedNeverSeen
<1> QED BY <1>1, <1>2, <1>3, TypeCorrect, PTL DEF Spec

-----------------------------------------------------------------------------
(* What is on its way                                                      *)

\* The socket that is closed has nothing on its way, and a row an event spoke of
\* is shown by a tab that has heard a list.
SocketIs ==
  /\ ~tab.open => chan = <<>> /\ reads = <<>> /\ ~tab.connected
  /\ tab.open /\ tab.live /\ Holds => tab.connected
  /\ Holds => tab.access # "none"

\* A frame of one of these types is among those of the sequence.
Has(q, types) == \E i \in 1..Len(q) : q[i].type \in types

\* An answer is on its way, or will be.
AnswerComing == reads # <<>> \/ Has(chan, {"snapshot"})

\* A question that was asked is answered.
QuestionsAnswered ==
  tab.open /\ tab.asking /\ Unless({"unanswered"}) => AnswerComing

\* A set of sequences grows with the set of their elements.
LEMMA SeqGrows ==
  ASSUME NEW S, NEW T, NEW q \in Seq(S), \A i \in 1..Len(q) : q[i] \in T
  PROVE  q \in Seq(T)
  OBVIOUS

\* What is heard is the first frame; the others move up.
LEMMA HeardIs ==
  ASSUME NEW S, chan \in Seq(S), NEW type, Hears(type)
  PROVE  /\ Len(chan) \in Nat /\ Len(chan') \in Nat /\ Len(chan) = Len(chan') + 1
         /\ Head(chan) = chan[1]
         /\ \A i \in 1..Len(chan') : chan'[i] = chan[i + 1] /\ i + 1 \in 2..Len(chan)
<1>1. chan # <<>> /\ chan' = Tail(chan) BY DEF Hears
<1> QED BY <1>1

\* What is sent comes after what is on its way.
LEMMA AppendedIs ==
  ASSUME NEW S, NEW q \in Seq(S), NEW r \in Seq(S)
  PROVE  /\ Len(q) \in Nat /\ Len(r) \in Nat /\ Len(q \o r) = Len(q) + Len(r)
         /\ \A i \in 1..Len(q) : i \in 1..Len(q \o r) /\ (q \o r)[i] = q[i]
         /\ \A i \in 1..Len(r) : Len(q) + i \in 1..Len(q \o r) /\ (q \o r)[Len(q) + i] = r[i]
         /\ \A i \in (Len(q) + 1)..Len(q \o r) :
              i - Len(q) \in 1..Len(r) /\ (q \o r)[i] = r[i - Len(q)]
  OBVIOUS

\* A frame on its way stays so, whatever is sent after it,
LEMMA HasMore ==
  ASSUME NEW q \in Seq(Frames), NEW r \in Seq(Frames), NEW types, Has(q, types)
  PROVE  Has(q \o r, types)
<1>1. PICK i \in 1..Len(q) : q[i].type \in types BY DEF Has
<1>2. i \in 1..Len(q \o r) /\ (q \o r)[i] = q[i] BY <1>1, AppendedIs
<1> QED BY <1>1, <1>2 DEF Has

LEMMA HasAfter ==
  ASSUME NEW q \in Seq(Frames), NEW r \in Seq(Frames), NEW types, Has(r, types)
  PROVE  Has(q \o r, types)
<1>1. PICK i \in 1..Len(r) : r[i].type \in types BY DEF Has
<1>2. Len(q) + i \in 1..Len(q \o r) /\ (q \o r)[Len(q) + i] = r[i] BY <1>1, AppendedIs
<1> QED BY <1>1, <1>2 DEF Has

\* and whatever else is heard before it.
LEMMA HasHeard ==
  ASSUME chan \in Seq(Frames), NEW type, Hears(type), NEW types, type \notin types, Has(chan, types)
  PROVE  Has(chan', types)
<1>1. PICK i \in 1..Len(chan) : chan[i].type \in types BY DEF Has
<1>2. i # 1 BY <1>1, HeardIs DEF Hears
<1>3. i - 1 \in 1..Len(chan') /\ (i - 1) + 1 = i BY <1>1, <1>2, HeardIs
<1>4. chan'[i - 1] = chan[i] BY <1>3, HeardIs
<1> QED BY <1>1, <1>3, <1>4 DEF Has

LEMMA ComingHeard ==
  ASSUME chan \in Seq(Frames), NEW type, Hears(type), type # "snapshot",
         reads' = reads \/ reads' # <<>>, AnswerComing
  PROVE  AnswerComing'
<1>1. type \notin {"snapshot"} OBVIOUS
<1>2. Has(chan, {"snapshot"}) => Has(chan', {"snapshot"}) BY <1>1, HasHeard
<1> QED BY <1>2 DEF AnswerComing

\* A read that moves on is still there.
LEMMA ReadStays ==
  ASSUME reads \in Seq(Reads), NEW i \in 1..Len(reads), NEW r, Replace(i, r)
  PROVE  reads' # <<>>
<1>1. Len(reads') = Len(reads) BY DEF Replace
<1>2. Len(reads) \in Nat /\ i \in Nat /\ 1 <= i /\ i <= Len(reads) OBVIOUS
<1> QED BY <1>1, <1>2

\* A read that is over has sent its answer.
LEMMA AnswerSent ==
  ASSUME chan \in Seq(Frames), reads \in Seq(Reads), NEW i \in 1..Len(reads), SendSnapshot(i)
  PROVE  AnswerComing'
<1> DEFINE f == [type |-> "snapshot", version |-> reads[i].version, access |-> reads[i].access]
<1>1. chan' = Append(chan, f) BY DEF SendSnapshot
<1>2. Len(chan) \in Nat /\ Len(chan) + 1 \in 1..Len(chan') /\ chan'[Len(chan) + 1] = f BY <1>1
<1>3. f.type = "snapshot" OBVIOUS
<1> QED BY <1>2, <1>3 DEF AnswerComing, Has

\* The three parts of a broadcast.
RowFrames ==
  Sent(recipientTopics(drain.shares), [type |-> "subshell", version |-> drain.version])
GoneFrames ==
  Sent(goneTopics(revokedTopics(drain.event), recipientTopics(drain.shares)), [type |-> "gone"])
AskTopics ==
  recheckTopics(revokedTopics(drain.event), recipientTopics(drain.shares)) \cup
    IF drain.event.kind = "shares-changed" THEN levelChangedTopics(drain.event.before, drain.shares) ELSE {}
AskFrames == Sent(AskTopics, [type |-> "recheck"])

LEMMA BroadcastIs ==
  ASSUME TypeOK, Broadcast
  PROVE  /\ RowFrames \in Seq(Frames) /\ GoneFrames \in Seq(Frames) /\ AskFrames \in Seq(Frames)
         /\ chan \o RowFrames \in Seq(Frames) /\ chan \o RowFrames \o GoneFrames \in Seq(Frames)
         /\ chan' = chan \o RowFrames \o GoneFrames \o AskFrames
<1>1. drain.version \in Versions /\ chan \in Seq(Frames) BY DEF TypeOK, Broadcast, Drains
<1>2. RowFrames \in Seq(Frames) BY <1>1, FramesAre, SentIs DEF RowFrames
<1>3. GoneFrames \in Seq(Frames) BY FramesAre, SentIs DEF GoneFrames
<1>4. AskFrames \in Seq(Frames) BY FramesAre, SentIs DEF AskFrames
<1>5. chan \o RowFrames \in Seq(Frames) BY <1>1, <1>2, ConcatProperties
<1>6. PICK x \in Seq(Frames) : x = chan \o RowFrames BY <1>5
<1>7. x \o GoneFrames \in Seq(Frames) BY <1>3, ConcatProperties
<1>8. chan' = chan \o RowFrames \o GoneFrames \o AskFrames
  BY DEF Broadcast, RowFrames, GoneFrames, AskFrames, AskTopics
<1> QED BY <1>2, <1>3, <1>4, <1>5, <1>6, <1>7, <1>8

\* Frames on their way stay there while others are broadcast.
LEMMA HasBroadcast ==
  ASSUME TypeOK, Broadcast, NEW types,
         \/ Has(chan, types) \/ Has(RowFrames, types) \/ Has(GoneFrames, types) \/ Has(AskFrames, types)
  PROVE  Has(chan', types)
<1>0. chan \in Seq(Frames) BY DEF TypeOK
<1>1. /\ RowFrames \in Seq(Frames) /\ GoneFrames \in Seq(Frames) /\ AskFrames \in Seq(Frames)
      /\ chan' = chan \o RowFrames \o GoneFrames \o AskFrames
  BY BroadcastIs
<1>2. PICK x \in Seq(Frames) : x = chan \o RowFrames BY BroadcastIs
<1>3. PICK y \in Seq(Frames) : y = x \o GoneFrames BY <1>2, BroadcastIs
<1>4. chan' = y \o AskFrames BY <1>1, <1>2, <1>3
<1>5. Has(chan, types) \/ Has(RowFrames, types) => Has(x, types) BY <1>0, <1>1, <1>2, HasMore, HasAfter
<1>6. Has(x, types) \/ Has(GoneFrames, types) => Has(y, types) BY <1>1, <1>3, HasMore, HasAfter
<1>7. Has(y, types) \/ Has(AskFrames, types) => Has(chan', types) BY <1>1, <1>4, HasMore, HasAfter
<1> QED BY <1>5, <1>6, <1>7

\* No step breaks what is known of the socket.
LEMMA SocketStays == ASSUME TypeOK, SocketIs, [Next]_vars PROVE SocketIs'
<1> USE DEF mutation, publisher, socket, bounds, SocketIs, Holds
<1>0. chan \in Seq(Frames) /\ reads \in Seq(Reads) /\ tab \in TabRec BY DEF TypeOK, TabRec
<1>s. ~tab.open => \A T, f : Sent(T, f) = <<>> BY DEF Sent
<1>e. <<>> \o <<>> = <<>> OBVIOUS
<1>1. CASE Change
  BY <1>0, <1>1 DEF Change
<1>2. CASE ReadBefore
  BY <1>0, <1>2 DEF ReadBefore
<1>3. CASE ReadGrants
  BY <1>0, <1>3 DEF ReadGrants
<1>4. ASSUME NEW b \in editing, NEW s \in Grants, ReplaceShares(b, s) PROVE SocketIs'
  BY <1>0, <1>4 DEF ReplaceShares
<1>5. ASSUME NEW s \in deleting, DeleteRow(s) PROVE SocketIs'
  BY <1>0, <1>5 DEF DeleteRow
<1>6. ASSUME NEW e \in owed, publishLive(e) PROVE SocketIs'
  BY <1>0, <1>6 DEF publishLive
<1>7. CASE flush
  BY <1>0, <1>7 DEF flush
<1>8. CASE TakeNext
  BY <1>0, <1>s, <1>e, <1>8 DEF TakeNext
<1>9. CASE FindRow
  BY <1>0, <1>9 DEF FindRow
<1>10. CASE ListShares
  BY <1>0, <1>10 DEF ListShares
<1>11. CASE Broadcast
  BY <1>0, <1>s, <1>e, <1>11 DEF Broadcast
<1>12. CASE ResolveFails
  BY <1>0, <1>s, <1>e, <1>12 DEF ResolveFails
<1>13. CASE Connect
  BY <1>0, <1>13 DEF Connect, TabRec
<1>14. CASE Drop
  BY <1>0, <1>14 DEF Drop, Closed, TabRec
<1>15. ASSUME NEW i \in 1..Len(reads), ListRows(i) PROVE SocketIs'
  BY <1>0, <1>15 DEF ListRows
<1>16. ASSUME NEW i \in 1..Len(reads), ListAccess(i) PROVE SocketIs'
  BY <1>0, <1>16 DEF ListAccess
<1>17. ASSUME NEW i \in 1..Len(reads), SendSnapshot(i) PROVE SocketIs'
  BY <1>0, <1>17 DEF SendSnapshot
<1>18. ASSUME NEW i \in 1..Len(reads), ListFails(i) PROVE SocketIs'
  BY <1>0, <1>18 DEF ListFails, Closed, TabRec
<1>19. CASE HearsSnapshot
  <2>1. Head(chan) \in Frames /\ Head(chan).type = "snapshot" BY <1>0, <1>19, HearsIs DEF HearsSnapshot
  <2>2. Head(chan).version # 0 => Head(chan).access # "none" BY <2>1 DEF Frames, Access, Levels
  <2>3. tab.open BY <1>19 DEF HearsSnapshot, Hears
  <2> QED BY <1>0, <1>19, <2>2, <2>3 DEF HearsSnapshot, TabRec
<1>20. CASE HearsSubshell
  <2>3. tab.open BY <1>20 DEF HearsSubshell, Hears
  <2> QED BY <1>0, <1>20, <2>3 DEF HearsSubshell, Asks, TabRec
<1>21. CASE HearsGone
  <2>3. tab.open BY <1>21 DEF HearsGone, Hears
  <2> QED BY <1>0, <1>21, <2>3 DEF HearsGone, TabRec
<1>22. CASE HearsRecheck
  <2>3. tab.open BY <1>22 DEF HearsRecheck, Hears
  <2> QED BY <1>0, <1>22, <2>3 DEF HearsRecheck, Asks, TabRec
<1>23. CASE UNCHANGED vars
  BY <1>0, <1>23 DEF vars
<1> QED BY <1>1, <1>2, <1>3, <1>4, <1>5, <1>6, <1>7, <1>8, <1>9, <1>10, <1>11, <1>12, <1>13,
           <1>14, <1>15, <1>16, <1>17, <1>18, <1>19, <1>20, <1>21, <1>22, <1>23, NextCases

\* What only grows.
LEMMA ExposedGrows == ASSUME [Next]_vars PROVE exposed \subseteq exposed' /\ viewer' = viewer
<1> USE DEF mutation, publisher, socket, bounds, Crossed
<1>1. CASE Change
  BY <1>1 DEF Change
<1>2. CASE ReadBefore
  BY <1>2 DEF ReadBefore
<1>3. CASE ReadGrants
  BY <1>3 DEF ReadGrants
<1>4. ASSUME NEW b \in editing, NEW s \in Grants, ReplaceShares(b, s) PROVE exposed \subseteq exposed' /\ viewer' = viewer
  BY <1>4 DEF ReplaceShares
<1>5. ASSUME NEW s \in deleting, DeleteRow(s) PROVE exposed \subseteq exposed' /\ viewer' = viewer
  BY <1>5 DEF DeleteRow
<1>6. ASSUME NEW e \in owed, publishLive(e) PROVE exposed \subseteq exposed' /\ viewer' = viewer
  BY <1>6 DEF publishLive
<1>7. CASE flush
  BY <1>7 DEF flush
<1>8. CASE TakeNext
  BY <1>8 DEF TakeNext
<1>9. CASE FindRow
  BY <1>9 DEF FindRow
<1>10. CASE ListShares
  BY <1>10 DEF ListShares
<1>11. CASE Broadcast
  BY <1>11 DEF Broadcast
<1>12. CASE ResolveFails
  BY <1>12 DEF ResolveFails
<1>13. CASE Connect
  BY <1>13 DEF Connect
<1>14. CASE Drop
  BY <1>14 DEF Drop, Closed
<1>15. ASSUME NEW i \in 1..Len(reads), ListRows(i) PROVE exposed \subseteq exposed' /\ viewer' = viewer
  BY <1>15 DEF ListRows
<1>16. ASSUME NEW i \in 1..Len(reads), ListAccess(i) PROVE exposed \subseteq exposed' /\ viewer' = viewer
  BY <1>16 DEF ListAccess
<1>17. ASSUME NEW i \in 1..Len(reads), SendSnapshot(i) PROVE exposed \subseteq exposed' /\ viewer' = viewer
  BY <1>17 DEF SendSnapshot
<1>18. ASSUME NEW i \in 1..Len(reads), ListFails(i) PROVE exposed \subseteq exposed' /\ viewer' = viewer
  BY <1>18 DEF ListFails, Closed
<1>19. CASE HearsSnapshot
  BY <1>19 DEF HearsSnapshot
<1>20. CASE HearsSubshell
  BY <1>20 DEF HearsSubshell, Asks
<1>21. CASE HearsGone
  BY <1>21 DEF HearsGone
<1>22. CASE HearsRecheck
  BY <1>22 DEF HearsRecheck, Asks
<1>23. CASE UNCHANGED vars
  BY <1>23 DEF vars
<1> QED BY <1>1, <1>2, <1>3, <1>4, <1>5, <1>6, <1>7, <1>8, <1>9, <1>10, <1>11, <1>12, <1>13,
           <1>14, <1>15, <1>16, <1>17, <1>18, <1>19, <1>20, <1>21, <1>22, <1>23, NextCases

\* What is sent to the tab are frames like any other.
LEMMA SentFrames ==
  \A T : /\ \A v \in Versions : Sent(T, [type |-> "subshell", version |-> v]) \in Seq(Frames)
         /\ Sent(T, [type |-> "gone"]) \in Seq(Frames)
         /\ Sent(T, [type |-> "recheck"]) \in Seq(Frames)
  BY FramesAre, SentIs

\* No step leaves a question without an answer.
LEMMA QuestionsStay ==
  ASSUME TypeOK, SocketIs, QuestionsAnswered, [Next]_vars PROVE QuestionsAnswered'
<1> SUFFICES ASSUME tab'.open, tab'.asking, Unless({"unanswered"})' PROVE AnswerComing'
  BY DEF QuestionsAnswered
<1> USE DEF mutation, publisher, socket, bounds
<1>0. chan \in Seq(Frames) /\ reads \in Seq(Reads) /\ tab \in TabRec /\ PublisherOK
  BY Parts DEF TypeOK, TabRec
<1>u. Unless({"unanswered"}) BY ExposedGrows DEF Unless
<1>i. tab.open /\ tab.asking => AnswerComing BY <1>u DEF QuestionsAnswered
<1>k. tab' = tab /\ chan' = chan /\ reads' = reads => AnswerComing' BY <1>i DEF AnswerComing
<1>1. CASE Change
  BY <1>k, <1>1 DEF Change
<1>2. CASE ReadBefore
  BY <1>k, <1>2 DEF ReadBefore
<1>3. CASE ReadGrants
  BY <1>k, <1>3 DEF ReadGrants
<1>4. ASSUME NEW b \in editing, NEW s \in Grants, ReplaceShares(b, s) PROVE AnswerComing'
  BY <1>k, <1>4 DEF ReplaceShares
<1>5. ASSUME NEW s \in deleting, DeleteRow(s) PROVE AnswerComing'
  BY <1>k, <1>5 DEF DeleteRow
<1>6. ASSUME NEW e \in owed, publishLive(e) PROVE AnswerComing'
  BY <1>k, <1>6 DEF publishLive
<1>7. CASE flush
  BY <1>k, <1>7 DEF flush
<1>8. CASE TakeNext
  <2>1. \A T : Sent(T, [type |-> "gone"]) \in Seq(Frames) BY SentFrames
  <2> QED BY <1>0, <1>i, <1>k, <1>8, <2>1, HasMore DEF TakeNext, AnswerComing
<1>9. CASE FindRow
  BY <1>k, <1>9 DEF FindRow
<1>10. CASE ListShares
  BY <1>k, <1>10 DEF ListShares
<1>11. CASE Broadcast
  <2>1. tab' = tab /\ reads' = reads BY <1>11 DEF Broadcast
  <2>2. Has(chan, {"snapshot"}) => Has(chan', {"snapshot"}) BY <1>11, HasBroadcast
  <2> QED BY <1>i, <2>1, <2>2 DEF AnswerComing
<1>12. CASE ResolveFails
  <2>1. \A T : Sent(T, [type |-> "recheck"]) \in Seq(Frames) BY SentFrames
  <2> QED BY <1>0, <1>i, <1>12, <2>1, HasMore DEF ResolveFails, AnswerComing
<1>13. CASE Connect
  BY <1>0, <1>13 DEF Connect, TabRec
<1>14. CASE Drop
  BY <1>0, <1>14 DEF Drop, Closed, TabRec
<1>15. ASSUME NEW i \in 1..Len(reads), ListRows(i) PROVE AnswerComing'
  BY <1>0, <1>15, ReadStays DEF ListRows, AnswerComing
<1>16. ASSUME NEW i \in 1..Len(reads), ListAccess(i) PROVE AnswerComing'
  BY <1>0, <1>16, ReadStays DEF ListAccess, AnswerComing
<1>17. ASSUME NEW i \in 1..Len(reads), SendSnapshot(i) PROVE AnswerComing'
  BY <1>0, <1>17, AnswerSent
<1>18. ASSUME NEW i \in 1..Len(reads), ListFails(i) PROVE AnswerComing'
  BY <1>0, <1>18 DEF ListFails, Closed, TabRec, Unless
<1>19. CASE HearsSnapshot
  BY <1>0, <1>19 DEF HearsSnapshot, TabRec
<1>20. CASE HearsSubshell
  <2>1. tab.open /\ Hears("subshell") BY <1>20 DEF HearsSubshell, Hears, SocketIs
  <2>2. CASE tab.asking
    <3>1. reads' = reads BY <1>0, <1>20, <2>2 DEF HearsSubshell, Asks, TabRec
    <3> QED BY <1>0, <1>i, <2>1, <2>2, <3>1, ComingHeard
  <2>3. CASE ~tab.asking
    <3>1. reads' = Append(reads, NewRead) BY <1>0, <1>20, <2>3 DEF HearsSubshell, Asks, TabRec
    <3> QED BY <1>0, <3>1 DEF AnswerComing
  <2> QED BY <2>2, <2>3
<1>21. CASE HearsGone
  <2>1. tab.open /\ Hears("gone") BY <1>21 DEF HearsGone, Hears, SocketIs
  <2>2. tab.asking /\ reads' = reads BY <1>0, <1>21 DEF HearsGone, TabRec
  <2> QED BY <1>0, <1>i, <2>1, <2>2, ComingHeard
<1>22. CASE HearsRecheck
  <2>1. tab.open /\ Hears("recheck") BY <1>22 DEF HearsRecheck, Hears, SocketIs
  <2>2. CASE tab.asking
    <3>1. reads' = reads BY <1>0, <1>22, <2>2 DEF HearsRecheck, Asks, TabRec
    <3> QED BY <1>0, <1>i, <2>1, <2>2, <3>1, ComingHeard
  <2>3. CASE ~tab.asking
    <3>1. reads' = Append(reads, NewRead) BY <1>0, <1>22, <2>3 DEF HearsRecheck, Asks, TabRec
    <3> QED BY <1>0, <3>1 DEF AnswerComing
  <2> QED BY <2>2, <2>3
<1>23. CASE UNCHANGED vars
  BY <1>k, <1>23 DEF vars
<1> QED BY <1>1, <1>2, <1>3, <1>4, <1>5, <1>6, <1>7, <1>8, <1>9, <1>10, <1>11, <1>12, <1>13,
           <1>14, <1>15, <1>16, <1>17, <1>18, <1>19, <1>20, <1>21, <1>22, <1>23, NextCases

-----------------------------------------------------------------------------
(* What is announced                                                       *)

\* The events that are announced and not yet taken up.
Waiting == (owed \cup {pending} \cup {queue[i] : i \in 1..Len(queue)}) \ {NoEvent}

\* A row that was deleted keeps no grants, and one event says that it was; a row
\* found before it was deleted is resolved before that event is.
DeletionIs ==
  /\ ~row.exists => row.grants = NoShares
  /\ \A e \in Waiting : e.kind = "deleted" => ~row.exists
  /\ \A e, f \in Waiting : e.kind = "deleted" /\ f.kind = "deleted" => e = f
  /\ ~row.exists /\ drain.step \in {"shares", "views"} => \E e \in Waiting : e.kind = "deleted"

\* An event is not the absence of one, and its kind says what it names.
LEMMA EventIs ==
  ASSUME NEW e \in Events
  PROVE  /\ e # NoEvent
         /\ e.kind \in {"changed", "shares-changed", "deleted"}
         /\ e.kind = "shares-changed" => e = SharesChanged(e.before) /\ e.before \in Grants
         /\ e.kind = "deleted" => e = Deleted(e.shares) /\ e.shares \in Grants
  BY DEF Events, Changed, SharesChanged, Deleted, NoEvent

LEMMA WaitingAre == ASSUME TypeOK PROVE Waiting \subseteq Events
<1>1. queue \in Seq(Events) /\ owed \subseteq Events /\ pending \in Events \cup {NoEvent} BY DEF TypeOK
<1>2. \A i \in 1..Len(queue) : queue[i] \in Events BY <1>1, ElementOfSeq
<1> QED BY <1>1, <1>2 DEF Waiting

\* Closing the window loses nothing.
LEMMA WaitsFlush == ASSUME TypeOK, flush PROVE Waiting' = Waiting
<1>1. queue \in Seq(Events) /\ pending \in Events BY DEF TypeOK, flush
<1>2. queue' = Append(queue, pending) /\ owed' = owed /\ pending' = NoEvent BY DEF flush, mutation
<1>3. /\ Len(queue) \in Nat /\ Len(queue') = Len(queue) + 1
      /\ \A i \in 1..Len(queue) : queue'[i] = queue[i]
      /\ queue'[Len(queue) + 1] = pending
  BY <1>1, <1>2, AppendProperties
<1>4. {queue'[i] : i \in 1..Len(queue')} = {queue[i] : i \in 1..Len(queue)} \cup {pending}
  <2>1. 1..Len(queue') = 1..Len(queue) \cup {Len(queue) + 1} BY <1>3
  <2> QED BY <1>3, <2>1
<1> QED BY <1>2, <1>4 DEF Waiting

\* What is taken up is the first of the queue.
LEMMA WaitsTake ==
  ASSUME TypeOK, TakeNext
  PROVE  Waiting' \subseteq Waiting /\ Waiting \subseteq Waiting' \cup {Head(queue)} /\ Head(queue) \in Waiting
<1>1. queue \in Seq(Events) /\ queue # <<>> BY DEF TypeOK, TakeNext
<1>2. queue' = Tail(queue) /\ owed' = owed /\ pending' = pending BY DEF TakeNext, mutation
<1>3. /\ Len(queue) \in Nat /\ Len(queue') \in Nat /\ Len(queue) = Len(queue') + 1
      /\ Head(queue) = queue[1]
      /\ \A i \in 1..Len(queue') : queue'[i] = queue[i + 1]
  BY <1>1, <1>2
<1>4. \A i \in 1..Len(queue') : i + 1 \in 1..Len(queue) /\ queue'[i] = queue[i + 1] BY <1>3
<1>5. \A i \in 1..Len(queue) : i = 1 \/ (i - 1 \in 1..Len(queue') /\ queue'[i - 1] = queue[i])
  <2> TAKE i \in 1..Len(queue)
  <2>1. CASE i # 1
    <3>1. i - 1 \in 1..Len(queue') /\ (i - 1) + 1 = i BY <1>3, <2>1
    <3> QED BY <1>3, <3>1
  <2> QED BY <2>1
<1>6. 1 \in 1..Len(queue) BY <1>3
<1>7. queue[1] \in Waiting
  BY <1>1, <1>6, EventIs, ElementOfSeq DEF Waiting
<1>8. {queue'[i] : i \in 1..Len(queue')} \subseteq {queue[i] : i \in 1..Len(queue)} BY <1>4
<1>9. {queue[i] : i \in 1..Len(queue)} \subseteq {queue'[i] : i \in 1..Len(queue')} \cup {queue[1]}
  BY <1>5
<1> QED BY <1>2, <1>3, <1>7, <1>8, <1>9 DEF Waiting

\* What is published was owed: the window keeps it or has better.
LEMMA WaitsPublish ==
  ASSUME TypeOK, NEW e \in owed, publishLive(e)
  PROVE  Waiting' \subseteq Waiting /\ Waiting \subseteq Waiting' \cup {pending, e} /\ e \in Waiting
         /\ pending' # NoEvent
<1>1. owed' = owed \ {e} /\ queue' = queue /\ pending' \in {pending, e} BY DEF publishLive
<1>2. e \in Events BY DEF TypeOK
<1>3. pending' # NoEvent BY <1>2, EventIs DEF publishLive, NoEvent
<1> QED BY <1>1, <1>2, <1>3, EventIs DEF Waiting

\* No step breaks what is known of the deletion.
LEMMA DeletionStays == ASSUME TypeOK, DeletionIs, [Next]_vars PROVE DeletionIs'
<1> USE DEF mutation, publisher, socket, bounds
<1>0. /\ row \in [exists : BOOLEAN, version : Versions \ {0}, grants : Grants]
      /\ Waiting \subseteq Events /\ drain \in Drains
  BY WaitingAre DEF TypeOK
<1>w. owed' = owed /\ pending' = pending /\ queue' = queue => Waiting' = Waiting BY DEF Waiting
<1>k. row' = row /\ drain' = drain /\ Waiting' = Waiting => DeletionIs' BY DEF DeletionIs
<1>1. CASE Change
  <2>1. Waiting' = Waiting \cup {Changed} BY <1>1 DEF Change, Waiting, Changed, NoEvent
  <2>2. row'.exists = row.exists /\ row'.grants = row.grants BY <1>0, <1>1 DEF Change
  <2>3. Changed.kind = "changed" BY DEF Changed
  <2> QED BY <1>1, <2>1, <2>2, <2>3 DEF Change, DeletionIs
<1>2. CASE ReadBefore
  BY <1>w, <1>k, <1>2 DEF ReadBefore
<1>3. CASE ReadGrants
  BY <1>w, <1>k, <1>3 DEF ReadGrants
<1>4. ASSUME NEW b \in editing, NEW s \in Grants, ReplaceShares(b, s) PROVE DeletionIs'
  <2>1. CASE ~row.exists BY <1>w, <1>k, <1>4, <2>1 DEF ReplaceShares
  <2>2. CASE row.exists
    <3>1. Waiting' = Waiting \cup {SharesChanged(b)}
      BY <1>4, <2>2 DEF ReplaceShares, Waiting, SharesChanged, NoEvent
    <3>2. row'.exists BY <1>0, <1>4, <2>2 DEF ReplaceShares
    <3>3. SharesChanged(b).kind = "shares-changed" BY DEF SharesChanged
    <3> QED BY <2>2, <3>1, <3>2, <3>3 DEF DeletionIs
  <2> QED BY <2>1, <2>2
<1>5. ASSUME NEW s \in deleting, DeleteRow(s) PROVE DeletionIs'
  <2>1. CASE ~row.exists BY <1>w, <1>k, <1>5, <2>1 DEF DeleteRow
  <2>2. CASE row.exists
    <3>1. Waiting' = Waiting \cup {Deleted(s)} BY <1>5, <2>2 DEF DeleteRow, Waiting, Deleted, NoEvent
    <3>2. ~row'.exists /\ row'.grants = NoShares BY <1>0, <1>5, <2>2 DEF DeleteRow
    <3>3. Deleted(s).kind = "deleted" BY DEF Deleted
    <3>4. \A e \in Waiting : e.kind # "deleted" BY <2>2 DEF DeletionIs
    <3> QED BY <3>1, <3>2, <3>3, <3>4 DEF DeletionIs
  <2> QED BY <2>1, <2>2
<1>6. ASSUME NEW e \in owed, publishLive(e) PROVE DeletionIs'
  <2>1. Waiting' \subseteq Waiting /\ Waiting \subseteq Waiting' \cup {pending, e} /\ e \in Waiting
    BY <1>6, WaitsPublish
  <2>2. row' = row /\ drain' = drain BY <1>6 DEF publishLive
  <2>3. ASSUME NEW f \in Waiting, f.kind = "deleted" PROVE \E x \in Waiting' : x.kind = "deleted"
    <3>1. CASE pending.kind = "deleted"
      <4>1. pending' = pending BY <1>6, <3>1 DEF publishLive
      <4>2. pending' \in Waiting' BY <3>1, <4>1 DEF Waiting, NoEvent
      <4> QED BY <3>1, <4>1, <4>2
    <3>2. CASE pending.kind # "deleted" /\ e.kind = "deleted"
      <4>1. pending' = e BY <1>6, <3>2 DEF publishLive
      <4>2. pending' \in Waiting' BY <3>2, <4>1 DEF Waiting, NoEvent
      <4> QED BY <3>2, <4>1, <4>2
    <3>3. CASE pending.kind # "deleted" /\ e.kind # "deleted" BY <2>1, <2>3, <3>3
    <3> QED BY <3>1, <3>2, <3>3
  <2> QED BY <2>1, <2>2, <2>3 DEF DeletionIs
<1>7. CASE flush
  BY <1>k, <1>7, WaitsFlush DEF flush
<1>8. CASE TakeNext
  <2>1. Waiting' \subseteq Waiting BY <1>8, WaitsTake
  <2>2. row' = row BY <1>8 DEF TakeNext
  <2>3. drain'.step \notin {"shares", "views"} BY <1>8 DEF TakeNext, Idle, Resolving
  <2> QED BY <2>1, <2>2, <2>3 DEF DeletionIs
<1>9. CASE FindRow
  <2>1. row' = row /\ Waiting' = Waiting BY <1>w, <1>9 DEF FindRow
  <2>2. ~row.exists => drain'.step = "idle" BY <1>9 DEF FindRow, Idle
  <2> QED BY <2>1, <2>2 DEF DeletionIs
<1>10. CASE ListShares
  <2>1. row' = row /\ Waiting' = Waiting BY <1>w, <1>10 DEF ListShares
  <2>2. drain.step = "shares" BY <1>10 DEF ListShares
  <2> QED BY <2>1, <2>2 DEF DeletionIs
<1>11. CASE Broadcast
  <2>1. row' = row /\ Waiting' = Waiting /\ drain' = Idle BY <1>w, <1>11 DEF Broadcast
  <2> QED BY <2>1 DEF DeletionIs, Idle
<1>12. CASE ResolveFails
  <2>1. row' = row /\ Waiting' = Waiting /\ drain' = Idle BY <1>w, <1>12 DEF ResolveFails
  <2> QED BY <2>1 DEF DeletionIs, Idle
<1>13. CASE Connect
  BY <1>w, <1>k, <1>13 DEF Connect
<1>14. CASE Drop
  BY <1>w, <1>k, <1>14 DEF Drop
<1>15. ASSUME NEW i \in 1..Len(reads), ListRows(i) PROVE DeletionIs'
  BY <1>w, <1>k, <1>15 DEF ListRows
<1>16. ASSUME NEW i \in 1..Len(reads), ListAccess(i) PROVE DeletionIs'
  BY <1>w, <1>k, <1>16 DEF ListAccess
<1>17. ASSUME NEW i \in 1..Len(reads), SendSnapshot(i) PROVE DeletionIs'
  BY <1>w, <1>k, <1>17 DEF SendSnapshot
<1>18. ASSUME NEW i \in 1..Len(reads), ListFails(i) PROVE DeletionIs'
  BY <1>w, <1>k, <1>18 DEF ListFails
<1>19. CASE HearsSnapshot
  BY <1>w, <1>k, <1>19 DEF HearsSnapshot
<1>20. CASE HearsSubshell
  BY <1>w, <1>k, <1>20 DEF HearsSubshell
<1>21. CASE HearsGone
  BY <1>w, <1>k, <1>21 DEF HearsGone
<1>22. CASE HearsRecheck
  BY <1>w, <1>k, <1>22 DEF HearsRecheck
<1>23. CASE UNCHANGED vars
  BY <1>w, <1>k, <1>23 DEF vars
<1> QED BY <1>1, <1>2, <1>3, <1>4, <1>5, <1>6, <1>7, <1>8, <1>9, <1>10, <1>11, <1>12, <1>13,
           <1>14, <1>15, <1>16, <1>17, <1>18, <1>19, <1>20, <1>21, <1>22, <1>23, NextCases

-----------------------------------------------------------------------------
(* The row as it is                                                        *)

\* Something that will read the row again is waiting.
Unread == owed # {} \/ pending # NoEvent \/ queue # <<>> \/ drain.step = "row"

\* The sequence has the last word on the row: a copy of it as it is, which no
\* other copy and no end follows.
LastWordIn(q) ==
  \E i \in 1..Len(q) :
    /\ q[i].type = "subshell" /\ q[i].version = row.version
    /\ \A j \in (i + 1)..Len(q) : q[j].type \notin {"subshell", "gone"}

\* A copy that will show the row as it is, or leave it so.
Lasts(v) == v = row.version \/ (tab.live /\ Holds /\ v # 0)

LastFrames == {f \in Frames : f.type = "recheck" \/ (f.type = "snapshot" /\ Lasts(f.version))}
LastReads == {r \in Reads : r.step = "rows" \/ Lasts(r.version)}

\* The tab shows the row as it is, or nothing of it will be shown but that.
Shown ==
  /\ tab.connected /\ Holds => tab.held = row.version
  /\ ~tab.gone
  /\ chan \in Seq(LastFrames) /\ reads \in Seq(LastReads)
  /\ Unless({"unanswered"}) /\ ~Holds => AnswerComing

\* What the publisher has read is the row as it is, and so is what the tab of a
\* viewer is left with.
RowSaid ==
  /\ drain.step \in {"shares", "views"} => drain.version = row.version
  /\ drain.step = "views" => drain.shares = row.grants
  /\ drain.step = "idle" /\ tab.open /\ MayHave # "none" => LastWordIn(chan) \/ Shown

\* Once nothing is left to read, the row that exists is said as it is.
RowTold ==
  ~Unread /\ row.exists /\ Unless({"unannounced", "crossed"}) => RowSaid

\* Whom a topic's frame reaches: nobody but the socket that joined the topic.
LEMMA SentTo ==
  ASSUME NEW T, NEW f
  PROVE  /\ \A i \in 1..Len(Sent(T, f)) : Sent(T, f)[i] = f
         /\ tab.open /\ T \cap topicsForViewer # {} => 1 \in 1..Len(Sent(T, f))
         /\ T \cap topicsForViewer = {} => Sent(T, f) = <<>>
<1> DEFINE n == Cardinality(T \cap topicsForViewer)
<1>1. IsFiniteSet({viewer}) /\ IsFiniteSet({Everyone}) BY FS_Singleton
<1>2. IsFiniteSet({viewer} \cup {Everyone}) BY <1>1, FS_Union
<1>3. T \cap topicsForViewer \in SUBSET ({viewer} \cup {Everyone}) BY DEF topicsForViewer
<1>4. IsFiniteSet(T \cap topicsForViewer) /\ n \in Nat BY <1>2, <1>3, FS_Subset, FS_CardinalityType
<1>5. n = 0 <=> T \cap topicsForViewer = {} BY <1>4, FS_EmptySet
<1> HIDE DEF n
<1>6. Repeat(f, n) \in Seq({f}) /\ Len(Repeat(f, n)) = n /\ \A i \in 1..n : Repeat(f, n)[i] = f
  BY <1>4 DEF Repeat
<1>7. n = 0 => Repeat(f, n) = <<>> BY <1>6, EmptySeq
<1>8. Sent(T, f) = IF tab.open THEN Repeat(f, n) ELSE <<>> BY DEF Sent, n
<1>9. n # 0 => 1 \in 1..n BY <1>4
<1> QED BY <1>5, <1>6, <1>7, <1>8, <1>9

\* The last word stays the last while nothing is said but answers and questions,
LEMMA LastWordMore ==
  ASSUME NEW q \in Seq(Frames), NEW r \in Seq(Frames), LastWordIn(q), ~Has(r, {"subshell", "gone"})
  PROVE  LastWordIn(q \o r)
<1>1. PICK i \in 1..Len(q) : /\ q[i].type = "subshell" /\ q[i].version = row.version
                             /\ \A j \in (i + 1)..Len(q) : q[j].type \notin {"subshell", "gone"}
  BY DEF LastWordIn
<1>2. i \in 1..Len(q \o r) /\ (q \o r)[i] = q[i] BY <1>1, AppendedIs
<1>3. ASSUME NEW j \in (i + 1)..Len(q \o r) PROVE (q \o r)[j].type \notin {"subshell", "gone"}
  <2>1. CASE j <= Len(q)
    <3>1. j \in (i + 1)..Len(q) /\ j \in 1..Len(q) BY <1>1, <2>1
    <3> QED BY <1>1, <3>1, AppendedIs
  <2>2. CASE j > Len(q)
    <3>1. j \in (Len(q) + 1)..Len(q \o r) BY <2>2, AppendedIs
    <3>2. j - Len(q) \in 1..Len(r) /\ (q \o r)[j] = r[j - Len(q)] BY <3>1, AppendedIs
    <3> QED BY <3>2 DEF Has
  <2>3. Len(q) \in Nat /\ j \in Int OBVIOUS
  <2> QED BY <2>1, <2>2, <2>3
<1> QED BY <1>1, <1>2, <1>3 DEF LastWordIn

\* and a copy of the row as it is is the last word when it is sent.
LEMMA LastWordSent ==
  ASSUME NEW q \in Seq(Frames), NEW r \in Seq(Frames), 1 \in 1..Len(r),
         \A i \in 1..Len(r) : r[i].type = "subshell" /\ r[i].version = row.version
  PROVE  LastWordIn(q \o r)
<1> DEFINE n == Len(q) + Len(r)
<1>1. Len(q) \in Nat /\ Len(r) \in Nat /\ Len(r) >= 1 /\ Len(q \o r) = n BY AppendedIs
<1>2. Len(r) \in 1..Len(r) BY <1>1
<1>3. n \in 1..Len(q \o r) /\ (q \o r)[n] = r[Len(r)] BY <1>1, <1>2, AppendedIs
<1>4. \A j \in (n + 1)..Len(q \o r) : FALSE BY <1>1
<1> HIDE DEF n
<1> QED BY <1>2, <1>3, <1>4 DEF LastWordIn

\* Hearing a frame leaves the last word to come, unless it was the last word.
LEMMA LastWordHeard ==
  ASSUME chan \in Seq(Frames), NEW type, Hears(type), LastWordIn(chan), row' = row
  PROVE  \/ LastWordIn(chan)'
         \/ /\ type = "subshell" /\ Head(chan).version = row.version
            /\ ~Has(chan', {"subshell", "gone"})
<1>1. PICK i \in 1..Len(chan) : /\ chan[i].type = "subshell" /\ chan[i].version = row.version
                                /\ \A j \in (i + 1)..Len(chan) : chan[j].type \notin {"subshell", "gone"}
  BY DEF LastWordIn
<1>h. /\ Len(chan) \in Nat /\ Len(chan') \in Nat /\ Len(chan) = Len(chan') + 1
      /\ Head(chan) = chan[1] /\ Head(chan).type = type
      /\ \A j \in 1..Len(chan') : chan'[j] = chan[j + 1] /\ j + 1 \in 2..Len(chan)
  BY HeardIs DEF Hears
<1>2. CASE i = 1
  <2>1. \A j \in 1..Len(chan') : chan'[j].type \notin {"subshell", "gone"} BY <1>1, <1>h, <1>2
  <2> QED BY <1>1, <1>h, <1>2, <2>1 DEF Has
<1>3. CASE i # 1
  <2>1. i - 1 \in 1..Len(chan') /\ (i - 1) + 1 = i BY <1>1, <1>h, <1>3
  <2>2. chan'[i - 1] = chan[i] BY <1>h, <2>1
  <2>3. ASSUME NEW j \in ((i - 1) + 1)..Len(chan') PROVE chan'[j].type \notin {"subshell", "gone"}
    <3>1. j \in 1..Len(chan') /\ j + 1 \in (i + 1)..Len(chan) BY <1>h, <2>1
    <3> QED BY <1>1, <1>h, <3>1
  <2>4. \E k \in 1..Len(chan') :
          /\ chan'[k].type = "subshell" /\ chan'[k].version = row'.version
          /\ \A j \in (k + 1)..Len(chan') : chan'[j].type \notin {"subshell", "gone"}
    BY <1>1, <2>1, <2>2, <2>3
  <2> QED BY <2>4 DEF LastWordIn
<1> QED BY <1>2, <1>3

\* An answer as it is sent.
LEMMA SnapshotIs ==
  ASSUME reads \in Seq(Reads), NEW i \in 1..Len(reads), reads[i].step = "ready"
  PROVE  /\ [type |-> "snapshot", version |-> reads[i].version, access |-> reads[i].access] \in Frames
         /\ reads[i] \in Reads
<1>1. reads[i] \in Reads BY ReadsMove
<1> QED BY <1>1 DEF Reads, Frames

\* A frame that is heard takes nothing from what the others are.
LEMMA ShownKept ==
  ASSUME Shown, NEW type, Hears(type), row' = row, tab'.connected = tab.connected, tab'.held = tab.held,
         tab'.live = tab.live, tab'.gone = tab.gone
  PROVE  chan' \in Seq(LastFrames') /\ LastReads' = LastReads /\ Head(chan) \in LastFrames
<1>1. \A v : Lasts(v)' <=> Lasts(v) BY DEF Lasts, Holds
<1>2. LastFrames' = LastFrames /\ LastReads' = LastReads BY <1>1 DEF LastFrames, LastReads
<1>3. chan' \in Seq(LastFrames) /\ Head(chan) \in LastFrames BY HearsIs DEF Shown
<1> QED BY <1>2, <1>3

\* No step unsays the row as it is.
LEMMA RowStays ==
  ASSUME TypeOK, SocketIs, QuestionsAnswered, DeletionIs, RowTold, [Next]_vars
  PROVE  RowTold'
<1> SUFFICES ASSUME ~Unread', row'.exists, Unless({"unannounced", "crossed"})' PROVE RowSaid'
  BY DEF RowTold
<1> USE DEF mutation, publisher, socket, bounds
<1>0. /\ row \in [exists : BOOLEAN, version : Versions \ {0}, grants : Grants]
      /\ chan \in Seq(Frames) /\ reads \in Seq(Reads) /\ tab \in TabRec
      /\ drain \in Drains /\ viewer \in Users /\ owed \subseteq Events
  BY DEF TypeOK, TabRec
<1>g. exposed \subseteq exposed' /\ viewer' = viewer BY ExposedGrows
<1>u. Unless({"unannounced", "crossed"}) /\ (Unless({"unanswered"})' => Unless({"unanswered"}))
  BY <1>g DEF Unless
<1>m. row' = row => MayHave' = MayHave BY <1>g DEF MayHave
<1>i. ~Unread /\ row.exists => RowSaid BY <1>u DEF RowTold
<1>d. owed' = owed /\ pending' = pending /\ queue' = queue /\ drain' = drain => ~Unread BY DEF Unread
\* The tab and what is on its way to it, and the row, stay as they are.
<1>k. ASSUME row' = row, owed' = owed, pending' = pending, queue' = queue, drain' = drain,
             chan' = chan, reads' = reads, tab' = tab
      PROVE  RowSaid'
  <2>1. RowSaid BY <1>i, <1>d, <1>k
  <2>2. LastWordIn(chan)' <=> LastWordIn(chan) BY <1>k DEF LastWordIn
  <2>3. Shown => Shown'
    BY <1>k, <1>u DEF Shown, Lasts, LastFrames, LastReads, Holds, AnswerComing
  <2> QED BY <1>k, <1>m, <2>1, <2>2, <2>3 DEF RowSaid
\* Steps of the socket and the tab: what the publisher has read stays as it is.
<1>t. ASSUME row' = row, owed' = owed, pending' = pending, queue' = queue, drain' = drain,
             RowSaid /\ drain.step = "idle" /\ tab'.open /\ MayHave # "none" => LastWordIn(chan)' \/ Shown'
      PROVE  RowSaid'
  <2>1. RowSaid BY <1>i, <1>d, <1>t
  <2> QED BY <1>t, <1>m, <2>1 DEF RowSaid
\* The reads move, and nothing else.
<1>r. ASSUME NEW i \in 1..Len(reads), NEW r \in Reads, Replace(i, r), chan' = chan, tab' = tab, row' = row,
             Shown => r \in LastReads
      PROVE  LastWordIn(chan) \/ Shown => LastWordIn(chan)' \/ Shown'
  <2>1. LastWordIn(chan)' <=> LastWordIn(chan) BY <1>r DEF LastWordIn
  <2>2. LastReads' = LastReads /\ LastFrames' = LastFrames
    BY <1>r DEF Lasts, LastFrames, LastReads, Holds
  <2>3. reads' # <<>> BY <1>0, <1>r, ReadStays
  <2>4. ASSUME Shown PROVE Shown'
    <3>1. reads' \in Seq(LastReads) BY <1>r, <2>4, ReadsMove DEF Shown
    <3> QED BY <1>r, <2>2, <2>3, <2>4, <3>1 DEF Shown, Holds, AnswerComing
  <2> QED BY <2>1, <2>4
<1>1. CASE Change
  BY <1>1 DEF Change, Unread
<1>2. CASE ReadBefore
  BY <1>k, <1>2 DEF ReadBefore
<1>3. CASE ReadGrants
  BY <1>k, <1>3 DEF ReadGrants
<1>4. ASSUME NEW b \in editing, NEW s \in Grants, ReplaceShares(b, s) PROVE RowSaid'
  BY <1>4 DEF ReplaceShares, Unread
<1>5. ASSUME NEW s \in deleting, DeleteRow(s) PROVE RowSaid'
  <2>1. ~row.exists \/ ~row'.exists BY <1>0, <1>5 DEF DeleteRow
  <2> QED BY <1>5, <2>1 DEF DeleteRow
<1>6. ASSUME NEW e \in owed, publishLive(e) PROVE RowSaid'
  BY <1>6, WaitsPublish DEF Unread
<1>7. CASE flush
  <2>1. queue' # <<>> BY <1>7 DEF flush, TypeOK
  <2> QED BY <2>1 DEF Unread
<1>8. CASE TakeNext
  <2>1. Head(queue).kind # "deleted" BY <1>8, WaitsTake DEF TakeNext, DeletionIs
  <2>2. drain'.step = "row" BY <1>8, <2>1 DEF TakeNext, Resolving
  <2> QED BY <2>2 DEF Unread
<1>9. CASE FindRow
  <2>1. row' = row BY <1>9 DEF FindRow
  <2>2. drain' = [drain EXCEPT !.step = "shares", !.version = row.version] BY <1>9, <2>1 DEF FindRow
  <2>3. drain'.step = "shares" /\ drain'.version = row.version
    BY <1>0, <1>9, <2>2 DEF FindRow, Drains
  <2> QED BY <2>1, <2>3 DEF RowSaid
<1>10. CASE ListShares
  <2>1. row' = row /\ owed' = owed /\ pending' = pending /\ queue' = queue BY <1>10 DEF ListShares
  <2>2. drain.step = "shares" BY <1>10 DEF ListShares
  <2>3. ~Unread BY <2>1, <2>2 DEF Unread
  <2>4. drain'.step = "views" /\ drain'.version = drain.version /\ drain'.shares = row.grants
    BY <1>0, <1>10 DEF ListShares, Drains
  <2> QED BY <1>i, <2>1, <2>2, <2>3, <2>4 DEF RowSaid
<1>11. CASE Broadcast
  <2>1. row' = row /\ owed' = owed /\ pending' = pending /\ queue' = queue /\ tab' = tab /\ drain' = Idle
    BY <1>11 DEF Broadcast
  <2>2. drain.step = "views" BY <1>11 DEF Broadcast
  <2>3. ~Unread BY <2>1, <2>2 DEF Unread
  <2>4. drain.version = row.version /\ drain.shares = row.grants BY <1>i, <2>1, <2>2, <2>3 DEF RowSaid
  <2>5. ASSUME tab.open, MayHave # "none" PROVE LastWordIn(chan)'
    <3>1. Cardinality(recipientTopics(row.grants) \cap topicsForViewer) = 1
      BY <1>0, <2>1, <2>5, TopicsReachViewers DEF MayHave, topicsForViewer
    <3>2. recipientTopics(row.grants) \cap topicsForViewer # {} BY <3>1, FS_EmptySet
    <3>3. goneTopics(revokedTopics(drain.event), recipientTopics(row.grants)) \cap topicsForViewer = {}
      BY <3>2 DEF goneTopics, topicsForViewer
    <3>4. GoneFrames = <<>> BY <2>4, <3>3, SentTo DEF GoneFrames
    <3>5. /\ 1 \in 1..Len(RowFrames)
          /\ \A i \in 1..Len(RowFrames) : RowFrames[i] = [type |-> "subshell", version |-> row.version]
      BY <2>4, <2>5, <3>2, SentTo DEF RowFrames
    <3>6. /\ RowFrames \in Seq(Frames) /\ AskFrames \in Seq(Frames)
          /\ chan' = chan \o RowFrames \o GoneFrames \o AskFrames
      BY <1>11, BroadcastIs
    <3>7. PICK x \in Seq(Frames) : x = chan \o RowFrames BY <1>11, BroadcastIs
    <3>8. x \o GoneFrames = x BY <3>4
    <3>9. chan' = x \o AskFrames BY <3>6, <3>7, <3>8
    <3>r. \A i \in 1..Len(RowFrames) : RowFrames[i].type = "subshell" /\ RowFrames[i].version = row.version
      BY <3>5
    <3>10. LastWordIn(x)
      <4>1. LastWordIn(chan \o RowFrames) BY <1>0, <3>5, <3>6, <3>r, LastWordSent
      <4> QED BY <3>7, <4>1
    <3>11. \A i \in 1..Len(AskFrames) : AskFrames[i] = [type |-> "recheck"] BY SentTo DEF AskFrames
    <3>12. ~Has(AskFrames, {"subshell", "gone"}) BY <3>11 DEF Has
    <3>13. LastWordIn(chan') BY <3>6, <3>9, <3>10, <3>12, LastWordMore
    <3> QED BY <2>1, <3>13 DEF LastWordIn
  <2>6. drain'.step = "idle" BY <2>1 DEF Idle
  <2> QED BY <1>m, <2>1, <2>5, <2>6 DEF RowSaid
<1>12. CASE ResolveFails
  BY <1>12 DEF ResolveFails, Unless
<1>13. CASE Connect
  <2>1. row' = row /\ drain' = drain /\ owed' = owed /\ pending' = pending /\ queue' = queue
    BY <1>13 DEF Connect
  <2>2. chan' = <<>> /\ reads' = <<NewRead>> /\ ~tab'.connected /\ ~tab'.gone
    BY <1>0, <1>13 DEF Connect, SocketIs, TabRec
  <2>3. NewRead \in LastReads' BY NewReadIs DEF LastReads, NewRead
  <2>4. chan' \in Seq(LastFrames') /\ reads' \in Seq(LastReads') BY <2>2, <2>3
  <2>5. reads' # <<>> BY <2>2
  <2>6. Shown' BY <2>2, <2>4, <2>5 DEF Shown, AnswerComing
  <2> QED BY <1>t, <2>1, <2>6
<1>14. CASE Drop
  <2>1. ~tab'.open BY <1>0, <1>14 DEF Drop, Closed, TabRec
  <2> QED BY <1>t, <1>14, <2>1 DEF Drop
<1>15. ASSUME NEW i \in 1..Len(reads), ListRows(i) PROVE RowSaid'
  <2> DEFINE r == IF MayHave = "none" THEN [reads[i] EXCEPT !.step = "ready"]
                  ELSE [reads[i] EXCEPT !.step = "shares", !.version = row.version]
  <2>1. reads[i] \in Reads /\ reads[i].step = "rows" BY <1>0, <1>15, ReadsMove DEF ListRows
  <2>2. r \in Reads BY <1>0, <2>1 DEF Reads
  <2>3. MayHave # "none" => r \in LastReads BY <2>1, <2>2 DEF LastReads, Lasts, Reads
  <2>4. Replace(i, r) /\ row' = row /\ drain' = drain /\ owed' = owed /\ pending' = pending
          /\ queue' = queue /\ chan' = chan /\ tab' = tab
    BY <1>15 DEF ListRows
  <2> HIDE DEF r
  <2>5. CASE MayHave # "none"
    <3>1. LastWordIn(chan) \/ Shown => LastWordIn(chan)' \/ Shown' BY <1>r, <2>2, <2>3, <2>4, <2>5
    <3> QED BY <1>t, <2>4, <3>1 DEF RowSaid
  <2>6. CASE MayHave = "none" BY <1>t, <2>4, <2>6
  <2> QED BY <2>5, <2>6
<1>16. ASSUME NEW i \in 1..Len(reads), ListAccess(i) PROVE RowSaid'
  <2> DEFINE a == resolveSubshellAccess(viewer, row.grants)
             r == [reads[i] EXCEPT !.step = "ready", !.access = IF a = "none" THEN "view" ELSE a]
  <2>1. reads[i] \in Reads /\ reads[i].step = "shares" BY <1>0, <1>16, ReadsMove DEF ListAccess
  <2>2. a \in Access BY <1>0, AccessIs
  <2>3. r \in Reads BY <2>1, <2>2 DEF Reads, Access, Levels
  <2>4. Shown => reads[i] \in LastReads BY ReadsMove DEF Shown
  <2>5. Shown => r \in LastReads BY <2>1, <2>3, <2>4 DEF LastReads, Lasts, Reads
  <2>6. Replace(i, r) /\ row' = row /\ drain' = drain /\ owed' = owed /\ pending' = pending
          /\ queue' = queue /\ chan' = chan /\ tab' = tab
    BY <1>16 DEF ListAccess
  <2> HIDE DEF r
  <2>7. LastWordIn(chan) \/ Shown => LastWordIn(chan)' \/ Shown' BY <1>r, <2>3, <2>5, <2>6
  <2> QED BY <1>t, <2>6, <2>7 DEF RowSaid
<1>17. ASSUME NEW i \in 1..Len(reads), SendSnapshot(i) PROVE RowSaid'
  <2> DEFINE f == [type |-> "snapshot", version |-> reads[i].version, access |-> reads[i].access]
  <2>1. row' = row /\ drain' = drain /\ owed' = owed /\ pending' = pending /\ queue' = queue /\ tab' = tab
          /\ chan' = Append(chan, f) /\ reads' = Without(i) /\ reads[i].step = "ready"
    BY <1>17 DEF SendSnapshot
  <2>2. f \in Frames BY <1>0, <2>1, SnapshotIs
  <2>3. f.type = "snapshot" /\ f.version = reads[i].version OBVIOUS
  <2> HIDE DEF f
  <2>4. <<f>> \in Seq(Frames) /\ chan' = chan \o <<f>> /\ <<f>>[1] = f /\ Len(<<f>>) = 1 BY <1>0, <2>1, <2>2
  <2>5. ~Has(<<f>>, {"subshell", "gone"}) BY <2>3, <2>4 DEF Has
  <2>6. LastWordIn(chan) => LastWordIn(chan') BY <1>0, <2>4, <2>5, LastWordMore
  <2>7. LastWordIn(chan') <=> LastWordIn(chan)' BY <2>1 DEF LastWordIn
  <2>8. AnswerComing' BY <1>0, <1>17, AnswerSent
  <2>9. ASSUME Shown PROVE Shown'
    <3>1. LastReads' = LastReads /\ LastFrames' = LastFrames
      BY <2>1 DEF Lasts, LastFrames, LastReads, Holds
    <3>2. reads[i] \in LastReads /\ Without(i) \in Seq(LastReads) BY <2>9, ReadsMove DEF Shown
    <3>3. f \in LastFrames BY <2>1, <2>2, <2>3, <3>2 DEF LastReads, LastFrames
    <3>4. chan' \in Seq(LastFrames) BY <2>1, <2>9, <3>3 DEF Shown
    <3> QED BY <2>1, <2>8, <2>9, <3>1, <3>2, <3>4 DEF Shown, Holds
  <2> QED BY <1>t, <2>1, <2>6, <2>7, <2>9 DEF RowSaid
<1>18. ASSUME NEW i \in 1..Len(reads), ListFails(i) PROVE RowSaid'
  <2>1. row' = row /\ drain' = drain /\ owed' = owed /\ pending' = pending /\ queue' = queue
    BY <1>18 DEF ListFails
  <2>2. CASE tab.connected
    <3>1. reads' = Without(i) /\ chan' = chan /\ tab' = tab /\ ~Unless({"unanswered"})'
      BY <1>18, <2>2 DEF ListFails, Unless
    <3>2. LastWordIn(chan)' <=> LastWordIn(chan) BY <2>1, <3>1 DEF LastWordIn
    <3>3. ASSUME Shown PROVE Shown'
      <4>1. LastReads' = LastReads /\ LastFrames' = LastFrames
        BY <2>1, <3>1 DEF Lasts, LastFrames, LastReads, Holds
      <4>2. Without(i) \in Seq(LastReads) BY <3>3, ReadsMove DEF Shown
      <4> QED BY <2>1, <3>1, <3>3, <4>1, <4>2 DEF Shown, Holds
    <3> QED BY <1>t, <2>1, <3>1, <3>2, <3>3 DEF RowSaid
  <2>3. CASE ~tab.connected
    <3>1. ~tab'.open BY <1>0, <1>18, <2>3 DEF ListFails, Closed, TabRec
    <3> QED BY <1>t, <2>1, <3>1
  <2> QED BY <2>2, <2>3
<1>19. CASE HearsSnapshot
  <2> DEFINE f == Head(chan)
  <2>1. row' = row /\ drain' = drain /\ owed' = owed /\ pending' = pending /\ queue' = queue /\ reads' = reads
    BY <1>19 DEF HearsSnapshot
  <2>2. Hears("snapshot") /\ f \in Frames /\ f.type = "snapshot" BY <1>0, <1>19, HearsIs DEF HearsSnapshot
  <2>3. LastWordIn(chan) => LastWordIn(chan)' BY <1>0, <2>1, <2>2, LastWordHeard
  <2>4. ASSUME Shown PROVE Shown'
    <3>1. chan' \in Seq(LastFrames) /\ f \in LastFrames BY <2>2, <2>4, HearsIs DEF Shown
    <3>2. Lasts(f.version) BY <2>2, <3>1 DEF LastFrames
    <3>3. f.version # 0 BY <1>0, <3>2 DEF Lasts
    <3>4. /\ tab'.connected /\ tab'.open = tab.open /\ tab'.live = tab.live /\ ~tab'.gone
          /\ tab'.held = IF tab.live /\ Holds THEN tab.held ELSE f.version
      BY <1>0, <1>19, <2>4, <3>3 DEF HearsSnapshot, Shown, TabRec
    <3>5. tab.open BY <2>2 DEF Hears, SocketIs
    <3>6. tab'.held = row.version /\ Holds'
      BY <1>0, <2>4, <3>2, <3>4, <3>5 DEF Shown, SocketIs, Lasts, Holds
    <3>7. \A v : Lasts(v) => Lasts(v)' BY <2>1, <3>4, <3>6 DEF Lasts
    <3>8. LastFrames \subseteq LastFrames' /\ LastReads \subseteq LastReads'
      BY <3>7 DEF LastFrames, LastReads
    <3>9. \A i \in 1..Len(chan') : chan'[i] \in LastFrames' BY <3>1, <3>8, ElementOfSeq
    <3>10. \A i \in 1..Len(reads) : reads[i] \in LastReads' BY <2>4, <3>8, ElementOfSeq DEF Shown
    <3>11. chan' \in Seq(LastFrames') BY <3>1, <3>9, SeqGrows
    <3>12. reads' \in Seq(LastReads') BY <2>1, <2>4, <3>10, SeqGrows DEF Shown
    <3> QED BY <2>1, <3>4, <3>6, <3>11, <3>12 DEF Shown
  <2> QED BY <1>t, <2>1, <2>3, <2>4, <2>2 DEF RowSaid, Hears, SocketIs
<1>20. CASE HearsSubshell
  <2> DEFINE f == Head(chan)
             heard == [tab EXCEPT !.live = TRUE, !.gone = FALSE]
  <2>1. row' = row /\ drain' = drain /\ owed' = owed /\ pending' = pending /\ queue' = queue
    BY <1>20 DEF HearsSubshell
  <2>2. Hears("subshell") /\ f \in Frames /\ f.type = "subshell" BY <1>0, <1>20, HearsIs DEF HearsSubshell
  <2>3. tab.open BY <2>2 DEF Hears, SocketIs
  <2>4. ASSUME Shown PROVE FALSE
    <3>1. f \in LastFrames BY <2>2, <2>4, HearsIs DEF Shown
    <3> QED BY <2>2, <3>1 DEF LastFrames
  <2>5. ASSUME f.version = row.version, ~Has(chan', {"subshell", "gone"}), MayHave # "none" PROVE Shown'
    <3>c. chan' \in Seq(Frames) /\ \A j \in 1..Len(chan') :
            /\ chan'[j] \in Frames /\ chan'[j].type \in {"snapshot", "recheck"}
            /\ j + 1 \in 2..Len(chan) /\ chan[j + 1] = chan'[j]
      <4>1. chan' \in Seq(Frames) BY <1>0, <2>2, HearsIs
      <4>2. \A j \in 1..Len(chan') : chan'[j] \in Frames /\ chan'[j].type \notin {"subshell", "gone"}
        BY <2>5, <4>1, ElementOfSeq DEF Has
      <4> QED BY <1>0, <2>2, <4>1, <4>2, HeardIs DEF Frames
    <3>x. "crossed" \notin exposed' BY DEF Unless
    <3>r. \A j \in 1..Len(reads) : reads[j] \in Reads BY <1>0, ElementOfSeq
    <3>1. CASE Holds
      <4>1. tab' = [heard EXCEPT !.held = f.version, !.connected = TRUE] /\ reads' = reads
              /\ Crossed(AnswerWithout)
        BY <1>20, <3>1 DEF HearsSubshell
      <4>2. ~AnswerWithout BY <3>x, <4>1 DEF Crossed
      <4>3. tab'.held = row.version /\ tab'.live /\ ~tab'.gone BY <1>0, <2>5, <4>1 DEF TabRec
      <4>4. Holds' BY <1>0, <4>3 DEF Holds
      <4>5. \A v : v # 0 => Lasts(v)' BY <4>3, <4>4 DEF Lasts
      <4>6. \A j \in 1..Len(chan') : chan'[j] \in LastFrames' BY <3>c, <4>2, <4>5 DEF LastFrames, AnswerWithout
      <4>7. \A j \in 1..Len(reads) : reads[j] \in LastReads'
        BY <3>r, <4>2, <4>5 DEF LastReads, AnswerWithout, Reads
      <4>8. chan' \in Seq(LastFrames') BY <3>c, <4>6, SeqGrows
      <4>9. reads' \in Seq(LastReads') BY <1>0, <4>1, <4>7, SeqGrows
      <4> QED BY <2>1, <4>3, <4>4, <4>8, <4>9 DEF Shown
    <3>2. CASE ~Holds
      <4>1. tab' = [heard EXCEPT !.asking = TRUE] /\ Crossed(AnswerUnderway)
              /\ reads' = IF tab.asking THEN reads ELSE Append(reads, NewRead)
        BY <1>0, <1>20, <3>2 DEF HearsSubshell, Asks, TabRec
      <4>2. ~AnswerUnderway BY <3>x, <4>1 DEF Crossed
      <4>3. ~Holds' /\ ~tab'.gone BY <1>0, <3>2, <4>1 DEF Holds, TabRec
      <4>4. \A j \in 1..Len(chan') : chan'[j] \in LastFrames' BY <3>c, <4>2 DEF LastFrames, AnswerUnderway
      <4>5. \A j \in 1..Len(reads) : reads[j] \in LastReads' BY <3>r, <4>2 DEF LastReads, AnswerUnderway
      <4>6. chan' \in Seq(LastFrames') BY <3>c, <4>4, SeqGrows
      <4>7. reads \in Seq(LastReads') BY <1>0, <4>5, SeqGrows
      <4>8. NewRead \in LastReads' BY NewReadIs DEF LastReads, NewRead
      <4>9. reads' \in Seq(LastReads') BY <4>1, <4>7, <4>8
      <4>10. Unless({"unanswered"})' => AnswerComing'
        <5>1. CASE tab.asking
          <6>1. reads' = reads BY <4>1, <5>1
          <6> QED BY <1>0, <1>u, <2>2, <2>3, <5>1, <6>1, ComingHeard DEF QuestionsAnswered
        <5>2. CASE ~tab.asking
          <6>1. reads' = Append(reads, NewRead) BY <4>1, <5>2
          <6> QED BY <1>0, <6>1 DEF AnswerComing
        <5> QED BY <5>1, <5>2
      <4> QED BY <4>3, <4>6, <4>9, <4>10 DEF Shown
    <3> QED BY <3>1, <3>2
  <2>6. LastWordIn(chan) => LastWordIn(chan)' \/ (f.version = row.version /\ ~Has(chan', {"subshell", "gone"}))
    BY <1>0, <2>1, <2>2, LastWordHeard
  <2> QED BY <1>t, <2>1, <2>3, <2>4, <2>5, <2>6 DEF RowSaid
<1>21. CASE HearsGone
  <2>1. row' = row /\ drain' = drain /\ owed' = owed /\ pending' = pending /\ queue' = queue
    BY <1>21 DEF HearsGone
  <2>2. Hears("gone") /\ Head(chan).type = "gone" BY <1>0, <1>21, HearsIs DEF HearsGone
  <2>3. tab.open BY <2>2 DEF Hears, SocketIs
  <2>4. ASSUME Shown PROVE FALSE
    <3>1. Head(chan) \in LastFrames BY <2>2, <2>4, HearsIs DEF Shown
    <3> QED BY <2>2, <3>1 DEF LastFrames
  <2>6. LastWordIn(chan) => LastWordIn(chan)' BY <1>0, <2>1, <2>2, LastWordHeard
  <2> QED BY <1>t, <2>1, <2>3, <2>4, <2>6 DEF RowSaid
<1>22. CASE HearsRecheck
  <2>1. row' = row /\ drain' = drain /\ owed' = owed /\ pending' = pending /\ queue' = queue
    BY <1>22 DEF HearsRecheck
  <2>2. Hears("recheck") /\ Head(chan).type = "recheck" BY <1>0, <1>22, HearsIs DEF HearsRecheck
  <2>3. tab.open BY <2>2 DEF Hears, SocketIs
  <2>4. ASSUME Shown PROVE Shown'
    <3>1. \/ tab' = tab /\ reads' = reads
          \/ /\ tab' = [tab EXCEPT !.asking = TRUE]
             /\ reads' = reads \/ reads' = Append(reads, NewRead)
      BY <1>22 DEF HearsRecheck, Asks
    <3>2. tab'.connected = tab.connected /\ tab'.held = tab.held /\ tab'.live = tab.live /\ tab'.gone = tab.gone
      BY <1>0, <3>1 DEF TabRec
    <3>3. chan' \in Seq(LastFrames') /\ LastReads' = LastReads BY <2>1, <2>2, <2>4, <3>2, ShownKept
    <3>4. NewRead \in LastReads BY NewReadIs DEF LastReads, NewRead
    <3>5. reads' \in Seq(LastReads')
      <4>1. reads \in Seq(LastReads) BY <2>4 DEF Shown
      <4>2. Append(reads, NewRead) \in Seq(LastReads) BY <3>4, <4>1
      <4> QED BY <3>1, <3>3, <4>1, <4>2
    <3>6. reads' = reads \/ reads' # <<>> BY <1>0, <3>1
    <3>7. AnswerComing => AnswerComing' BY <1>0, <2>2, <3>6, ComingHeard
    <3> QED BY <1>u, <2>1, <2>4, <3>2, <3>3, <3>5, <3>7 DEF Shown, Holds
  <2>6. LastWordIn(chan) => LastWordIn(chan)' BY <1>0, <2>1, <2>2, LastWordHeard
  <2> QED BY <1>t, <2>1, <2>3, <2>4, <2>6 DEF RowSaid
<1>23. CASE UNCHANGED vars
  BY <1>k, <1>23 DEF vars
<1> QED BY <1>1, <1>2, <1>3, <1>4, <1>5, <1>6, <1>7, <1>8, <1>9, <1>10, <1>11, <1>12, <1>13,
           <1>14, <1>15, <1>16, <1>17, <1>18, <1>19, <1>20, <1>21, <1>22, <1>23, NextCases

-----------------------------------------------------------------------------
(* The access as it is                                                     *)

\* The access an event says has ended, if any.
EndsOf(e) == IF e.kind = "shares-changed" THEN resolveSubshellAccess(viewer, e.before)
             ELSE IF e.kind = "deleted" THEN resolveSubshellAccess(viewer, e.shares)
             ELSE "none"

\* The event that says that an access of T ended is waiting, or it is resolved
\* and no grant that gives one has been read for it.
EndWaits(T) == \E e \in Waiting : EndsOf(e) \in T

EndResolves(T) ==
  /\ drain.step # "idle" /\ drain.event.kind = "shares-changed"
  /\ EndsOf(drain.event) \in T
  /\ drain.step = "views" => resolveSubshellAccess(viewer, drain.shares) \notin T

\* The tab will be told that the row is gone, or to ask again.
Questioned == Has(chan, {"gone", "recheck"})

All == Access \ {"none"}

EndedFrames(T) == {f \in Frames : f.type = "snapshot" => f.access \notin T}
EndedReads(T) == {r \in Reads : r.access \notin T /\ (T = All => r.step # "shares")}

\* No access of T will be shown for good; nor the row at all, when T is all.
Ended(T) ==
  /\ Holds /\ tab.access \in T => AnswerComing
  /\ \/ tab.gone /\ ~Holds
     \/ chan \in Seq(EndedFrames(T)) /\ reads \in Seq(EndedReads(T))

EndSaid(T) ==
  /\ EndWaits(T) \/ EndResolves(T) \/ ~tab.open \/ Questioned \/ Ended(T)
  /\ drain.step = "views" /\ resolveSubshellAccess(viewer, drain.shares) \in T => EndWaits(T)

\* An access the viewer does not have is not shown, or its end is still to be
\* said.
EndTold(T) ==
  /\ MayHave \notin T
  /\ Unless({"unanswered", "crossed", "overlapped", "merged"})
  /\ row.exists \/ Unless({"overtaken"})
  /\ T = All \/ (row.exists /\ Unless({"torn"}))
  => EndSaid(T)

AccessTold == \A T \in SUBSET All : EndTold(T)

\* The tab of a viewer whose access ended is reached by the end's topics, when
\* the grants read since give it another: told it is gone, or to ask again.
LEMMA EndIsSaid ==
  ASSUME TypeOK, Broadcast, tab.open, drain.event.kind = "shares-changed",
         resolveSubshellAccess(viewer, drain.event.before) # "none",
         resolveSubshellAccess(viewer, drain.shares) # resolveSubshellAccess(viewer, drain.event.before)
  PROVE  Questioned'
<1> DEFINE b == drain.event.before
           s == drain.shares
           R == recipientTopics(b)
           C == recipientTopics(s)
<1>0. drain.step = "views" /\ drain.event \in Events /\ s \in Grants /\ viewer \in Users
  BY DEF TypeOK, Broadcast, Drains
<1>1. b \in Grants BY <1>0, EventIs
<1>2. revokedTopics(drain.event) = R BY DEF revokedTopics
<1>3. viewer # Everyone /\ topicsForViewer = {viewer, Everyone}
  BY <1>0, UsersAssumption DEF Users, topicsForViewer
<1>4. Cardinality(R \cap topicsForViewer) = 1 BY <1>0, <1>1, TopicsReachViewers DEF topicsForViewer
<1>5. R \cap topicsForViewer # {} BY <1>4, FS_EmptySet
<1>6. CASE resolveSubshellAccess(viewer, s) = "none"
  <2>1. Cardinality(C \cap topicsForViewer) = 0 BY <1>0, <1>6, TopicsReachViewers DEF topicsForViewer
  <2>2. IsFiniteSet({viewer}) /\ IsFiniteSet({Everyone}) BY FS_Singleton
  <2>3. IsFiniteSet({viewer} \cup {Everyone}) BY <2>2, FS_Union
  <2>4. IsFiniteSet(C \cap topicsForViewer)
    <3>1. C \cap topicsForViewer \in SUBSET ({viewer} \cup {Everyone}) BY <1>3
    <3> QED BY <2>3, <3>1, FS_Subset
  <2>5. C \cap topicsForViewer = {} BY <2>1, <2>4, FS_EmptySet
  <2>6. viewer \notin C /\ Everyone \notin C BY <1>3, <2>5
  <2>7. CASE viewer \in R
    <3>1. goneTopics(R, C) \cap topicsForViewer # {} BY <1>3, <2>6, <2>7 DEF goneTopics
    <3>2. 1 \in 1..Len(GoneFrames) /\ GoneFrames[1] = [type |-> "gone"]
      BY <1>2, <3>1, SentTo DEF GoneFrames
    <3>3. Has(GoneFrames, {"gone", "recheck"}) BY <3>2 DEF Has
    <3> QED BY <3>3, HasBroadcast DEF Questioned
  <2>8. CASE Everyone \in R
    <3>1. AskTopics \cap topicsForViewer # {} BY <1>2, <1>3, <2>6, <2>8 DEF recheckTopics, AskTopics
    <3>2. 1 \in 1..Len(AskFrames) /\ AskFrames[1] = [type |-> "recheck"] BY <3>1, SentTo DEF AskFrames
    <3>3. Has(AskFrames, {"gone", "recheck"}) BY <3>2 DEF Has
    <3> QED BY <3>3, HasBroadcast DEF Questioned
  <2> QED BY <1>3, <1>5, <2>7, <2>8
<1>7. CASE resolveSubshellAccess(viewer, s) # "none"
  <2>1. \A p \in Grantees \cup {Everyone} : b[p] \in Levels /\ s[p] \in Levels BY <1>0, <1>1 DEF Grants
  <2>2. viewer \in Grantees BY <1>0 DEF resolveSubshellAccess, Users
  <2>3. levelChangedTopics(b, s) \cap topicsForViewer # {}
    <3>1. CASE b[viewer] # "none" \/ s[viewer] # "none"
      <4>1. viewer \in levelChangedTopics(b, s) BY <1>7, <2>2, <3>1 DEF levelChangedTopics
      <4> QED BY <1>3, <4>1
    <3>2. CASE b[viewer] = "none" /\ s[viewer] = "none"
      <4>1. /\ resolveSubshellAccess(viewer, b) = resolveSubshellAccess(Everyone, b)
            /\ resolveSubshellAccess(viewer, s) = resolveSubshellAccess(Everyone, s)
        BY <2>1, <2>2, <3>2, UsersAssumption DEF resolveSubshellAccess, Higher, Levels
      <4>2. Everyone \in levelChangedTopics(b, s) BY <1>7, <4>1 DEF levelChangedTopics
      <4> QED BY <1>3, <4>2
    <3> QED BY <3>1, <3>2
  <2>4. AskTopics \cap topicsForViewer # {} BY <2>3 DEF AskTopics
  <2>5. 1 \in 1..Len(AskFrames) /\ AskFrames[1] = [type |-> "recheck"] BY <2>4, SentTo DEF AskFrames
  <2>6. Has(AskFrames, {"gone", "recheck"}) BY <2>5 DEF Has
  <2> QED BY <2>6, HasBroadcast DEF Questioned
<1> QED BY <1>6, <1>7

\* An event that ends an access is of one of the two kinds that end them.
LEMMA EndIsOf ==
  ASSUME NEW T \in SUBSET All, NEW e, EndsOf(e) \in T
  PROVE  e.kind \in {"shares-changed", "deleted"} /\ e # NoEvent
  BY DEF EndsOf, All, NoEvent

\* A tab that asks again, and has no answer to an earlier question on its way,
\* shows no access that has ended.
LEMMA EndedAsked ==
  ASSUME TypeOK, NEW T \in SUBSET All, ~AnswerUnderway, NEW type, Hears(type), type # "snapshot",
         reads' = reads \/ reads' = Append(reads, NewRead),
         Holds' => AnswerComing'
  PROVE  Ended(T)'
<1>0. chan \in Seq(Frames) /\ reads \in Seq(Reads) BY DEF TypeOK
<1>1. chan' \in Seq(Frames) BY <1>0, HearsIs
<1>2. \A j \in 1..Len(chan') : chan'[j] \in Frames /\ chan'[j].type # "snapshot"
  <2>1. \A j \in 1..Len(chan') : j + 1 \in 2..Len(chan) /\ chan'[j] = chan[j + 1] BY <1>0, HeardIs
  <2>2. \A j \in 2..Len(chan) : chan[j].type # "snapshot" BY DEF AnswerUnderway
  <2>3. \A j \in 1..Len(chan') : chan'[j] \in Frames BY <1>1, ElementOfSeq
  <2> QED BY <2>1, <2>2, <2>3
<1>3. chan' \in Seq(EndedFrames(T))
  <2>1. \A j \in 1..Len(chan') : chan'[j] \in EndedFrames(T) BY <1>2 DEF EndedFrames
  <2> QED BY <1>1, <2>1, SeqGrows
<1>4. \A j \in 1..Len(reads) : reads[j] \in EndedReads(T)
  <2>1. \A j \in 1..Len(reads) : reads[j] \in Reads /\ reads[j].step = "rows"
    BY <1>0, ElementOfSeq DEF AnswerUnderway
  <2>2. \A r \in Reads : r.step = "rows" => r.access = "none" BY DEF Reads
  <2> QED BY <2>1, <2>2 DEF EndedReads, All
<1>5. reads \in Seq(EndedReads(T)) BY <1>0, <1>4, SeqGrows
<1>6. NewRead \in EndedReads(T) BY NewReadIs DEF EndedReads, All, NewRead
<1>7. reads' \in Seq(EndedReads(T)) BY <1>5, <1>6
<1> QED BY <1>3, <1>7 DEF Ended

\* No step leaves an ended access to be shown for good.
LEMMA EndStays ==
  ASSUME TypeOK, SocketIs, QuestionsAnswered, DeletionIs, NEW T \in SUBSET All, EndTold(T), [Next]_vars
  PROVE  EndTold(T)'
<1> SUFFICES ASSUME MayHave' \notin T,
                    Unless({"unanswered", "crossed", "overlapped", "merged"})',
                    row'.exists \/ Unless({"overtaken"})',
                    T = All \/ (row'.exists /\ Unless({"torn"})')
             PROVE  EndSaid(T)'
  BY DEF EndTold
<1> USE DEF mutation, publisher, socket, bounds
<1>0. /\ row \in [exists : BOOLEAN, version : Versions \ {0}, grants : Grants]
      /\ chan \in Seq(Frames) /\ reads \in Seq(Reads) /\ tab \in TabRec
      /\ drain \in Drains /\ viewer \in Users /\ owed \subseteq Events /\ Waiting \subseteq Events
  BY WaitingAre DEF TypeOK, TabRec
<1>g. exposed \subseteq exposed' /\ viewer' = viewer BY ExposedGrows
<1>m. row' = row => MayHave' = MayHave BY <1>g DEF MayHave
<1>n. "none" \notin T BY DEF All
<1>x. \A x \in {"unanswered", "crossed", "overlapped", "merged"} : x \notin exposed' /\ x \notin exposed
  BY <1>g DEF Unless
<1>y. row'.exists \/ "overtaken" \notin exposed' BY DEF Unless
\* What was said of the end before the step.
<1>i. ASSUME MayHave \notin T, row'.exists => row.exists PROVE EndSaid(T)
  <2>1. row.exists \/ Unless({"overtaken"}) BY <1>g, <1>i, <1>0, <1>y DEF Unless
  <2>2. T = All \/ (row.exists /\ Unless({"torn"})) BY <1>g, <1>i DEF Unless
  <2>3. Unless({"unanswered", "crossed", "overlapped", "merged"}) BY <1>g DEF Unless
  <2> QED BY <1>i, <2>1, <2>2, <2>3 DEF EndTold
<1>e. \A e : EndsOf(e)' = EndsOf(e) BY <1>g DEF EndsOf
<1>w. Waiting \subseteq Waiting' /\ EndWaits(T) => EndWaits(T)' BY <1>e DEF EndWaits
<1>q. owed' = owed /\ pending' = pending /\ queue' = queue => Waiting' = Waiting BY DEF Waiting
<1>z. drain' = drain => (EndResolves(T)' <=> EndResolves(T))
  BY <1>e, <1>g DEF EndResolves
\* The tab and what is on its way to it stay as they are.
<1>s. chan' = chan /\ reads' = reads /\ tab' = tab =>
        (Questioned' <=> Questioned) /\ (Ended(T)' <=> Ended(T)) /\ tab'.open = tab.open
  BY DEF Questioned, Ended, Holds, AnswerComing
\* A step that leaves row, publisher and tab alone, but for what is announced.
<1>k. ASSUME MayHave \notin T, row'.exists => row.exists, Waiting \subseteq Waiting', drain' = drain,
             chan' = chan, reads' = reads, tab' = tab
      PROVE  EndSaid(T)'
  BY <1>g, <1>i, <1>w, <1>z, <1>s, <1>k DEF EndSaid
\* A step of the socket or the tab.
<1>t. ASSUME row' = row, owed' = owed, pending' = pending, queue' = queue, drain' = drain,
             EndSaid(T) /\ (~tab.open \/ Questioned \/ Ended(T)) => ~tab'.open \/ Questioned' \/ Ended(T)'
      PROVE  EndSaid(T)'
  <2>1. EndSaid(T) BY <1>i, <1>m, <1>t
  <2>2. Waiting' = Waiting BY <1>q, <1>t
  <2> QED BY <1>g, <1>w, <1>z, <1>t, <2>1, <2>2 DEF EndSaid
\* A step of the publisher that sends frames, none of which is an answer.
<1>p. ASSUME NEW q \in Seq(Frames), chan' = chan \o q, reads' = reads, tab' = tab,
             ~Has(q, {"snapshot"})
      PROVE  /\ Questioned => Questioned'
             /\ Ended(T) => Ended(T)'
  <2>1. Questioned => Questioned' BY <1>0, <1>p, HasMore DEF Questioned
  <2>2. ASSUME Ended(T) PROVE Ended(T)'
    <3>1. AnswerComing => AnswerComing' BY <1>0, <1>p, HasMore DEF AnswerComing
    <3>2. \A j \in 1..Len(q) : q[j] \in EndedFrames(T) BY <1>p, ElementOfSeq DEF EndedFrames, Has
    <3>3. q \in Seq(EndedFrames(T)) BY <1>p, <3>2, SeqGrows
    <3>4. chan \in Seq(EndedFrames(T)) => chan' \in Seq(EndedFrames(T)) BY <1>p, <3>3, ConcatProperties
    <3> QED BY <1>p, <2>2, <3>1, <3>4 DEF Ended, Holds
  <2> QED BY <2>1, <2>2
\* The reads move, and nothing else.
<1>r. ASSUME NEW i \in 1..Len(reads), NEW r \in Reads, Replace(i, r), chan' = chan, tab' = tab,
             reads \in Seq(EndedReads(T)) => r \in EndedReads(T)
      PROVE  Questioned \/ Ended(T) => Questioned' \/ Ended(T)'
  <2>1. Questioned' <=> Questioned BY <1>r DEF Questioned
  <2>2. reads' # <<>> BY <1>0, <1>r, ReadStays
  <2>3. ASSUME Ended(T) PROVE Ended(T)'
    <3>1. reads \in Seq(EndedReads(T)) => reads' \in Seq(EndedReads(T)) BY <1>r, ReadsMove
    <3> QED BY <1>r, <2>2, <2>3, <3>1 DEF Ended, Holds, AnswerComing
  <2> QED BY <2>1, <2>3
<1>1. CASE Change
  <2>1. row'.exists = row.exists /\ row'.grants = row.grants BY <1>0, <1>1 DEF Change
  <2>2. MayHave' = MayHave BY <1>g, <2>1 DEF MayHave
  <2>3. Waiting \subseteq Waiting' BY <1>1 DEF Change, Waiting
  <2> QED BY <1>k, <1>1, <2>1, <2>2, <2>3 DEF Change
<1>2. CASE ReadBefore
  BY <1>q, <1>m, <1>k, <1>2 DEF ReadBefore
<1>3. CASE ReadGrants
  BY <1>q, <1>m, <1>k, <1>3 DEF ReadGrants
<1>4. ASSUME NEW b \in editing, NEW s \in Grants, ReplaceShares(b, s) PROVE EndSaid(T)'
  <2>1. CASE ~row.exists BY <1>q, <1>m, <1>k, <1>4, <2>1 DEF ReplaceShares
  <2>2. CASE row.exists
    <3>1. b = row.grants BY <1>x, <1>4, <2>2 DEF ReplaceShares
    <3>2. Waiting' = Waiting \cup {SharesChanged(b)} /\ drain' = drain /\ chan' = chan /\ reads' = reads /\ tab' = tab
      BY <1>4, <2>2 DEF ReplaceShares, Waiting, SharesChanged, NoEvent
    <3>3. CASE MayHave \notin T BY <1>k, <2>2, <3>2, <3>3
    <3>4. CASE MayHave \in T
      <4>1. EndsOf(SharesChanged(b)) = MayHave BY <2>2, <3>1 DEF EndsOf, SharesChanged, MayHave
      <4>2. EndWaits(T)' BY <1>e, <3>2, <3>4, <4>1 DEF EndWaits
      <4> QED BY <4>2 DEF EndSaid
    <3> QED BY <3>3, <3>4
  <2> QED BY <2>1, <2>2
<1>5. ASSUME NEW s \in deleting, DeleteRow(s) PROVE EndSaid(T)'
  <2>1. CASE ~row.exists BY <1>q, <1>m, <1>k, <1>5, <2>1 DEF DeleteRow
  <2>2. CASE row.exists
    <3>1. s = row.grants BY <1>x, <1>5, <2>2 DEF DeleteRow
    <3>2. Waiting' = Waiting \cup {Deleted(s)} /\ drain' = drain /\ chan' = chan /\ reads' = reads /\ tab' = tab
      BY <1>5, <2>2 DEF DeleteRow, Waiting, Deleted, NoEvent
    <3>3. CASE MayHave \notin T BY <1>k, <2>2, <3>2, <3>3
    <3>4. CASE MayHave \in T
      <4>1. EndsOf(Deleted(s)) = MayHave BY <2>2, <3>1 DEF EndsOf, Deleted, MayHave
      <4>2. EndWaits(T)' BY <1>e, <3>2, <3>4, <4>1 DEF EndWaits
      <4> QED BY <4>2 DEF EndSaid
    <3> QED BY <3>3, <3>4
  <2> QED BY <2>1, <2>2
<1>6. ASSUME NEW e \in owed, publishLive(e) PROVE EndSaid(T)'
  <2>1. /\ Waiting \subseteq Waiting' \cup {pending, e} /\ e \in Waiting /\ Waiting' \subseteq Waiting
        /\ pending' # NoEvent
    BY <1>6, WaitsPublish
  <2>2. row' = row /\ drain' = drain /\ chan' = chan /\ reads' = reads /\ tab' = tab BY <1>6 DEF publishLive
  <2>3. pending' \in Waiting' BY <2>1 DEF Waiting
  <2>4. pending' = IF \/ pending.kind = "deleted"
                      \/ pending.kind = "shares-changed" /\ e.kind # "deleted"
                   THEN pending ELSE e
    BY <1>6 DEF publishLive
  <2>5. ~(pending.kind = "shares-changed" /\ e.kind = "shares-changed")
    <3>1. {"shares-changed", "shares-changed"} = {"shares-changed"} OBVIOUS
    <3> QED BY <1>x, <1>6, <3>1 DEF publishLive
  <2>6. pending \in Waiting \/ pending = NoEvent BY DEF Waiting
  <2>7. pending.kind = "deleted" \/ e.kind = "deleted" => ~row.exists
    BY <2>1, <2>6 DEF DeletionIs, NoEvent
  <2>8. ~(pending.kind = "shares-changed" /\ e.kind = "deleted")
    <3> SUFFICES ASSUME pending.kind = "shares-changed", e.kind = "deleted" PROVE FALSE OBVIOUS
    <3>1. {pending.kind, e.kind} = {"shares-changed", "deleted"} /\ {pending.kind, e.kind} # {"shares-changed"}
      OBVIOUS
    <3>2. "overtaken" \in exposed' BY <1>6, <3>1 DEF publishLive
    <3> QED BY <1>y, <2>2, <2>7, <3>2
  <2>9. ~(pending.kind = "deleted" /\ e.kind = "shares-changed")
    <3> SUFFICES ASSUME pending.kind = "deleted", e.kind = "shares-changed" PROVE FALSE OBVIOUS
    <3>1. {pending.kind, e.kind} = {"shares-changed", "deleted"} /\ {pending.kind, e.kind} # {"shares-changed"}
      OBVIOUS
    <3>2. "overtaken" \in exposed' BY <1>6, <3>1 DEF publishLive
    <3> QED BY <1>y, <2>2, <2>7, <3>2
  <2>10. pending.kind = "deleted" /\ e.kind = "deleted" => e = pending
    BY <2>1, <2>6 DEF DeletionIs, NoEvent
  <2>11. ASSUME NEW x \in Waiting, EndsOf(x) \in T PROVE x \in Waiting'
    <3>1. x.kind \in {"shares-changed", "deleted"} /\ x # NoEvent BY <2>11, EndIsOf
    <3>2. CASE x = pending
      <4>1. pending' = pending BY <2>4, <2>5, <2>8, <2>9, <2>10, <3>1, <3>2
      <4> QED BY <2>3, <3>2, <4>1
    <3>3. CASE x = e
      <4>1. pending' = e BY <2>4, <2>5, <2>8, <2>9, <2>10, <3>1, <3>3
      <4> QED BY <2>3, <3>3, <4>1
    <3> QED BY <2>1, <3>2, <3>3
  <2>12. EndWaits(T) => EndWaits(T)' BY <1>e, <2>11 DEF EndWaits
  <2>13. EndSaid(T) BY <1>i, <1>m, <2>2
  <2> QED BY <1>g, <1>z, <1>s, <2>2, <2>12, <2>13 DEF EndSaid
<1>7. CASE flush
  BY <1>m, <1>k, <1>7, WaitsFlush DEF flush
<1>8. CASE TakeNext
  <2> DEFINE h == Head(queue)
  <2>1. Waiting \subseteq Waiting' \cup {h} /\ h \in Waiting BY <1>8, WaitsTake
  <2>2. row' = row /\ reads' = reads /\ tab' = tab /\ drain = Idle BY <1>8 DEF TakeNext
  <2>3. EndSaid(T) BY <1>i, <1>m, <2>2
  <2>4. drain'.step # "views" /\ drain.step = "idle" BY <1>8 DEF TakeNext, Idle, Resolving
  <2>5. EndWaits(T) => EndWaits(T)' \/ EndsOf(h) \in T BY <1>e, <2>1 DEF EndWaits
  <2>6. h \in Events BY <1>0, <2>1
  <2>7. CASE h.kind = "deleted"
    <3> DEFINE q == Sent(recipientTopics(h.shares), [type |-> "gone"])
    <3>1. q \in Seq(Frames) /\ chan' = chan \o q BY <1>8, <2>7, SentFrames DEF TakeNext
    <3>2. \A j \in 1..Len(q) : q[j] = [type |-> "gone"] BY SentTo
    <3>3. ~Has(q, {"snapshot"}) BY <3>2 DEF Has
    <3>4. ASSUME EndsOf(h) \in T, tab.open PROVE Questioned'
      <4>1. h.shares \in Grants BY <2>6, <2>7, EventIs
      <4>2. resolveSubshellAccess(viewer, h.shares) # "none" BY <1>n, <2>7, <3>4 DEF EndsOf
      <4>3. Cardinality(recipientTopics(h.shares) \cap topicsForViewer) = 1
        BY <1>0, <4>1, <4>2, TopicsReachViewers DEF topicsForViewer
      <4>4. recipientTopics(h.shares) \cap topicsForViewer # {} BY <4>3, FS_EmptySet
      <4>5. 1 \in 1..Len(q) BY <3>4, <4>4, SentTo
      <4>6. Has(q, {"gone", "recheck"}) BY <3>2, <4>5 DEF Has
      <4> HIDE DEF q
      <4> QED BY <1>0, <3>1, <4>6, HasAfter DEF Questioned
    <3> HIDE DEF q
    <3>5. (Questioned => Questioned') /\ (Ended(T) => Ended(T)') BY <1>p, <2>2, <3>1, <3>3
    <3> QED BY <2>2, <2>3, <2>4, <2>5, <3>4, <3>5 DEF EndSaid, EndResolves
  <2>8. CASE h.kind # "deleted"
    <3>1. drain' = Resolving("row", h, 0, NoShares) /\ chan' = chan BY <1>8, <2>8 DEF TakeNext
    <3>2. drain'.step = "row" /\ drain'.event = h BY <3>1 DEF Resolving
    <3>3. EndsOf(h) \in T => EndResolves(T)'
      BY <1>e, <2>8, <3>2, EndIsOf DEF EndResolves
    <3> QED BY <1>s, <2>2, <2>3, <2>4, <2>5, <3>1, <3>3 DEF EndSaid, EndResolves
  <2> QED BY <2>7, <2>8
<1>9. CASE FindRow
  <2>1. row' = row /\ owed' = owed /\ pending' = pending /\ queue' = queue
          /\ chan' = chan /\ reads' = reads /\ tab' = tab /\ drain.step = "row"
    BY <1>9 DEF FindRow
  <2>2. EndSaid(T) BY <1>i, <1>m, <2>1
  <2>3. Waiting' = Waiting BY <1>q, <2>1
  <2>4. drain'.step # "views" /\ (EndResolves(T) => EndResolves(T)')
    <3>1. CASE row.exists
      <4>1. drain' = [drain EXCEPT !.step = "shares", !.version = row.version] BY <1>9, <3>1 DEF FindRow
      <4>2. drain'.step = "shares" /\ drain'.event = drain.event BY <1>0, <2>1, <4>1 DEF Drains
      <4> QED BY <1>e, <4>2 DEF EndResolves
    <3>2. CASE ~row.exists
      <4>1. drain' = Idle /\ (drain.event.kind = "shares-changed" => "overtaken" \in exposed')
        BY <1>9, <3>2 DEF FindRow
      <4>2. drain.event.kind # "shares-changed" BY <1>y, <2>1, <3>2, <4>1
      <4> QED BY <4>1, <4>2 DEF EndResolves, Idle
    <3> QED BY <3>1, <3>2
  <2> QED BY <1>w, <1>s, <2>1, <2>2, <2>3, <2>4 DEF EndSaid
<1>10. CASE ListShares
  <2>1. row' = row /\ owed' = owed /\ pending' = pending /\ queue' = queue
          /\ chan' = chan /\ reads' = reads /\ tab' = tab /\ drain.step = "shares"
    BY <1>10 DEF ListShares
  <2>2. EndSaid(T) BY <1>i, <1>m, <2>1
  <2>3. Waiting' = Waiting BY <1>q, <2>1
  <2>4. drain'.step = "views" /\ drain'.event = drain.event /\ drain'.shares = row.grants
    BY <1>0, <1>10 DEF ListShares, Drains
  <2>5. ASSUME resolveSubshellAccess(viewer, row.grants) \in T PROVE EndWaits(T)'
    <3>1. ~row.exists BY <1>m, <2>1, <2>5 DEF MayHave
    <3>2. row.grants = NoShares BY <3>1 DEF DeletionIs
    <3>3. resolveSubshellAccess(viewer, row.grants) # "none" BY <1>n, <2>5
    <3>4. viewer = Owner BY <3>2, <3>3 DEF resolveSubshellAccess, NoShares, Higher
    <3>5. PICK e \in Waiting : e.kind = "deleted" BY <2>1, <3>1 DEF DeletionIs
    <3>6. EndsOf(e) \in T BY <2>5, <3>4, <3>5 DEF EndsOf, resolveSubshellAccess
    <3> QED BY <1>e, <2>3, <3>5, <3>6 DEF EndWaits
  <2>6. CASE resolveSubshellAccess(viewer, row.grants) \in T BY <2>5, <2>6 DEF EndSaid
  <2>7. CASE resolveSubshellAccess(viewer, row.grants) \notin T
    <3>1. EndResolves(T) => EndResolves(T)' BY <1>e, <1>g, <2>4, <2>7 DEF EndResolves
    <3>2. resolveSubshellAccess(viewer, drain.shares)' \notin T BY <1>g, <2>4, <2>7
    <3> QED BY <1>w, <1>s, <2>1, <2>2, <2>3, <3>1, <3>2 DEF EndSaid
  <2> QED BY <2>6, <2>7
<1>11. CASE Broadcast
  <2>1. row' = row /\ owed' = owed /\ pending' = pending /\ queue' = queue
          /\ reads' = reads /\ tab' = tab /\ drain' = Idle /\ drain.step = "views"
    BY <1>11 DEF Broadcast
  <2>2. EndSaid(T) BY <1>i, <1>m, <2>1
  <2>3. Waiting' = Waiting BY <1>q, <2>1
  <2>4. drain'.step # "views" BY <2>1 DEF Idle
  <2>5. ASSUME EndResolves(T), tab.open PROVE Questioned'
    <3>1. EndsOf(drain.event) = resolveSubshellAccess(viewer, drain.event.before)
      BY <2>5 DEF EndResolves, EndsOf
    <3> QED BY <1>n, <1>11, <2>1, <2>5, <3>1, EndIsSaid DEF EndResolves
  <2>6. Questioned => Questioned' BY <1>11, HasBroadcast DEF Questioned
  <2>7. ASSUME Ended(T) PROVE Ended(T)'
    <3>1. AnswerComing => AnswerComing' BY <1>11, <2>1, HasBroadcast DEF AnswerComing
    <3>2. /\ RowFrames \in Seq(Frames) /\ GoneFrames \in Seq(Frames) /\ AskFrames \in Seq(Frames)
          /\ chan' = chan \o RowFrames \o GoneFrames \o AskFrames
      BY <1>11, BroadcastIs
    <3>3. RowFrames \in Seq(EndedFrames(T))
      <4>1. \A j \in 1..Len(RowFrames) : RowFrames[j] \in Frames BY <3>2, ElementOfSeq
      <4>2. \A j \in 1..Len(RowFrames) : RowFrames[j].type = "subshell" BY SentTo DEF RowFrames
      <4>3. \A j \in 1..Len(RowFrames) : RowFrames[j] \in EndedFrames(T) BY <4>1, <4>2 DEF EndedFrames
      <4> QED BY <3>2, <4>3, SeqGrows
    <3>4. GoneFrames \in Seq(EndedFrames(T))
      <4>1. \A j \in 1..Len(GoneFrames) : GoneFrames[j] \in Frames BY <3>2, ElementOfSeq
      <4>2. \A j \in 1..Len(GoneFrames) : GoneFrames[j].type = "gone" BY SentTo DEF GoneFrames
      <4>3. \A j \in 1..Len(GoneFrames) : GoneFrames[j] \in EndedFrames(T) BY <4>1, <4>2 DEF EndedFrames
      <4> QED BY <3>2, <4>3, SeqGrows
    <3>5. AskFrames \in Seq(EndedFrames(T))
      <4>1. \A j \in 1..Len(AskFrames) : AskFrames[j] \in Frames BY <3>2, ElementOfSeq
      <4>2. \A j \in 1..Len(AskFrames) : AskFrames[j].type = "recheck" BY SentTo DEF AskFrames
      <4>3. \A j \in 1..Len(AskFrames) : AskFrames[j] \in EndedFrames(T) BY <4>1, <4>2 DEF EndedFrames
      <4> QED BY <3>2, <4>3, SeqGrows
    <3>6. ASSUME chan \in Seq(EndedFrames(T)) PROVE chan' \in Seq(EndedFrames(T))
      <4>1. PICK x \in Seq(EndedFrames(T)) : x = chan \o RowFrames BY <3>3, <3>6, ConcatProperties
      <4>2. PICK y \in Seq(EndedFrames(T)) : y = x \o GoneFrames BY <3>4, ConcatProperties
      <4>3. chan' = y \o AskFrames BY <3>2, <4>1, <4>2
      <4> QED BY <3>5, <4>3, ConcatProperties
    <3> QED BY <2>1, <2>7, <3>1, <3>6 DEF Ended, Holds
  <2> QED BY <1>w, <2>1, <2>2, <2>3, <2>4, <2>5, <2>6, <2>7 DEF EndSaid
<1>12. CASE ResolveFails
  <2> DEFINE q == Sent(revokedTopics(drain.event), [type |-> "recheck"])
  <2>1. row' = row /\ owed' = owed /\ pending' = pending /\ queue' = queue
          /\ reads' = reads /\ tab' = tab /\ drain' = Idle /\ drain.step # "idle" /\ chan' = chan \o q
    BY <1>12 DEF ResolveFails
  <2>2. EndSaid(T) BY <1>i, <1>m, <2>1
  <2>3. Waiting' = Waiting BY <1>q, <2>1
  <2>4. drain'.step # "views" BY <2>1 DEF Idle
  <2>5. q \in Seq(Frames) BY SentFrames
  <2>6. \A j \in 1..Len(q) : q[j] = [type |-> "recheck"] BY SentTo
  <2>7. ~Has(q, {"snapshot"}) BY <2>6 DEF Has
  <2>8. ASSUME EndResolves(T), tab.open PROVE Questioned'
    <3> DEFINE b == drain.event.before
    <3>1. drain.event \in Events BY <1>0, <2>1 DEF Drains
    <3>2. b \in Grants /\ revokedTopics(drain.event) = recipientTopics(b)
      BY <2>8, <3>1, EventIs DEF EndResolves, revokedTopics
    <3>3. resolveSubshellAccess(viewer, b) # "none" BY <1>n, <2>8 DEF EndResolves, EndsOf
    <3>4. Cardinality(recipientTopics(b) \cap topicsForViewer) = 1
      BY <1>0, <3>2, <3>3, TopicsReachViewers DEF topicsForViewer
    <3>5. recipientTopics(b) \cap topicsForViewer # {} BY <3>4, FS_EmptySet
    <3>6. 1 \in 1..Len(q) BY <2>8, <3>2, <3>5, SentTo
    <3>7. Has(q, {"gone", "recheck"}) BY <2>6, <3>6 DEF Has
    <3> HIDE DEF q
    <3> QED BY <1>0, <2>1, <2>5, <3>7, HasAfter DEF Questioned
  <2> HIDE DEF q
  <2>9. (Questioned => Questioned') /\ (Ended(T) => Ended(T)') BY <1>p, <2>1, <2>5, <2>7
  <2> QED BY <1>w, <2>1, <2>2, <2>3, <2>4, <2>8, <2>9 DEF EndSaid
<1>13. CASE Connect
  <2>1. row' = row /\ drain' = drain /\ owed' = owed /\ pending' = pending /\ queue' = queue
    BY <1>13 DEF Connect
  <2>2. chan' = <<>> /\ reads' = <<NewRead>> BY <1>13 DEF Connect, SocketIs
  <2>3. NewRead \in EndedReads(T) BY <1>n, NewReadIs DEF EndedReads, NewRead
  <2>4. chan' \in Seq(EndedFrames(T)) /\ reads' \in Seq(EndedReads(T)) BY <2>2, <2>3
  <2>5. reads' # <<>> BY <2>2
  <2>6. Ended(T)' BY <2>4, <2>5 DEF Ended, AnswerComing
  <2> QED BY <1>t, <2>1, <2>6
<1>14. CASE Drop
  <2>1. ~tab'.open BY <1>0, <1>14 DEF Drop, Closed, TabRec
  <2> QED BY <1>t, <1>14, <2>1 DEF Drop
<1>15. ASSUME NEW i \in 1..Len(reads), ListRows(i) PROVE EndSaid(T)'
  <2> DEFINE r == IF MayHave = "none" THEN [reads[i] EXCEPT !.step = "ready"]
                  ELSE [reads[i] EXCEPT !.step = "shares", !.version = row.version]
  <2>1. reads[i] \in Reads /\ reads[i].step = "rows" BY <1>0, <1>15, ReadsMove DEF ListRows
  <2>2. r \in Reads BY <1>0, <2>1 DEF Reads
  <2>3. Replace(i, r) /\ row' = row /\ drain' = drain /\ owed' = owed /\ pending' = pending
          /\ queue' = queue /\ chan' = chan /\ tab' = tab
    BY <1>15 DEF ListRows
  <2>4. MayHave \notin T BY <1>m, <2>3
  <2>5. MayHave \in Access BY <1>0, AccessIs DEF MayHave, Access, Levels
  <2>6. T = All => MayHave = "none" BY <2>4, <2>5 DEF All
  <2>7. r.access = "none" /\ (MayHave = "none" => r.step = "ready") BY <2>1 DEF Reads
  <2>8. r \in EndedReads(T) BY <1>n, <2>2, <2>6, <2>7 DEF EndedReads
  <2> HIDE DEF r
  <2>9. Questioned \/ Ended(T) => Questioned' \/ Ended(T)' BY <1>r, <2>2, <2>3, <2>8
  <2> QED BY <1>t, <2>3, <2>9
<1>16. ASSUME NEW i \in 1..Len(reads), ListAccess(i) PROVE EndSaid(T)'
  <2> DEFINE a == resolveSubshellAccess(viewer, row.grants)
             r == [reads[i] EXCEPT !.step = "ready", !.access = IF a = "none" THEN "view" ELSE a]
  <2>1. reads[i] \in Reads /\ reads[i].step = "shares" BY <1>0, <1>16, ReadsMove DEF ListAccess
  <2>2. a \in Access BY <1>0, AccessIs
  <2>3. r \in Reads BY <2>1, <2>2 DEF Reads, Access, Levels
  <2>4. Replace(i, r) /\ row' = row /\ drain' = drain /\ owed' = owed /\ pending' = pending
          /\ queue' = queue /\ chan' = chan /\ tab' = tab
    BY <1>16 DEF ListAccess
  <2>5. a = "none" => "torn" \in exposed' BY <1>16 DEF ListAccess
  <2>6. r.access = (IF a = "none" THEN "view" ELSE a) /\ r.step = "ready" BY <2>1 DEF Reads
  <2>7. ASSUME reads \in Seq(EndedReads(T)) PROVE r \in EndedReads(T)
    <3>1. reads[i] \in EndedReads(T) BY <2>7, ReadsMove
    <3>2. T # All BY <2>1, <3>1 DEF EndedReads
    <3>3. row.exists /\ a # "none" BY <2>4, <2>5, <3>2 DEF Unless
    <3>4. a \notin T BY <1>m, <2>4, <3>3 DEF MayHave
    <3> QED BY <2>3, <2>6, <3>2, <3>3, <3>4 DEF EndedReads
  <2> HIDE DEF r
  <2>9. Questioned \/ Ended(T) => Questioned' \/ Ended(T)' BY <1>r, <2>3, <2>4, <2>7
  <2> QED BY <1>t, <2>4, <2>9
<1>17. ASSUME NEW i \in 1..Len(reads), SendSnapshot(i) PROVE EndSaid(T)'
  <2> DEFINE f == [type |-> "snapshot", version |-> reads[i].version, access |-> reads[i].access]
  <2>1. row' = row /\ drain' = drain /\ owed' = owed /\ pending' = pending /\ queue' = queue /\ tab' = tab
          /\ chan' = Append(chan, f) /\ reads' = Without(i) /\ reads[i].step = "ready"
    BY <1>17 DEF SendSnapshot
  <2>2. f \in Frames BY <1>0, <2>1, SnapshotIs
  <2>3. f.type = "snapshot" /\ f.access = reads[i].access OBVIOUS
  <2> HIDE DEF f
  <2>4. <<f>> \in Seq(Frames) /\ chan' = chan \o <<f>> BY <1>0, <2>1, <2>2
  <2>5. Questioned => Questioned' BY <1>0, <2>4, HasMore DEF Questioned
  <2>6. AnswerComing' BY <1>0, <1>17, AnswerSent
  <2>7. ASSUME Ended(T) PROVE Ended(T)'
    <3>1. CASE tab.gone /\ ~Holds BY <2>1, <2>6, <3>1 DEF Ended, Holds
    <3>2. CASE chan \in Seq(EndedFrames(T)) /\ reads \in Seq(EndedReads(T))
      <4>1. reads[i] \in EndedReads(T) /\ Without(i) \in Seq(EndedReads(T)) BY <3>2, ReadsMove
      <4>2. f \in EndedFrames(T) BY <2>2, <2>3, <4>1 DEF EndedReads, EndedFrames
      <4>3. chan' \in Seq(EndedFrames(T)) BY <2>1, <3>2, <4>2
      <4> QED BY <2>1, <2>6, <4>1, <4>3 DEF Ended
    <3> QED BY <2>7, <3>1, <3>2 DEF Ended
  <2> QED BY <1>t, <2>1, <2>5, <2>7
<1>18. ASSUME NEW i \in 1..Len(reads), ListFails(i) PROVE EndSaid(T)'
  <2>1. row' = row /\ drain' = drain /\ owed' = owed /\ pending' = pending /\ queue' = queue
    BY <1>18 DEF ListFails
  <2>2. ~tab.connected BY <1>x, <1>18 DEF ListFails
  <2>3. ~tab'.open BY <1>0, <1>18, <2>2 DEF ListFails, Closed, TabRec
  <2> QED BY <1>t, <2>1, <2>3
<1>19. CASE HearsSnapshot
  <2> DEFINE f == Head(chan)
  <2>1. row' = row /\ drain' = drain /\ owed' = owed /\ pending' = pending /\ queue' = queue /\ reads' = reads
    BY <1>19 DEF HearsSnapshot
  <2>2. Hears("snapshot") /\ f \in Frames /\ f.type = "snapshot" BY <1>0, <1>19, HearsIs DEF HearsSnapshot
  <2>3. Questioned => Questioned'
    <3>1. "snapshot" \notin {"gone", "recheck"} OBVIOUS
    <3> QED BY <1>0, <2>2, <3>1, HasHeard DEF Questioned
  <2>4. /\ tab'.gone = tab.gone
        /\ tab'.held = IF f.version = 0 \/ tab.gone THEN 0
                       ELSE IF tab.live /\ Holds THEN tab.held ELSE f.version
        /\ tab'.access = IF f.version # 0 /\ ~tab.gone THEN f.access ELSE "none"
    BY <1>0, <1>19 DEF HearsSnapshot, TabRec
  <2>5. ASSUME Ended(T) PROVE Ended(T)'
    <3>1. CASE tab.gone /\ ~Holds BY <2>4, <3>1 DEF Ended, Holds
    <3>2. CASE chan \in Seq(EndedFrames(T)) /\ reads \in Seq(EndedReads(T))
      <4>1. chan' \in Seq(EndedFrames(T)) /\ f \in EndedFrames(T) BY <2>2, <3>2, HearsIs
      <4>2. tab'.access \notin T BY <1>n, <2>2, <2>4, <4>1 DEF EndedFrames
      <4> QED BY <2>1, <3>2, <4>1, <4>2 DEF Ended
    <3> QED BY <2>5, <3>1, <3>2 DEF Ended
  <2>6. tab.open BY <2>2 DEF Hears, SocketIs
  <2> QED BY <1>t, <2>1, <2>3, <2>5, <2>6
<1>20. CASE HearsSubshell
  <2> DEFINE heard == [tab EXCEPT !.live = TRUE, !.gone = FALSE]
  <2>1. row' = row /\ drain' = drain /\ owed' = owed /\ pending' = pending /\ queue' = queue
    BY <1>20 DEF HearsSubshell
  <2>2. Hears("subshell") BY <1>20 DEF HearsSubshell
  <2>3. Questioned => Questioned'
    <3>1. "subshell" \notin {"gone", "recheck"} OBVIOUS
    <3> QED BY <1>0, <2>2, <3>1, HasHeard DEF Questioned
  <2>4. tab.open BY <2>2 DEF Hears, SocketIs
  <2>5. ASSUME Ended(T) PROVE Ended(T)'
    <3>1. CASE Holds
      <4>1. tab' = [heard EXCEPT !.held = Head(chan).version, !.connected = TRUE] /\ reads' = reads
        BY <1>20, <3>1 DEF HearsSubshell
      <4>2. tab'.access = tab.access BY <1>0, <4>1 DEF TabRec
      <4>3. chan \in Seq(EndedFrames(T)) /\ reads \in Seq(EndedReads(T)) BY <2>5, <3>1 DEF Ended
      <4>4. chan' \in Seq(EndedFrames(T)) BY <2>2, <4>3, HearsIs
      <4>5. AnswerComing => AnswerComing' BY <1>0, <2>2, <4>1, ComingHeard
      <4> QED BY <2>5, <3>1, <4>1, <4>2, <4>3, <4>4, <4>5 DEF Ended
    <3>2. CASE ~Holds
      <4>1. tab' = [heard EXCEPT !.asking = TRUE] /\ Crossed(AnswerUnderway)
              /\ reads' = IF tab.asking THEN reads ELSE Append(reads, NewRead)
        BY <1>0, <1>20, <3>2 DEF HearsSubshell, Asks, TabRec
      <4>2. ~AnswerUnderway BY <1>x, <4>1 DEF Crossed
      <4>3. ~Holds' BY <1>0, <3>2, <4>1 DEF Holds, TabRec
      <4>4. reads' = reads \/ reads' = Append(reads, NewRead) BY <4>1
      <4> QED BY <2>2, <4>2, <4>3, <4>4, EndedAsked
    <3> QED BY <3>1, <3>2
  <2> QED BY <1>t, <2>1, <2>3, <2>4, <2>5
<1>21. CASE HearsGone
  <2>1. row' = row /\ drain' = drain /\ owed' = owed /\ pending' = pending /\ queue' = queue
    BY <1>21 DEF HearsGone
  <2>2. tab'.gone /\ ~Holds' BY <1>0, <1>21 DEF HearsGone, Holds, TabRec
  <2>3. Ended(T)' BY <2>2 DEF Ended
  <2> QED BY <1>t, <2>1, <2>3
<1>22. CASE HearsRecheck
  <2>1. row' = row /\ drain' = drain /\ owed' = owed /\ pending' = pending /\ queue' = queue
    BY <1>22 DEF HearsRecheck
  <2>2. Hears("recheck") /\ Crossed(AnswerUnderway) BY <1>22 DEF HearsRecheck, Asks
  <2>3. ~AnswerUnderway BY <1>x, <2>2 DEF Crossed
  <2>4. tab.open BY <2>2 DEF Hears, SocketIs
  <2>5. reads' = reads \/ reads' = Append(reads, NewRead) BY <1>22 DEF HearsRecheck, Asks
  <2>6. ASSUME Holds' PROVE AnswerComing'
    <3>1. Holds BY <1>0, <1>22, <2>6 DEF HearsRecheck, Asks, Holds, TabRec
    <3>2. reads' = IF tab.asking THEN reads ELSE Append(reads, NewRead) BY <1>22, <3>1 DEF HearsRecheck, Asks
    <3>3. CASE tab.asking
      <4>1. Unless({"unanswered"}) BY <1>x DEF Unless
      <4>2. reads' = reads BY <3>2, <3>3
      <4> QED BY <1>0, <2>2, <2>4, <3>3, <4>1, <4>2, ComingHeard DEF QuestionsAnswered
    <3>4. CASE ~tab.asking
      <4>1. reads' # <<>> BY <1>0, <3>2, <3>4
      <4> QED BY <4>1 DEF AnswerComing
    <3> QED BY <3>3, <3>4
  <2>7. Ended(T)' BY <2>2, <2>3, <2>5, <2>6, EndedAsked
  <2> QED BY <1>t, <2>1, <2>7
<1>23. CASE UNCHANGED vars
  BY <1>q, <1>m, <1>k, <1>23 DEF vars
<1> QED BY <1>1, <1>2, <1>3, <1>4, <1>5, <1>6, <1>7, <1>8, <1>9, <1>10, <1>11, <1>12, <1>13,
           <1>14, <1>15, <1>16, <1>17, <1>18, <1>19, <1>20, <1>21, <1>22, <1>23, NextCases

-----------------------------------------------------------------------------
(* What the tab shows                                                      *)

FeedIs == SocketIs /\ QuestionsAnswered /\ DeletionIs /\ RowTold /\ AccessTold

\* What is said of the feed between two steps holds in every behaviour.
LEMMA FeedHolds == Spec => [](TypeOK /\ FeedIs)
<1>1. Init => FeedIs
  <2> SUFFICES ASSUME Init PROVE FeedIs OBVIOUS
  <2> USE DEF Init
  <2>1. ~tab.open /\ ~tab.connected /\ ~tab.live /\ ~Holds /\ ~tab.asking /\ row.exists /\ drain.step = "idle"
    BY DEF Holds, Idle
  <2>2. Waiting = {} BY DEF Waiting
  <2>3. SocketIs /\ QuestionsAnswered BY <2>1 DEF SocketIs, QuestionsAnswered
  <2>4. DeletionIs BY <2>1, <2>2 DEF DeletionIs
  <2>5. RowTold BY <2>1 DEF RowTold, RowSaid
  <2>6. AccessTold BY <2>1 DEF AccessTold, EndTold, EndSaid
  <2> QED BY <2>3, <2>4, <2>5, <2>6 DEF FeedIs
<1>2. TypeOK /\ FeedIs /\ [Next]_vars => FeedIs'
  <2> SUFFICES ASSUME TypeOK, FeedIs, [Next]_vars PROVE FeedIs' OBVIOUS
  <2>1. SocketIs /\ QuestionsAnswered /\ DeletionIs /\ RowTold /\ AccessTold BY DEF FeedIs
  <2>3. SocketIs' BY <2>1, SocketStays
  <2>4. QuestionsAnswered' BY <2>1, QuestionsStay
  <2>5. DeletionIs' BY <2>1, DeletionStays
  <2>6. RowTold' BY <2>1, RowStays
  <2>7. AccessTold'
    <3>1. ASSUME NEW T \in SUBSET All PROVE EndTold(T)'
      <4>1. EndTold(T) BY <2>1 DEF AccessTold
      <4> QED BY <2>1, <4>1, EndStays
    <3> QED BY <3>1 DEF AccessTold, All, Access, Levels
  <2> QED BY <2>3, <2>4, <2>5, <2>6, <2>7 DEF FeedIs
<1> QED BY <1>1, <1>2, TypeCorrect, PTL DEF Spec

\* Once nothing is left to happen, a row on screen is the row as it is
\* (live-publisher.ts resolves what it read last; the tab merges in order).
THEOREM RowsAreCurrent == Spec => []RowIsCurrent
<1>1. TypeOK /\ FeedIs => RowIsCurrent
  <2> SUFFICES ASSUME TypeOK, FeedIs, Quiet, Holds, MayHave # "none", Unless({"unannounced", "crossed"})
               PROVE  tab.held = row.version
    BY DEF RowIsCurrent
  <2>1. row.exists BY DEF MayHave
  <2>2. ~Unread /\ drain.step = "idle" /\ tab.open /\ tab.connected BY DEF Quiet, Unread, Idle
  <2>3. LastWordIn(chan) \/ Shown BY <2>1, <2>2 DEF FeedIs, RowTold, RowSaid
  <2>4. Len(chan) = 0 BY DEF Quiet
  <2>5. ~LastWordIn(chan) BY <2>4 DEF LastWordIn
  <2> QED BY <2>2, <2>3, <2>5 DEF Shown
<1> QED BY <1>1, FeedHolds, PTL

\* A row the viewer may see is on screen, however it came to be theirs.
THEOREM VisibleRowsShow == Spec => []VisibleRowShows
<1>1. TypeOK /\ FeedIs => VisibleRowShows
  <2> SUFFICES ASSUME TypeOK, FeedIs, Quiet, MayHave # "none", Unless({"unannounced", "unanswered", "crossed"})
               PROVE  Holds
    BY DEF VisibleRowShows
  <2>0. Unless({"unannounced", "crossed"}) /\ Unless({"unanswered"}) BY DEF Unless
  <2>1. row.exists BY DEF MayHave
  <2>2. ~Unread /\ drain.step = "idle" /\ tab.open /\ tab.connected BY DEF Quiet, Unread, Idle
  <2>3. LastWordIn(chan) \/ Shown BY <2>0, <2>1, <2>2 DEF FeedIs, RowTold, RowSaid
  <2>4. Len(chan) = 0 BY DEF Quiet
  <2>5. ~LastWordIn(chan) /\ ~AnswerComing BY <2>4 DEF LastWordIn, AnswerComing, Has, Quiet
  <2> QED BY <2>0, <2>3, <2>5 DEF Shown
<1> QED BY <1>1, FeedHolds, PTL

\* Nothing on its way and nothing announced: what has ended is not shown.
LEMMA QuietEnds ==
  ASSUME TypeOK, FeedIs, Quiet, NEW T \in SUBSET All, MayHave \notin T,
         Unless({"unanswered", "crossed", "overlapped", "merged"}),
         row.exists \/ Unless({"overtaken"}), T = All \/ (row.exists /\ Unless({"torn"}))
  PROVE  Holds => tab.access \notin T
<1>1. EndSaid(T) BY DEF FeedIs, AccessTold, EndTold
<1>2. Waiting = {} BY DEF Quiet, Waiting
<1>3. drain.step = "idle" /\ tab.open BY DEF Quiet, Idle
<1>4. Len(chan) = 0 /\ reads = <<>> BY DEF Quiet
<1>5. ~Questioned /\ ~AnswerComing BY <1>4 DEF Questioned, AnswerComing, Has
<1>6. ~EndWaits(T) /\ ~EndResolves(T) BY <1>2, <1>3 DEF EndWaits, EndResolves
<1> QED BY <1>1, <1>3, <1>5, <1>6 DEF EndSaid, Ended

\* A row that was deleted, or that the viewer may no longer see, leaves the
\* screen, though the broadcast that follows the write no longer reaches them.
THEOREM LostRowsLeave == Spec => []LostRowLeaves
<1>1. TypeOK /\ FeedIs => LostRowLeaves
  <2> SUFFICES ASSUME TypeOK, FeedIs, Quiet, MayHave = "none", Holds,
                      Unless({"unanswered", "crossed", "overtaken", "overlapped", "merged"})
               PROVE  FALSE
    BY DEF LostRowLeaves
  <2>1. Unless({"unanswered", "crossed", "overlapped", "merged"}) /\ Unless({"overtaken"}) BY DEF Unless
  <2>2. All \in SUBSET All /\ MayHave \notin All BY DEF All
  <2>3. tab.access \notin All BY <2>1, <2>2, QuietEnds
  <2>4. tab.access \in All BY DEF FeedIs, SocketIs, TypeOK, All
  <2> QED BY <2>3, <2>4
<1> QED BY <1>1, FeedHolds, PTL

\* The affordances are those of the viewer's own access, though no broadcast
\* carries it.
THEOREM AccessesAreCurrent == Spec => []AccessIsCurrent
<1>1. TypeOK /\ FeedIs => AccessIsCurrent
  <2> SUFFICES ASSUME TypeOK, FeedIs, Quiet, Holds, MayHave # "none", tab.access # MayHave,
                      Unless({"unanswered", "crossed", "torn", "overlapped", "merged"})
               PROVE  FALSE
    BY DEF AccessIsCurrent
  <2>1. Unless({"unanswered", "crossed", "overlapped", "merged"}) /\ Unless({"torn"}) BY DEF Unless
  <2>2. row.exists BY DEF MayHave
  <2>3. tab.access \in All BY DEF FeedIs, SocketIs, TypeOK, All
  <2>4. PICK T \in SUBSET All : T = {tab.access} BY <2>3
  <2> QED BY <2>1, <2>2, <2>4, QuietEnds
<1> QED BY <1>1, FeedHolds, PTL
=============================================================================
