------------------------------ MODULE LiveFeed ------------------------------
(***************************************************************************)
(* The dashboard's live feed about one subshell, as one browser tab sees   *)
(* it.  A mutation writes the row or its grants and then names the change  *)
(* on the bus (app/live-bus.ts); the publisher (api/ws/live-publisher.ts)  *)
(* collects changes for a window, resolves them one at a time through      *)
(* awaited reads and broadcasts to topics (api/ws/live-topics.ts); a       *)
(* socket (api/ws/live-ws.ts) starts with a snapshot read for its viewer,  *)
(* and the tab (use-live-subshells-feed.tsx) merges the two.               *)
(*                                                                         *)
(* A broadcast carries the row and nobody's access; a snapshot carries the *)
(* viewer's.  What the tab shows is right when nothing is left to happen.  *)
(***************************************************************************)
EXTENDS Naturals, Sequences, FiniteSets

CONSTANTS
  Owner,        \* the row's owner
  Grantees,     \* the other users
  Everyone,     \* the grant to all of them
  MaxActs,      \* grant edits and deletes in flight together; bounds the run
  MaxEvents     \* writes, drops of the socket and failed reads together; bounds the run

ASSUME UsersAssumption  == Owner \notin Grantees /\ Everyone \notin Grantees \cup {Owner}
ASSUME BoundsAssumption == MaxActs \in Nat /\ MaxEvents \in Nat

Users == Grantees \cup {Owner}
Levels == {"none", "view", "edit"}
Grants == [Grantees \cup {Everyone} -> Levels]
Access == Levels \cup {"owner"}
Versions == 0..(MaxEvents + 1)

VARIABLES
  viewer,    \* whose tab it is
  row,       \* whether the row exists, how often it was written, and its grants
  editing,   \* what each setShares in flight read as the grants before it
  deleting,  \* what each delete in flight read as the grants
  owed,      \* events whose write is done and whose publishLive is not
  pending,   \* the window's event for the row, or NoEvent
  queue,     \* the windows waiting on the draining chain
  drain,     \* the event being resolved, and what its reads established
  chan,      \* frames on their way to the tab
  reads,     \* the visible-set reads in flight for the socket
  tab,       \* what the tab holds and remembers
  faults,    \* drops of its socket and reads that failed
  saw,       \* history: the viewer could see the row at some time
  exposed    \* history: the meetings the code does not keep apart that took place

mutation == <<row, editing, deleting, owed, saw>>
publisher == <<pending, queue, drain>>
socket == <<chan, reads, tab>>
bounds == <<faults, viewer>>
vars == <<mutation, publisher, socket, bounds, exposed>>

NoEvent == [kind |-> "none"]
NoShares == [g \in Grantees \cup {Everyone} |-> "none"]
Changed == [kind |-> "changed"]
SharesChanged(before) == [kind |-> "shares-changed", before |-> before]
Deleted(shares) == [kind |-> "deleted", shares |-> shares]
Events == {Changed} \cup {SharesChanged(b) : b \in Grants} \cup {Deleted(b) : b \in Grants}

\* Version 0 is a row that is not there: what a snapshot without it carries.
Frames ==
  [type : {"subshell"}, version : Versions] \cup [type : {"gone", "recheck"}]
    \cup [type : {"snapshot"}, version : {0}, access : {"none"}]
    \cup [type : {"snapshot"}, version : Versions \ {0}, access : Access \ {"none"}]

Reads ==
  [step : {"rows", "ready"}, version : {0}, access : {"none"}]
    \cup [step : {"shares"}, version : Versions \ {0}, access : {"none"}]
    \cup [step : {"ready"}, version : Versions \ {0}, access : Access \ {"none"}]

Drains == [step : {"idle"}] \cup
          [step : {"row", "shares", "views"}, event : Events, version : Versions, shares : Grants]

Meetings == {"unannounced", "unanswered", "crossed", "torn", "overtaken", "overlapped", "merged"}

TypeOK ==
  /\ viewer \in Users
  /\ row \in [exists : BOOLEAN, version : Versions \ {0}, grants : Grants]
  /\ row.version + faults <= MaxEvents + 1
  /\ editing \subseteq Grants /\ deleting \subseteq Grants
  /\ owed \subseteq Events
  /\ pending \in Events \cup {NoEvent}
  /\ queue \in Seq(Events)
  /\ drain \in Drains
  /\ chan \in Seq(Frames)
  /\ reads \in Seq(Reads)
  /\ tab \in [open : BOOLEAN, connected : BOOLEAN, held : Versions, access : Access,
              live : BOOLEAN, gone : BOOLEAN, asking : BOOLEAN]
  /\ faults \in Nat
  /\ saw \in BOOLEAN
  /\ exposed \subseteq Meetings

-----------------------------------------------------------------------------
(* Who may see the row, and which topics reach whom                        *)

Higher(a, b) == IF "edit" \in {a, b} THEN "edit" ELSE IF "view" \in {a, b} THEN "view" ELSE "none"

\* The highest of the Everyone grant and the one that names the user.
resolveSubshellAccess(u, shares) ==
  IF u = Owner THEN "owner"
  ELSE IF u \in Grantees THEN Higher(shares[u], shares[Everyone])
  ELSE shares[Everyone]

MayHave == IF row.exists THEN resolveSubshellAccess(viewer, row.grants) ELSE "none"

topicsForViewer == {viewer, Everyone}

\* A user's topic is the user; Everyone carries all of them, so it goes alone.
recipientTopics(shares) ==
  IF shares[Everyone] # "none" THEN {Everyone}
  ELSE {Owner} \cup {g \in Grantees : shares[g] # "none"}

\* Topics whose every subscriber has lost the row, and Everyone, of which some may have.
goneTopics(revoked, current) ==
  IF Everyone \in current THEN {} ELSE revoked \ (current \cup {Everyone})

recheckTopics(revoked, current) == (revoked \ current) \cap {Everyone}

\* A slip: only the grants that name somebody are compared.
levelChangedNamed(before, after) ==
  {g \in Grantees : LET b == before[g]
                        a == after[g]
                    IN b # "none" /\ a # "none" /\ a # b}

\* Those who keep the row at another level; Everyone stands for a stranger.
levelChangedTopics(before, after) ==
  {p \in Grantees \cup {Everyone} :
     LET b == resolveSubshellAccess(p, before)
         a == resolveSubshellAccess(p, after)
     IN /\ p = Everyone \/ before[p] # "none" \/ after[p] # "none"
        /\ b # "none" /\ a # "none" /\ a # b}

Repeat(frame, n) == [i \in 1..n |-> frame]

\* A topic's frame reaches the tab once for every topic its socket joined.
Sent(topics, frame) ==
  IF tab.open THEN Repeat(frame, Cardinality(topics \cap topicsForViewer)) ELSE <<>>

-----------------------------------------------------------------------------
(* Mutations                                                               *)

Eventful == row.version + faults <= MaxEvents
Fault == Eventful /\ faults' = faults + 1
ActsBegin == Cardinality(editing) + Cardinality(deleting) < MaxActs

\* Any act that changes the row and not its grants.
Change ==
  /\ row.exists /\ Eventful
  /\ row' = [row EXCEPT !.version = @ + 1]
  /\ owed' = owed \cup {Changed}
  /\ UNCHANGED <<editing, deleting, saw, publisher, socket, bounds, exposed>>

\* setShares reads the grants as they are, checks the new ones, and replaces them.
ReadBefore ==
  /\ row.exists /\ Eventful /\ ActsBegin
  /\ editing' = editing \cup {row.grants}
  /\ UNCHANGED <<row, deleting, owed, saw, publisher, socket, bounds, exposed>>

\* The replacement of a deleted row's grants throws.
ReplaceShares(before, shares) ==
  /\ before \in editing
  /\ editing' = editing \ {before}
  /\ \/ ~row.exists /\ UNCHANGED <<row, owed, saw, exposed>>
     \/ /\ row.exists /\ Eventful
        /\ row' = [row EXCEPT !.version = @ + 1, !.grants = shares]
        /\ owed' = owed \cup {SharesChanged(before)}
        /\ saw' = (saw \/ resolveSubshellAccess(viewer, shares) # "none")
        /\ exposed' = exposed \cup IF before # row.grants THEN {"overlapped"} ELSE {}
  /\ UNCHANGED <<deleting, publisher, socket, bounds>>

\* A delete reads the grants, ends the pane, and removes row and grants together.
ReadGrants ==
  /\ row.exists /\ ActsBegin
  /\ deleting' = deleting \cup {row.grants}
  /\ UNCHANGED <<row, editing, owed, saw, publisher, socket, bounds, exposed>>

DeleteRow(shares) ==
  /\ shares \in deleting
  /\ deleting' = deleting \ {shares}
  /\ IF row.exists
     THEN /\ row' = [row EXCEPT !.exists = FALSE, !.grants = NoShares]
          /\ owed' = owed \cup {Deleted(shares)}
          /\ exposed' = exposed \cup IF shares # row.grants THEN {"overlapped"} ELSE {}
     ELSE UNCHANGED <<row, owed, exposed>>
  /\ UNCHANGED <<editing, saw, publisher, socket, bounds>>

-----------------------------------------------------------------------------
(* The publisher                                                           *)

\* A slip: the window keeps the last event, whatever it was.
publishLiveLast(event) ==
  /\ event \in owed
  /\ owed' = owed \ {event}
  /\ pending' = IF pending.kind = "deleted" THEN pending ELSE event
  /\ UNCHANGED <<row, editing, deleting, saw, queue, drain, socket, bounds, exposed>>

\* deleted > shares-changed > changed, and the first shares-change wins.
publishLive(event) ==
  /\ event \in owed
  /\ owed' = owed \ {event}
  /\ pending' = IF \/ pending.kind = "deleted"
                   \/ pending.kind = "shares-changed" /\ event.kind # "deleted"
                THEN pending ELSE event
  /\ exposed' = exposed \cup
       CASE {pending.kind, event.kind} = {"shares-changed"} -> {"merged"}
         [] {pending.kind, event.kind} = {"shares-changed", "deleted"} -> {"overtaken"}
         [] OTHER -> {}
  /\ UNCHANGED <<row, editing, deleting, saw, queue, drain, socket, bounds>>

\* The window closes, whatever the draining chain is at.
flush ==
  /\ pending # NoEvent
  /\ queue' = Append(queue, pending)
  /\ pending' = NoEvent
  /\ UNCHANGED <<mutation, drain, socket, bounds, exposed>>

Idle == [step |-> "idle"]
Resolving(step, event, version, shares) ==
  [step |-> step, event |-> event, version |-> version, shares |-> shares]

revokedTopics(event) ==
  IF event.kind = "shares-changed" THEN recipientTopics(event.before) ELSE {}

\* A deletion needs no read: it goes to those its event names.
TakeNext ==
  /\ drain = Idle
  /\ queue # <<>>
  /\ queue' = Tail(queue)
  /\ LET event == Head(queue)
     IN IF event.kind = "deleted"
        THEN /\ chan' = chan \o Sent(recipientTopics(event.shares), [type |-> "gone"])
             /\ UNCHANGED drain
        ELSE /\ drain' = Resolving("row", event, 0, NoShares)
             /\ UNCHANGED chan
  /\ UNCHANGED <<mutation, pending, reads, tab, bounds, exposed>>

\* A row that is missing raced a delete, whose own event speaks for it.
FindRow ==
  /\ drain.step = "row"
  /\ IF row.exists
     THEN /\ drain' = [drain EXCEPT !.step = "shares", !.version = row.version]
          /\ UNCHANGED exposed
     ELSE /\ drain' = Idle
          /\ exposed' = exposed \cup
               IF drain.event.kind = "shares-changed" THEN {"overtaken"} ELSE {}
  /\ UNCHANGED <<mutation, pending, queue, socket, bounds>>

ListShares ==
  /\ drain.step = "shares"
  /\ drain' = [drain EXCEPT !.step = "views", !.shares = row.grants]
  /\ UNCHANGED <<mutation, pending, queue, socket, bounds, exposed>>

\* The row to its audience, then "gone" to topics that certainly lost it, then
\* the question to those that may have and to those at another level.
Broadcast ==
  /\ drain.step = "views"
  /\ LET current == recipientTopics(drain.shares)
         revoked == revokedTopics(drain.event)
         levels == IF drain.event.kind = "shares-changed"
                   THEN levelChangedTopics(drain.event.before, drain.shares) ELSE {}
     IN chan' = chan
          \o Sent(current, [type |-> "subshell", version |-> drain.version])
          \o Sent(goneTopics(revoked, current), [type |-> "gone"])
          \o Sent(recheckTopics(revoked, current) \cup levels, [type |-> "recheck"])
  /\ drain' = Idle
  /\ UNCHANGED <<mutation, pending, queue, reads, tab, bounds, exposed>>

\* A read that fails says nothing of the row, and asks everybody who had it.
ResolveFails ==
  /\ drain.step # "idle"
  /\ Fault
  /\ chan' = chan \o Sent(revokedTopics(drain.event), [type |-> "recheck"])
  /\ drain' = Idle
  /\ exposed' = exposed \cup {"unannounced"}
  /\ UNCHANGED <<mutation, pending, queue, reads, tab, viewer>>

-----------------------------------------------------------------------------
(* The socket                                                              *)

NewRead == [step |-> "rows", version |-> 0, access |-> "none"]

\* The topics are joined before the list is read; the tab starts afresh but for
\* the rows its cache holds.
Connect ==
  /\ ~tab.open
  /\ tab' = [tab EXCEPT !.open = TRUE, !.live = FALSE, !.gone = FALSE, !.asking = FALSE]
  /\ reads' = <<NewRead>>
  /\ UNCHANGED <<mutation, publisher, chan, bounds, exposed>>

Replace(i, r) == reads' = [reads EXCEPT ![i] = r]
Without(i) == SubSeq(reads, 1, i - 1) \o SubSeq(reads, i + 1, Len(reads))

\* A slip: every row is listed, whoever may see it.
ListRowsAny(i) ==
  /\ i \in 1..Len(reads) /\ reads[i].step = "rows"
  /\ Replace(i, IF row.exists
                THEN [reads[i] EXCEPT !.step = "shares", !.version = row.version]
                ELSE [reads[i] EXCEPT !.step = "ready"])
  /\ UNCHANGED <<mutation, publisher, chan, tab, bounds, exposed>>

\* listVisibleTo.
ListRows(i) ==
  /\ i \in 1..Len(reads) /\ reads[i].step = "rows"
  /\ Replace(i, IF MayHave = "none"
                THEN [reads[i] EXCEPT !.step = "ready"]
                ELSE [reads[i] EXCEPT !.step = "shares", !.version = row.version])
  /\ UNCHANGED <<mutation, publisher, chan, tab, bounds, exposed>>

\* The grants are read next; a row whose grants ended meanwhile is shown to view.
ListAccess(i) ==
  /\ i \in 1..Len(reads) /\ reads[i].step = "shares"
  /\ LET a == resolveSubshellAccess(viewer, row.grants)
     IN /\ Replace(i, [reads[i] EXCEPT !.step = "ready", !.access = IF a = "none" THEN "view" ELSE a])
        /\ exposed' = exposed \cup IF a = "none" THEN {"torn"} ELSE {}
  /\ UNCHANGED <<mutation, publisher, chan, tab, bounds>>

SendSnapshot(i) ==
  /\ i \in 1..Len(reads) /\ reads[i].step = "ready"
  /\ chan' = Append(chan, [type |-> "snapshot", version |-> reads[i].version,
                           access |-> reads[i].access])
  /\ reads' = Without(i)
  /\ UNCHANGED <<mutation, publisher, tab, bounds, exposed>>

Closed == /\ tab' = [tab EXCEPT !.open = FALSE, !.connected = FALSE]
          /\ chan' = <<>>
          /\ reads' = <<>>

\* The first snapshot's failure closes the socket; a later one's is only logged.
ListFails(i) ==
  /\ i \in 1..Len(reads)
  /\ Fault
  /\ IF tab.connected
     THEN /\ reads' = Without(i)
          /\ exposed' = exposed \cup {"unanswered"}
          /\ UNCHANGED <<chan, tab>>
     ELSE Closed /\ UNCHANGED exposed
  /\ UNCHANGED <<mutation, publisher, viewer>>

Drop ==
  /\ tab.open
  /\ Fault
  /\ Closed
  /\ UNCHANGED <<mutation, publisher, viewer, exposed>>

-----------------------------------------------------------------------------
(* The tab                                                                 *)

Holds == tab.held # 0

\* A snapshot on its way that was read before now.
AnswerUnderway ==
  \/ \E i \in 2..Len(chan) : chan[i].type = "snapshot"
  \/ \E i \in 1..Len(reads) : reads[i].step # "rows"

\* And one that does not carry the row.
AnswerWithout ==
  \/ \E i \in 2..Len(chan) : chan[i].type = "snapshot" /\ chan[i].version = 0
  \/ \E i \in 1..Len(reads) : reads[i].step = "ready" /\ reads[i].version = 0

Crossed(met) == exposed' = exposed \cup IF met THEN {"crossed"} ELSE {}

\* One resync in flight at a time; `heard` is the tab but for the question.
Asks(heard) ==
  /\ tab' = [heard EXCEPT !.asking = TRUE]
  /\ reads' = IF tab.asking THEN reads ELSE Append(reads, NewRead)
  /\ Crossed(AnswerUnderway)

Hears(type) == chan # <<>> /\ Head(chan).type = type /\ chan' = Tail(chan)

\* A slip: the snapshot is the list.
HearsSnapshotWhole ==
  /\ Hears("snapshot")
  /\ LET f == Head(chan)
     IN tab' = [tab EXCEPT !.connected = TRUE, !.asking = FALSE,
                           !.held = f.version, !.access = f.access]
  /\ UNCHANGED <<mutation, publisher, reads, bounds, exposed>>

\* A row told gone stays gone; one an event spoke of keeps the event's version;
\* the access is the snapshot's.
HearsSnapshot ==
  /\ Hears("snapshot")
  /\ LET f == Head(chan)
         shown == f.version # 0 /\ ~tab.gone
     IN tab' = [tab EXCEPT !.connected = TRUE, !.asking = FALSE,
          !.held = IF ~shown THEN 0 ELSE IF tab.live /\ Holds THEN tab.held ELSE f.version,
          !.access = IF shown THEN f.access ELSE "none"]
  /\ UNCHANGED <<mutation, publisher, reads, bounds, exposed>>

\* A slip: a row never seen is left to the next snapshot.
HearsSubshellHeldOnly ==
  /\ Hears("subshell")
  /\ LET heard == [tab EXCEPT !.live = TRUE, !.gone = FALSE]
     IN IF Holds
        THEN /\ tab' = [heard EXCEPT !.held = Head(chan).version, !.connected = TRUE]
             /\ Crossed(AnswerWithout)
        ELSE tab' = heard /\ UNCHANGED exposed
  /\ UNCHANGED <<mutation, publisher, reads, bounds>>

\* A row never seen has no access to show it with: the list is asked for again.
HearsSubshell ==
  /\ Hears("subshell")
  /\ LET heard == [tab EXCEPT !.live = TRUE, !.gone = FALSE]
     IN IF Holds
        THEN /\ tab' = [heard EXCEPT !.held = Head(chan).version, !.connected = TRUE]
             /\ Crossed(AnswerWithout)
             /\ UNCHANGED reads
        ELSE Asks(heard)
  /\ UNCHANGED <<mutation, publisher, bounds>>

HearsGone ==
  /\ Hears("gone")
  /\ tab' = [tab EXCEPT !.live = TRUE, !.gone = TRUE, !.held = 0, !.access = "none",
                        !.connected = tab.connected \/ Holds]
  /\ UNCHANGED <<mutation, publisher, reads, bounds, exposed>>

\* The question is dropped when the tab holds no such row.
HearsRecheck ==
  /\ Hears("recheck")
  /\ IF Holds
     THEN Asks(tab)
     ELSE Crossed(AnswerUnderway) /\ UNCHANGED <<tab, reads>>
  /\ UNCHANGED <<mutation, publisher, bounds>>

-----------------------------------------------------------------------------
Init ==
  /\ viewer \in Users
  /\ \E g \in Grants : row = [exists |-> TRUE, version |-> 1, grants |-> g]
  /\ editing = {} /\ deleting = {} /\ owed = {}
  /\ pending = NoEvent /\ queue = <<>> /\ drain = Idle
  /\ chan = <<>> /\ reads = <<>>
  /\ tab = [open |-> FALSE, connected |-> FALSE, held |-> 0, access |-> "none",
            live |-> FALSE, gone |-> FALSE, asking |-> FALSE]
  /\ faults = 0
  /\ saw = (resolveSubshellAccess(viewer, row.grants) # "none")
  /\ exposed = {}

Mutate ==
  \/ Change \/ ReadBefore \/ ReadGrants
  \/ \E b \in editing, s \in Grants : ReplaceShares(b, s)
  \/ \E s \in deleting : DeleteRow(s)

Publish ==
  \/ \E e \in owed : publishLive(e)
  \/ flush \/ TakeNext \/ FindRow \/ ListShares \/ Broadcast \/ ResolveFails

Serve ==
  \/ Connect \/ Drop
  \/ \E i \in 1..Len(reads) : ListRows(i) \/ ListAccess(i) \/ SendSnapshot(i) \/ ListFails(i)

Listen == HearsSnapshot \/ HearsSubshell \/ HearsGone \/ HearsRecheck

Next == Mutate \/ Publish \/ Serve \/ Listen

Spec == Init /\ [][Next]_vars

-----------------------------------------------------------------------------
(* What the tab shows                                                      *)

\* Every write is announced, resolved and heard, and no answer is on its way.
Quiet ==
  /\ owed = {} /\ pending = NoEvent /\ queue = <<>> /\ drain = Idle
  /\ chan = <<>> /\ reads = <<>>
  /\ tab.open /\ tab.connected

Unless(meetings) == exposed \cap meetings = {}

\* A row on screen is the row as it is: no later broadcast was overtaken by an
\* earlier one, and no snapshot brought an older copy back.
RowIsCurrent ==
  Quiet /\ Holds /\ MayHave # "none" /\ Unless({"unannounced", "crossed"})
    => tab.held = row.version

\* A row the viewer may see is on screen, however it came to be theirs.
VisibleRowShows ==
  Quiet /\ MayHave # "none" /\ Unless({"unannounced", "unanswered", "crossed"}) => Holds

\* A row that was deleted, or that the viewer may no longer see, leaves the
\* screen, though the broadcast that follows the write no longer reaches them.
LostRowLeaves ==
  Quiet /\ MayHave = "none"
    /\ Unless({"unanswered", "crossed", "overtaken", "overlapped", "merged"}) => ~Holds

\* The affordances are those of the viewer's own access, though no broadcast
\* carries it.
AccessIsCurrent ==
  Quiet /\ Holds /\ MayHave # "none"
    /\ Unless({"unanswered", "crossed", "torn", "overlapped", "merged"}) => tab.access = MayHave

\* No copy of the row is ever on its way to, or held by, somebody who never had
\* access to it.
NeverSharedNeverSeen ==
  ~saw => /\ ~Holds
          /\ \A i \in 1..Len(chan) :
               /\ chan[i].type # "subshell"
               /\ chan[i].type = "snapshot" => chan[i].version = 0
=============================================================================
