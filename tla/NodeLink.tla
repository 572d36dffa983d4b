------------------------------ MODULE NodeLink ------------------------------
(***************************************************************************)
(* The control plane's end of /ws/node for one node: the upgrade gate, the *)
(* socket handler of node-ws-handler.ts, the encrypted-link phases of      *)
(* link-session.ts, the forced evictions of the rotate and disable routes, *)
(* and the `status` column of the node's row that all of them project.     *)
(*                                                                         *)
(* Every handler is an async function on one event loop.  Its run between  *)
(* two awaits is one action; what an await leaves pending is task[s] (the  *)
(* frame of socket s being handled, frames being serialized per socket),   *)
(* asking[s] (the open handler's re-ask), rotating and sweeping (the two   *)
(* routes).  A database write takes effect where it is issued, except      *)
(* applyReady, whose landing is an action of its own because the handler   *)
(* itself reckons with it landing after a later eviction.                  *)
(***************************************************************************)
EXTENDS NodeRegistry, Naturals, Sequences

CONSTANTS
    Builds,         \* the daemon builds that dial in, a subset of AllBuilds
    MaxRotations,   \* bound: node-key rotations
    MaxInbox        \* bound: frames that arrived and wait on one socket

(***************************************************************************)
(* What tells two daemons apart at the gates.  "otherKey" holds an         *)
(* encryption key that is not the pinned one.  The two plain builds        *)
(* predate the encrypted link; "plainCurrent" is the one whose ready would *)
(* otherwise pass both gates.                                              *)
(***************************************************************************)
AllBuilds == {"current", "otherKey", "otherProtocol", "belowFloor",
              "plainOld", "plainCurrent"}

ASSUME BuildsAssumption == Builds \subseteq AllBuilds
ASSUME BoundsAssumption == MaxRotations \in Nat /\ MaxInbox \in Nat

PlainBuild(b) == b \in {"plainOld", "plainCurrent"}
VersionSupported(b) == b # "belowFloor"
ProtocolMatches(b) == b \notin {"otherProtocol", "plainOld"}

Frames == {"register", "kx", "binding", "ready", "heartbeat"}

VARIABLES
    row,        \* nodes.status
    pinned,     \* nodes.encryptPublicKey is not null
    keyGen,     \* which generation of node key nodes.apiKeyId binds
    disabled,   \* the owner's account is disabled
    rotating,   \* the rotate route committed and has not yet evicted
    sweeping,   \* the disable route committed and has not yet swept
    orphan,     \* history: row reads online on the word of a plane that died
    build,      \* build[s]: the daemon build that dialed s
    gen,        \* gen[s]: the key generation s authenticated with
    phase,      \* phase[s]: linkMode and linkPhase in one
    said,       \* said[s]: the last frame the daemon sent on s
    inbox,      \* inbox[s]: frames that arrived on s and are not yet handled
    task,       \* task[s]: where the frame being handled on s is suspended
    asking,     \* asking[s]: handleNodeOpen awaits accountDisabled
    accepted    \* accepted[s]: a ready on s passed every gate

planeVars == <<row, pinned, keyGen, disabled, rotating, sweeping, orphan>>
sockVars == <<build, gen, phase, said, inbox, task, asking, accepted>>
vars == <<registryVars, planeVars, sockVars>>

Phases == {"awaiting-kx", "awaiting-binding", "established", "legacy"}
Tasks == {"idle", "registered", "proving", "proved", "holdRow",
          "readyWrite", "readyLanded", "gating"}

TypeOK ==
    /\ RegistryTypeOK
    /\ row \in {"online", "offline"}
    /\ pinned \in BOOLEAN
    /\ keyGen \in 0..MaxRotations
    /\ disabled \in BOOLEAN
    /\ rotating \in BOOLEAN
    /\ sweeping \in BOOLEAN
    /\ orphan \in BOOLEAN
    /\ build \in [Sockets -> AllBuilds]
    /\ gen \in [Sockets -> 0..MaxRotations]
    /\ phase \in [Sockets -> Phases]
    /\ said \in [Sockets -> Frames \cup {"nothing"}]
    /\ inbox \in [Sockets -> Seq(Frames)]
    /\ task \in [Sockets -> Tasks]
    /\ asking \in [Sockets -> BOOLEAN]
    /\ accepted \in [Sockets -> BOOLEAN]

Init ==
    /\ RegistryInit
    /\ row = "offline"
    /\ pinned \in BOOLEAN
    /\ keyGen = 0
    /\ disabled = FALSE
    /\ rotating = FALSE
    /\ sweeping = FALSE
    /\ orphan = FALSE
    /\ build = [s \in Sockets |-> "current"]
    /\ gen = [s \in Sockets |-> 0]
    /\ phase = [s \in Sockets |-> "legacy"]
    /\ said = [s \in Sockets |-> "nothing"]
    /\ inbox = [s \in Sockets |-> <<>>]
    /\ task = [s \in Sockets |-> "idle"]
    /\ asking = [s \in Sockets |-> FALSE]
    /\ accepted = [s \in Sockets |-> FALSE]

-----------------------------------------------------------------------------
(* The status projection. *)

ProjectOffline ==
    /\ row' = "offline"
    /\ orphan' = FALSE

RowUntouched == UNCHANGED <<row, orphan>>

\* disconnectNode whole: evict, then project when something was evicted.
Evict(only) ==
    /\ DisconnectNode(only)
    /\ IF Evicted(only) # {} THEN ProjectOffline ELSE RowUntouched

\* holdSocket: the record moves to the held map and the row reads offline.
HoldSocket(s) ==
    /\ HoldConnection(s)
    /\ ProjectOffline

CloseSocket(s) ==
    /\ wire' = Closed(wire, {s})
    /\ UNCHANGED <<live, held, closing>>

Suspend(s, where) == task' = [task EXCEPT ![s] = where]

-----------------------------------------------------------------------------
(* Upgrade, open, close. *)

\* authenticateNodeUpgrade: the key must be the bound one, the owner enabled;
\* the link mode is read from the row HERE and never asked again.
Upgrade(s) ==
    /\ wire[s] = "new"
    /\ ~disabled
    /\ wire' = [wire EXCEPT ![s] = "upgraded"]
    /\ \E b \in Builds : build' = [build EXCEPT ![s] = b]
    /\ gen' = [gen EXCEPT ![s] = keyGen]
    /\ phase' = [phase EXCEPT ![s] = IF pinned THEN "awaiting-kx" ELSE "legacy"]
    /\ UNCHANGED <<live, held, closing, planeVars, said, inbox, task, asking, accepted>>

\* handleNodeOpen up to its await.
HandleOpen(s) ==
    /\ wire[s] = "upgraded"
    /\ AttachConnection(s)
    /\ asking' = [asking EXCEPT ![s] = TRUE]
    /\ UNCHANGED <<planeVars, build, gen, phase, said, inbox, task, accepted>>

\* Mutant of OwnerReasked: the re-ask is skipped.
OwnerNotReasked(s) ==
    /\ asking[s]
    /\ asking' = [asking EXCEPT ![s] = FALSE]
    /\ UNCHANGED <<registryVars, planeVars, build, gen, phase, said, inbox, task, accepted>>

\* handleNodeOpen after its await: a disable that landed since the upgrade
\* evicts this socket, and only this one.
OwnerReasked(s) ==
    /\ asking[s]
    /\ asking' = [asking EXCEPT ![s] = FALSE]
    /\ IF disabled THEN Evict({s}) ELSE UNCHANGED registryVars /\ RowUntouched
    /\ UNCHANGED <<pinned, keyGen, disabled, rotating, sweeping,
                   build, gen, phase, said, inbox, task, accepted>>

\* Mutant of HandleClose: the row is projected whoever owns the node.
CloseAlwaysProjects(s) ==
    /\ wire[s] = "closing"
    /\ wire' = [wire EXCEPT ![s] = "closed"]
    /\ live' = LiveAfterDetach(s)
    /\ held' = HeldAfterRelease(s)
    /\ ProjectOffline
    /\ UNCHANGED <<closing, pinned, keyGen, disabled, rotating, sweeping, sockVars>>

\* handleNodeClose: the owner of the live entry projects; any other socket
\* releases at most its own hold and leaves the row alone.
HandleClose(s) ==
    /\ wire[s] = "closing"
    /\ wire' = [wire EXCEPT ![s] = "closed"]
    /\ IF live = s
       THEN /\ live' = LiveAfterDetach(s)
            /\ UNCHANGED held
            /\ ProjectOffline
       ELSE /\ held' = HeldAfterRelease(s)
            /\ UNCHANGED live
            /\ RowUntouched
    /\ UNCHANGED <<closing, pinned, keyGen, disabled, rotating, sweeping, sockVars>>

\* Mutant of HandshakeDeadline: the first frame disarms it.
DeadlineOnlyForKx(s) ==
    /\ wire[s] = "open"
    /\ phase[s] = "awaiting-kx"
    /\ CloseSocket(s)
    /\ UNCHANGED <<planeVars, sockVars>>

\* The deadline handleNodeOpen arms on a handshake socket.
HandshakeDeadline(s) ==
    /\ wire[s] = "open"
    /\ phase[s] \in {"awaiting-kx", "awaiting-binding"}
    /\ CloseSocket(s)
    /\ UNCHANGED <<planeVars, sockVars>>

\* The held entry's idle timer.
HeldIdle(s) ==
    /\ HeldIdleFires(s)
    /\ UNCHANGED <<planeVars, sockVars>>

-----------------------------------------------------------------------------
(* The daemon and the network. *)

\* What the daemon may put on the wire next: its link opens with kx (or with
\* register when it holds no server key), the binding follows unasked, and
\* ready waits for the sealed ack.
NextFrames(s) ==
    CASE said[s] = "nothing" ->
            IF PlainBuild(build[s]) THEN {"ready"} ELSE {"kx", "register"}
      [] said[s] = "kx" -> {"binding"}
      [] said[s] = "binding" -> IF phase[s] = "established" THEN {"ready"} ELSE {}
      [] said[s] = "register" -> {}
      [] OTHER -> {"heartbeat"}

FrameArrives(s) ==
    /\ wire[s] = "open"
    /\ Len(inbox[s]) < MaxInbox
    /\ \E f \in NextFrames(s) :
          /\ said' = [said EXCEPT ![s] = f]
          /\ inbox' = [inbox EXCEPT ![s] = Append(@, f)]
    /\ UNCHANGED <<registryVars, planeVars, build, gen, phase, task, asking, accepted>>

\* The peer closes, dies, or is cut off.
PeerGone(s) ==
    /\ wire[s] = "open"
    /\ CloseSocket(s)
    /\ UNCHANGED <<planeVars, sockVars>>

-----------------------------------------------------------------------------
(* handleNodeMessage, one frame at a time per socket.  A frame that already  *)
(* waits on the socket's queue runs even after the socket was superseded,    *)
(* evicted or closed.                                                        *)

TakeFrame(s, f) ==
    /\ task[s] = "idle"
    /\ inbox[s] # <<>>
    /\ Head(inbox[s]) = f
    /\ inbox' = [inbox EXCEPT ![s] = Tail(@)]

\* The link machine refuses: plaintext or a wrong key before the binding,
\* anything but the binding after kx, a kx on a row with no pin.
FrameRefused(s, f) ==
    \/ phase[s] = "awaiting-kx" /\ (f # "kx" \/ build[s] = "otherKey")
    \/ phase[s] = "awaiting-binding" /\ f # "binding"
    \/ phase[s] = "legacy" /\ f = "kx"

RefuseFrame(s) ==
    /\ \E f \in Frames : TakeFrame(s, f) /\ FrameRefused(s, f)
    /\ CloseSocket(s)
    /\ UNCHANGED <<planeVars, build, gen, phase, said, task, asking, accepted>>

AcceptKx(s) ==
    /\ TakeFrame(s, "kx")
    /\ phase[s] = "awaiting-kx"
    /\ ~FrameRefused(s, "kx")
    /\ phase' = [phase EXCEPT ![s] = "awaiting-binding"]
    /\ UNCHANGED <<registryVars, planeVars, build, gen, said, task, asking, accepted>>

\* completeBinding up to verifyApiKey.
ReceiveBinding(s) ==
    /\ TakeFrame(s, "binding")
    /\ phase[s] = "awaiting-binding"
    /\ Suspend(s, "proving")
    /\ UNCHANGED <<registryVars, planeVars, build, gen, phase, said, asking, accepted>>

\* Mutant of ReProveNodeKey: the upgrade's verdict is trusted.
UpgradeTrusted(s) ==
    /\ task[s] = "proving"
    /\ Suspend(s, "proved")
    /\ UNCHANGED <<registryVars, planeVars, build, gen, phase, said, inbox, asking, accepted>>

\* reProveNodeKey: the key must still be live and be the one the upgrade named.
ReProveNodeKey(s) ==
    /\ task[s] = "proving"
    /\ IF gen[s] = keyGen
       THEN Suspend(s, "proved") /\ UNCHANGED registryVars
       ELSE Suspend(s, "idle") /\ CloseSocket(s)
    /\ UNCHANGED <<planeVars, build, gen, phase, said, inbox, asking, accepted>>

\* The binding completes: the link is wired, and a daemon that proposed
\* another protocol goes on to be held once its row was read.
CompleteBinding(s) ==
    /\ task[s] = "proved"
    /\ phase' = [phase EXCEPT ![s] = "established"]
    /\ Suspend(s, IF ProtocolMatches(build[s]) THEN "idle" ELSE "holdRow")
    /\ UNCHANGED <<registryVars, planeVars, build, gen, said, inbox, asking, accepted>>

HoldProposal(s) ==
    /\ task[s] = "holdRow"
    /\ HoldSocket(s)
    /\ Suspend(s, "idle")
    /\ UNCHANGED <<pinned, keyGen, disabled, rotating, sweeping,
                   build, gen, phase, said, inbox, asking, accepted>>

\* acceptRegister: the claimed key is pinned, then register-ok and a close.
AcceptRegister(s) ==
    /\ TakeFrame(s, "register")
    /\ phase[s] = "legacy"
    /\ pinned' = TRUE
    /\ Suspend(s, "registered")
    /\ UNCHANGED <<registryVars, row, keyGen, disabled, rotating, sweeping, orphan,
                   build, gen, phase, said, asking, accepted>>

RegisterAnswered(s) ==
    /\ task[s] = "registered"
    /\ Suspend(s, "idle")
    /\ CloseSocket(s)
    /\ UNCHANGED <<planeVars, build, gen, phase, said, inbox, asking, accepted>>

\* A plaintext ready that would pass both gates is held for an update.
WouldPass(s) ==
    /\ phase[s] = "legacy"
    /\ VersionSupported(build[s])
    /\ ProtocolMatches(build[s])

HoldPlaintextReady(s) ==
    /\ TakeFrame(s, "ready")
    /\ WouldPass(s)
    /\ HoldSocket(s)
    /\ UNCHANGED <<pinned, keyGen, disabled, rotating, sweeping,
                   build, gen, phase, said, task, asking, accepted>>

\* Frames the link machine passes through to the event switch.
Forwarded(s, f) ==
    /\ f \in {"ready", "heartbeat"}
    /\ phase[s] \in {"established", "legacy"}
    /\ ~(f = "ready" /\ WouldPass(s))

\* The held probe and the superseded probe: only the live record's frames go on.
DropFrame(s) ==
    /\ \E f \in Frames : TakeFrame(s, f) /\ Forwarded(s, f)
    /\ held = s \/ live # s
    /\ UNCHANGED <<registryVars, planeVars, build, gen, phase, said, task, asking, accepted>>

Heartbeat(s) ==
    /\ TakeFrame(s, "heartbeat")
    /\ Forwarded(s, "heartbeat")
    /\ held # s /\ live = s
    /\ UNCHANGED <<registryVars, planeVars, build, gen, phase, said, task, asking, accepted>>

\* The ready case: applyReady is issued ...
ReceiveReady(s) ==
    /\ TakeFrame(s, "ready")
    /\ Forwarded(s, "ready")
    /\ held # s /\ live = s
    /\ Suspend(s, "readyWrite")
    /\ UNCHANGED <<registryVars, planeVars, build, gen, phase, said, asking, accepted>>

\* ... lands ...
ApplyReadyLands(s) ==
    /\ task[s] = "readyWrite"
    /\ row' = "online"
    /\ orphan' = FALSE
    /\ Suspend(s, "readyLanded")
    /\ UNCHANGED <<registryVars, pinned, keyGen, disabled, rotating, sweeping,
                   build, gen, phase, said, inbox, asking, accepted>>

\* Mutant of ReadyResumes: a ready that lost its socket leaves its write standing.
ResumesWithoutProjecting(s) ==
    /\ task[s] = "readyLanded"
    /\ Suspend(s, IF live = s THEN "gating" ELSE "idle")
    /\ UNCHANGED <<registryVars, planeVars, build, gen, phase, said, inbox, asking, accepted>>

\* ... and the handler asks whether it still owns the node.  Gone: project
\* offline again.  Replaced: online is the replacement's truth.
ReadyResumes(s) ==
    /\ task[s] = "readyLanded"
    /\ Suspend(s, IF live = s THEN "gating" ELSE "idle")
    /\ IF live = None THEN ProjectOffline ELSE RowUntouched
    /\ UNCHANGED <<registryVars, pinned, keyGen, disabled, rotating, sweeping,
                   build, gen, phase, said, inbox, asking, accepted>>

\* After the fingerprint write: the version floor, the protocol, or acceptance.
ReadyGates(s) ==
    /\ task[s] = "gating"
    /\ Suspend(s, "idle")
    /\ IF VersionSupported(build[s]) /\ ProtocolMatches(build[s])
       THEN /\ accepted' = [accepted EXCEPT ![s] = TRUE]
            /\ UNCHANGED registryVars
            /\ RowUntouched
       ELSE HoldSocket(s) /\ UNCHANGED accepted
    /\ UNCHANGED <<pinned, keyGen, disabled, rotating, sweeping,
                   build, gen, phase, said, inbox, asking>>

-----------------------------------------------------------------------------
(* The routes and the process. *)

\* The rotate route's transaction: new binding, pin cleared, old key disabled.
RotateKey ==
    /\ ~rotating
    /\ keyGen < MaxRotations
    /\ keyGen' = keyGen + 1
    /\ pinned' = FALSE
    /\ rotating' = TRUE
    /\ UNCHANGED <<registryVars, row, disabled, sweeping, orphan, sockVars>>

RotateEvicts ==
    /\ rotating
    /\ rotating' = FALSE
    /\ Evict(Sockets)
    /\ UNCHANGED <<pinned, keyGen, disabled, sweeping, sockVars>>

\* The disable route: the flag commits, then its nodes are swept.
DisableOwner ==
    /\ ~disabled
    /\ disabled' = TRUE
    /\ sweeping' = TRUE
    /\ UNCHANGED <<registryVars, row, pinned, keyGen, rotating, orphan, sockVars>>

DisableSweeps ==
    /\ sweeping
    /\ sweeping' = FALSE
    /\ Evict(Sockets)
    /\ UNCHANGED <<pinned, keyGen, disabled, rotating, sockVars>>

EnableOwner ==
    /\ disabled
    /\ disabled' = FALSE
    /\ UNCHANGED <<registryVars, row, pinned, keyGen, rotating, sweeping, orphan, sockVars>>

\* disconnectAllNodes, the last act of a deliberate restart: it walks the live map.
CloseForRestart ==
    /\ live # None
    /\ Evict(Sockets)
    /\ UNCHANGED <<pinned, keyGen, disabled, rotating, sweeping, sockVars>>

\* Mutant of StaleSweep: it does not ask the registry.
SweepsAnyRow ==
    /\ row = "online"
    /\ ProjectOffline
    /\ UNCHANGED <<registryVars, pinned, keyGen, disabled, rotating, sweeping, sockVars>>

\* The 60-second sweep: a row nobody reports for, with no live socket.
StaleSweep ==
    /\ row = "online"
    /\ live = None
    /\ ProjectOffline
    /\ UNCHANGED <<registryVars, pinned, keyGen, disabled, rotating, sweeping, sockVars>>

\* The plane's process dies and comes back: the maps, the sockets and every
\* suspended handler go; the row stays as it was last written.
PlaneRestarts ==
    /\ \E s \in Sockets : wire[s] # "new"
    /\ RegistryReset
    /\ orphan' = (row = "online")
    /\ rotating' = FALSE
    /\ sweeping' = FALSE
    /\ inbox' = [s \in Sockets |-> <<>>]
    /\ said' = [s \in Sockets |-> "nothing"]
    /\ task' = [s \in Sockets |-> "idle"]
    /\ asking' = [s \in Sockets |-> FALSE]
    /\ accepted' = [s \in Sockets |-> FALSE]
    /\ build' = [s \in Sockets |-> "current"]
    /\ gen' = [s \in Sockets |-> 0]
    /\ phase' = [s \in Sockets |-> "legacy"]
    /\ UNCHANGED <<row, pinned, keyGen, disabled>>

\* A finished socket nothing refers to any more is forgotten; its name stands
\* for the daemon's next dial.
Forget(s) ==
    /\ wire[s] = "closed"
    /\ live # s /\ held # s
    /\ task[s] = "idle" /\ inbox[s] = <<>> /\ ~asking[s]
    /\ wire' = [wire EXCEPT ![s] = "new"]
    /\ closing' = [closing EXCEPT ![s] = FALSE]
    /\ build' = [build EXCEPT ![s] = "current"]
    /\ gen' = [gen EXCEPT ![s] = 0]
    /\ phase' = [phase EXCEPT ![s] = "legacy"]
    /\ said' = [said EXCEPT ![s] = "nothing"]
    /\ accepted' = [accepted EXCEPT ![s] = FALSE]
    /\ UNCHANGED <<live, held, planeVars, inbox, task, asking>>

-----------------------------------------------------------------------------
Lifecycle(s) ==
    \/ Upgrade(s) \/ HandleOpen(s) \/ OwnerReasked(s) \/ HandleClose(s)
    \/ HandshakeDeadline(s) \/ HeldIdle(s) \/ FrameArrives(s) \/ PeerGone(s)
    \/ Forget(s)

HandleFrame(s) ==
    \/ RefuseFrame(s) \/ AcceptKx(s) \/ ReceiveBinding(s) \/ AcceptRegister(s)
    \/ HoldPlaintextReady(s) \/ DropFrame(s) \/ Heartbeat(s) \/ ReceiveReady(s)

Resume(s) ==
    \/ ReProveNodeKey(s) \/ CompleteBinding(s) \/ HoldProposal(s)
    \/ RegisterAnswered(s) \/ ApplyReadyLands(s) \/ ReadyResumes(s) \/ ReadyGates(s)

Plane ==
    \/ RotateKey \/ RotateEvicts \/ DisableOwner \/ DisableSweeps \/ EnableOwner
    \/ CloseForRestart \/ StaleSweep \/ PlaneRestarts

Next ==
    \/ \E s \in Sockets : Lifecycle(s) \/ HandleFrame(s) \/ Resume(s)
    \/ Plane

Spec == Init /\ [][Next]_vars

(***************************************************************************)
(* Fairness: what the event loop and the timers owe.  A suspended handler  *)
(* is resumed, a queued frame is handled, an armed timer fires, a begun    *)
(* closure is dispatched.  Nothing is owed by a peer or by an operator.    *)
(***************************************************************************)
Fairness ==
    /\ \A s \in Sockets :
          /\ WF_vars(OwnerReasked(s))
          /\ WF_vars(HandleClose(s))
          /\ WF_vars(HandshakeDeadline(s))
          /\ WF_vars(HeldIdle(s))
          /\ WF_vars(HandleFrame(s))
          /\ WF_vars(Resume(s))
    /\ WF_vars(RotateEvicts)
    /\ WF_vars(DisableSweeps)
    /\ WF_vars(StaleSweep)

FairSpec == Spec /\ Fairness
-----------------------------------------------------------------------------
(* Properties. *)

\* An open socket is always in the registry: no supersede, hold, release or
\* eviction leaves a daemon connected to a plane that has forgotten it (it
\* would never be closed, and the daemon would never redial).
OpenSocketIsRegistered ==
    \A s \in Sockets : wire[s] = "open" => s \in {live, held}

\* The live entry is a connection the registry still owns, whose close event is
\* yet to come: the event that will empty the entry is never already spent.
LiveSocketIsOwned ==
    live # None => ~closing[live] /\ wire[live] \in {"open", "closing"}

\* The row never claims a reachable machine on nobody's word: with no live
\* socket it reads online only while the ready that wrote it has yet to ask
\* whether it still owns the node (it will project offline), or when the plane
\* that wrote it died (the stale sweep's case).
OnlineHasWitness ==
    (row = "online" /\ live = None) =>
        \/ orphan
        \/ \E s \in Sockets : task[s] = "readyLanded"

\* Once the disable route has swept, a disabled owner's node has no live
\* socket, unless that socket's open handler is still to re-ask.  An upgrade
\* that passed the gate before the disable opens after the sweep.
DisabledOwnerIsOffline ==
    (disabled /\ ~sweeping /\ live # None) => asking[live]

\* An encrypted link in service was proved with the key the row binds now: a
\* rotation that crosses the binding leaves no established link standing once
\* its eviction ran.
EstablishedKeyIsBound ==
    (live # None /\ phase[live] = "established") =>
        gen[live] = keyGen \/ rotating

\* A machine whose ready was accepted, and which still holds the live entry,
\* reads online.  (Claimed of fleets where no socket is held: a hold that lands
\* on a superseded socket leaves a record in each map, and breaks it.)
AcceptedReadsOnline ==
    (live # None /\ accepted[live]) => row = "online"

\* The row is taken offline only by a step that leaves the node with no live
\* socket: a late frame, close or re-ask of an older socket never strands the
\* machine that replaced it.  (Claimed of the same fleets.)
OfflineOnlyWhenGone ==
    [][(row = "online" /\ row' = "offline") => live' = None]_vars

\* A handshake socket does not stay half-open: it establishes or is closed.
HandshakeSettles ==
    \A s \in Sockets :
        (wire[s] = "open" /\ phase[s] \in {"awaiting-kx", "awaiting-binding"})
            ~> (wire[s] # "open" \/ phase[s] = "established")

\* An owner who stays disabled ends up with the node offline for good: no live
\* socket, no held one, and a row that says so.
DisableTakesHold ==
    <>[]disabled => <>[](live = None /\ held = None /\ row = "offline")

-----------------------------------------------------------------------------
(* The inductive strengthening the proofs rest on. *)

\* A socket that has not opened has left no trace in the registry or in a
\* handler.
UnopenedIsBlank ==
    \A s \in Sockets : wire[s] \in {"new", "upgraded"} =>
        /\ ~closing[s]
        /\ live # s /\ held # s
        /\ task[s] = "idle"
        /\ inbox[s] = <<>>
        /\ phase[s] # "established"

\* One record is never in both maps, which is what the two maps' operations
\* rely on (two records, one in each, are possible).
RecordInOneMap == live # None => held # live

RegistryInv ==
    /\ UnopenedIsBlank
    /\ RecordInOneMap
    /\ OpenSocketIsRegistered
    /\ LiveSocketIsOwned

\* The verdict of a re-proof in flight on the live socket still stands.
ProofStands ==
    \A s \in Sockets : (live = s /\ task[s] = "proved") =>
        gen[s] = keyGen \/ rotating

KeyInv == ProofStands /\ EstablishedKeyIsBound
=============================================================================
