--------------------------- MODULE NodeLinkProofs ---------------------------
(* Theorems about NodeLink, for every set of sockets, fleet and bound.       *)
EXTENDS NodeLink, TLAPS

\* Every frame the daemon may send next is a frame of the protocol.
LEMMA NextFramesAreFrames == \A s \in Sockets : NextFrames(s) \subseteq Frames
  BY DEF NextFrames, Frames

\* Each registry operation keeps the registry's types.
LEMMA RegistryOperationsType ==
  ASSUME RegistryTypeOK, NEW s \in Sockets, NEW only \in SUBSET Sockets,
         \/ HoldConnection(s)
         \/ AttachConnection(s)
         \/ DisconnectNode(only)
         \/ CloseSocket(s)
  PROVE  RegistryTypeOK'
<1> USE DEF RegistryTypeOK, Closed, Disowned, WireStates
<1>1. CASE HoldConnection(s)
  BY <1>1 DEF HoldConnection
<1>2. CASE AttachConnection(s)
  BY <1>2 DEF AttachConnection
<1>3. CASE DisconnectNode(only)
  BY <1>3 DEF DisconnectNode, Evicted
<1>4. CASE CloseSocket(s)
  BY <1>4 DEF CloseSocket
<1>5. QED
  BY <1>1, <1>2, <1>3, <1>4

\* Every frame, settled await, route and restart keeps the types.
LEMMA TypeStep ==
  ASSUME TypeOK, [Next]_vars
  PROVE  TypeOK'
<1> USE BuildsAssumption
<1> USE DEF TypeOK, RegistryTypeOK, WireStates, Phases, Tasks
<1> USE DEF ProjectOffline, RowUntouched, Suspend, CloseSocket, Closed,
            planeVars, sockVars, registryVars
<1>1. ASSUME NEW s \in Sockets, Lifecycle(s) PROVE TypeOK'
  <2>1. CASE Upgrade(s)
    BY <2>1 DEF Upgrade
  <2>2. CASE HandleOpen(s)
    BY <2>2 DEF HandleOpen, AttachConnection, Disowned
  <2>3. CASE OwnerReasked(s)
    BY <2>3 DEF OwnerReasked, Evict, DisconnectNode, Evicted, Disowned
  <2>4. CASE HandleClose(s)
    BY <2>4 DEF HandleClose, LiveAfterDetach, HeldAfterRelease
  <2>5. CASE HandshakeDeadline(s)
    BY <2>5 DEF HandshakeDeadline
  <2>6. CASE HeldIdle(s)
    BY <2>6 DEF HeldIdle, HeldIdleFires
  <2>7. CASE FrameArrives(s)
    BY <2>7, NextFramesAreFrames DEF FrameArrives
  <2>8. CASE PeerGone(s)
    BY <2>8 DEF PeerGone
  <2>9. CASE Forget(s)
    <3>1. RegistryTypeOK'
      BY <2>9 DEF Forget
    <3>2. build' \in [Sockets -> AllBuilds]
      BY <2>9 DEF Forget, AllBuilds
    <3>3. gen' \in [Sockets -> 0..MaxRotations]
      BY <2>9, BoundsAssumption DEF Forget
    <3>4. phase' \in [Sockets -> Phases]
      BY <2>9 DEF Forget
    <3>5. said' \in [Sockets -> Frames \cup {"nothing"}]
      BY <2>9 DEF Forget
    <3>6. accepted' \in [Sockets -> BOOLEAN]
      BY <2>9 DEF Forget
    <3>7. QED
      BY <2>9, <3>1, <3>2, <3>3, <3>4, <3>5, <3>6 DEF Forget
  <2>10. QED
    BY <1>1, <2>1, <2>2, <2>3, <2>4, <2>5, <2>6, <2>7, <2>8, <2>9 DEF Lifecycle
<1>2. ASSUME NEW s \in Sockets, HandleFrame(s) PROVE TypeOK'
  <2> USE DEF TakeFrame
  <2>1. CASE RefuseFrame(s)
    BY <2>1 DEF RefuseFrame
  <2>2. CASE AcceptKx(s)
    BY <2>2 DEF AcceptKx
  <2>3. CASE ReceiveBinding(s)
    BY <2>3 DEF ReceiveBinding
  <2>4. CASE AcceptRegister(s)
    BY <2>4 DEF AcceptRegister
  <2>5. CASE HoldPlaintextReady(s)
    <3>1. RegistryTypeOK'
      BY <2>5, RegistryOperationsType DEF HoldPlaintextReady, HoldSocket
    <3>2. inbox' \in [Sockets -> Seq(Frames)]
      BY <2>5 DEF HoldPlaintextReady
    <3>3. QED
      BY <2>5, <3>1, <3>2 DEF HoldPlaintextReady, HoldSocket
  <2>6. CASE DropFrame(s)
    BY <2>6 DEF DropFrame
  <2>7. CASE Heartbeat(s)
    BY <2>7 DEF Heartbeat
  <2>8. CASE ReceiveReady(s)
    BY <2>8 DEF ReceiveReady
  <2>9. QED
    BY <1>2, <2>1, <2>2, <2>3, <2>4, <2>5, <2>6, <2>7, <2>8 DEF HandleFrame
<1>3. ASSUME NEW s \in Sockets, Resume(s) PROVE TypeOK'
  <2>1. CASE ReProveNodeKey(s)
    <3>1. RegistryTypeOK'
      BY <2>1, RegistryOperationsType DEF ReProveNodeKey
    <3>2. task' \in [Sockets -> Tasks]
      <4>1. CASE gen[s] = keyGen
        <5>1. task' = [task EXCEPT ![s] = "proved"]
          BY <2>1, <4>1 DEF ReProveNodeKey
        <5>2. QED
          BY <5>1
      <4>2. CASE gen[s] # keyGen
        <5>1. task' = [task EXCEPT ![s] = "idle"]
          BY <2>1, <4>2 DEF ReProveNodeKey
        <5>2. QED
          BY <5>1
      <4>3. QED
        BY <4>1, <4>2
    <3>3. QED
      BY <2>1, <3>1, <3>2 DEF ReProveNodeKey
  <2>2. CASE CompleteBinding(s)
    BY <2>2 DEF CompleteBinding
  <2>3. CASE HoldProposal(s)
    BY <2>3 DEF HoldProposal, HoldSocket, HoldConnection, Disowned
  <2>4. CASE RegisterAnswered(s)
    BY <2>4 DEF RegisterAnswered
  <2>5. CASE ApplyReadyLands(s)
    BY <2>5 DEF ApplyReadyLands
  <2>6. CASE ReadyResumes(s)
    BY <2>6 DEF ReadyResumes
  <2>7. CASE ReadyGates(s)
    <3>1. RegistryTypeOK'
      BY <2>7, RegistryOperationsType DEF ReadyGates, HoldSocket
    <3>2. accepted' \in [Sockets -> BOOLEAN] /\ row' \in {"online", "offline"} /\ orphan' \in BOOLEAN
      BY <2>7 DEF ReadyGates, HoldSocket
    <3>3. QED
      BY <2>7, <3>1, <3>2 DEF ReadyGates
  <2>8. QED
    BY <1>3, <2>1, <2>2, <2>3, <2>4, <2>5, <2>6, <2>7 DEF Resume
<1>4. ASSUME Plane PROVE TypeOK'
  <2> USE DEF Evict, DisconnectNode, Evicted, Disowned
  <2>1. CASE RotateKey
    <3>1. keyGen' \in 0..MaxRotations
      BY <2>1, BoundsAssumption DEF RotateKey
    <3>2. QED
      BY <2>1, <3>1 DEF RotateKey
  <2>2. CASE RotateEvicts
    BY <2>2 DEF RotateEvicts
  <2>3. CASE DisableOwner
    BY <2>3 DEF DisableOwner
  <2>4. CASE DisableSweeps
    BY <2>4 DEF DisableSweeps
  <2>5. CASE EnableOwner
    BY <2>5 DEF EnableOwner
  <2>6. CASE CloseForRestart
    BY <2>6 DEF CloseForRestart
  <2>7. CASE StaleSweep
    BY <2>7 DEF StaleSweep
  <2>8. CASE PlaneRestarts
    <3>1. <<>> \in Seq(Frames)
      OBVIOUS
    <3>2. 0 \in 0..MaxRotations
      BY BoundsAssumption
    <3>3. RegistryTypeOK'
      BY <2>8 DEF PlaneRestarts, RegistryReset
    <3>4. QED
      BY <2>8, <3>1, <3>2, <3>3 DEF PlaneRestarts, AllBuilds
  <2>9. QED
    BY <1>4, <2>1, <2>2, <2>3, <2>4, <2>5, <2>6, <2>7, <2>8 DEF Plane
<1>5. CASE UNCHANGED vars
  BY <1>5 DEF vars
<1>6. QED
  BY <1>1, <1>2, <1>3, <1>4, <1>5 DEF Next

\* The state of node-ws-handler.ts and node-registry.ts keeps its types.
THEOREM TypeCorrect == Spec => []TypeOK
<1> USE BuildsAssumption
<1>1. Init => TypeOK
  <2>1. <<>> \in Seq(Frames)
    OBVIOUS
  <2>2. 0 \in 0..MaxRotations
    BY BoundsAssumption
  <2>3. Init => RegistryTypeOK
    BY DEF Init, RegistryInit, RegistryTypeOK, WireStates
  <2>4. Init => /\ build \in [Sockets -> AllBuilds]
                /\ phase \in [Sockets -> Phases]
                /\ task \in [Sockets -> Tasks]
    BY DEF Init, Phases, Tasks, AllBuilds
  <2>5. Init => /\ gen \in [Sockets -> 0..MaxRotations]
                /\ said \in [Sockets -> Frames \cup {"nothing"}]
                /\ inbox \in [Sockets -> Seq(Frames)]
    BY <2>1, <2>2 DEF Init
  <2>6. Init => /\ row \in {"online", "offline"} /\ pinned \in BOOLEAN /\ keyGen \in 0..MaxRotations
                /\ disabled \in BOOLEAN /\ rotating \in BOOLEAN /\ sweeping \in BOOLEAN
                /\ orphan \in BOOLEAN
    BY <2>2 DEF Init
  <2>7. Init => asking \in [Sockets -> BOOLEAN] /\ accepted \in [Sockets -> BOOLEAN]
    BY DEF Init
  <2>8. QED
    BY <2>3, <2>4, <2>5, <2>6, <2>7, Zenon DEF TypeOK
<1>2. TypeOK /\ [Next]_vars => TypeOK'
  BY TypeStep
<1> QED
  BY <1>1, <1>2, PTL DEF Spec

-----------------------------------------------------------------------------
(* The registry: an open socket is registered, the live one is owned.        *)

\* No step forgets an open socket or leaves the live entry without an owner.
LEMMA RegistryStep ==
  ASSUME TypeOK, RegistryInv, [Next]_vars
  PROVE  RegistryInv'
<1> USE NoneIsNoSocket DEF RegistryInv, UnopenedIsBlank, RecordInOneMap,
            OpenSocketIsRegistered, LiveSocketIsOwned, TypeOK, RegistryTypeOK
<1> USE DEF Suspend, CloseSocket, Closed, planeVars, sockVars, registryVars
<1>1. ASSUME NEW s \in Sockets, Lifecycle(s) PROVE RegistryInv'
  <2>1. CASE Upgrade(s)
    BY <2>1 DEF Upgrade
  <2>2. CASE HandleOpen(s)
    BY <2>2 DEF HandleOpen, AttachConnection, Disowned
  <2>3. CASE OwnerReasked(s)
    BY <2>3 DEF OwnerReasked, Evict, DisconnectNode, Evicted, Disowned
  <2>4. CASE HandleClose(s)
    BY <2>4 DEF HandleClose, LiveAfterDetach, HeldAfterRelease
  <2>5. CASE HandshakeDeadline(s)
    BY <2>5 DEF HandshakeDeadline
  <2>6. CASE HeldIdle(s)
    BY <2>6 DEF HeldIdle, HeldIdleFires
  <2>7. CASE FrameArrives(s)
    BY <2>7 DEF FrameArrives
  <2>8. CASE PeerGone(s)
    BY <2>8 DEF PeerGone
  <2>9. CASE Forget(s)
    BY <2>9 DEF Forget
  <2>10. QED
    BY <1>1, <2>1, <2>2, <2>3, <2>4, <2>5, <2>6, <2>7, <2>8, <2>9 DEF Lifecycle
<1>2. ASSUME NEW s \in Sockets, HandleFrame(s) PROVE RegistryInv'
  <2> USE DEF TakeFrame
  <2>1. CASE RefuseFrame(s)
    BY <2>1 DEF RefuseFrame
  <2>2. CASE AcceptKx(s)
    BY <2>2 DEF AcceptKx
  <2>3. CASE ReceiveBinding(s)
    BY <2>3 DEF ReceiveBinding
  <2>4. CASE AcceptRegister(s)
    BY <2>4 DEF AcceptRegister
  <2>5. CASE HoldPlaintextReady(s)
    BY <2>5 DEF HoldPlaintextReady, HoldSocket, HoldConnection, Disowned
  <2>6. CASE DropFrame(s)
    BY <2>6 DEF DropFrame
  <2>7. CASE Heartbeat(s)
    BY <2>7 DEF Heartbeat
  <2>8. CASE ReceiveReady(s)
    BY <2>8 DEF ReceiveReady
  <2>9. QED
    BY <1>2, <2>1, <2>2, <2>3, <2>4, <2>5, <2>6, <2>7, <2>8 DEF HandleFrame
<1>3. ASSUME NEW s \in Sockets, Resume(s) PROVE RegistryInv'
  <2>1. CASE ReProveNodeKey(s)
    BY <2>1 DEF ReProveNodeKey
  <2>2. CASE CompleteBinding(s)
    BY <2>2 DEF CompleteBinding
  <2>3. CASE HoldProposal(s)
    BY <2>3 DEF HoldProposal, HoldSocket, HoldConnection, Disowned
  <2>4. CASE RegisterAnswered(s)
    BY <2>4 DEF RegisterAnswered
  <2>5. CASE ApplyReadyLands(s)
    BY <2>5 DEF ApplyReadyLands
  <2>6. CASE ReadyResumes(s)
    BY <2>6 DEF ReadyResumes
  <2>7. CASE ReadyGates(s)
    BY <2>7 DEF ReadyGates, HoldSocket, HoldConnection, Disowned
  <2>8. QED
    BY <1>3, <2>1, <2>2, <2>3, <2>4, <2>5, <2>6, <2>7 DEF Resume
<1>4. ASSUME Plane PROVE RegistryInv'
  <2> USE DEF Evict, DisconnectNode, Evicted, Disowned
  <2>1. CASE RotateKey
    BY <2>1 DEF RotateKey
  <2>2. CASE RotateEvicts
    BY <2>2 DEF RotateEvicts
  <2>3. CASE DisableOwner
    BY <2>3 DEF DisableOwner
  <2>4. CASE DisableSweeps
    BY <2>4 DEF DisableSweeps
  <2>5. CASE EnableOwner
    BY <2>5 DEF EnableOwner
  <2>6. CASE CloseForRestart
    BY <2>6 DEF CloseForRestart
  <2>7. CASE StaleSweep
    BY <2>7 DEF StaleSweep
  <2>8. CASE PlaneRestarts
    BY <2>8 DEF PlaneRestarts, RegistryReset
  <2>9. QED
    BY <1>4, <2>1, <2>2, <2>3, <2>4, <2>5, <2>6, <2>7, <2>8 DEF Plane
<1>5. CASE UNCHANGED vars
  BY <1>5 DEF vars
<1>6. QED
  BY <1>1, <1>2, <1>3, <1>4, <1>5 DEF Next

\* node-registry.ts and its callers: no open socket is forgotten, and the live
\* entry is always a connection whose close is still to come.
THEOREM RegistrySound == Spec => []RegistryInv
<1>1. Init => RegistryInv
  BY NoneIsNoSocket DEF Init, RegistryInit, RegistryInv, UnopenedIsBlank, RecordInOneMap,
         OpenSocketIsRegistered, LiveSocketIsOwned
<1>2. TypeOK /\ RegistryInv /\ [Next]_vars => RegistryInv'
  BY RegistryStep
<1> QED
  BY <1>1, <1>2, TypeCorrect, PTL DEF Spec

\* The invariants a reader knows it by.
COROLLARY OpenSocketRegistered == Spec => [](OpenSocketIsRegistered /\ LiveSocketIsOwned)
<1>1. RegistryInv => OpenSocketIsRegistered /\ LiveSocketIsOwned
  BY DEF RegistryInv
<1>2. QED
  BY <1>1, RegistrySound, PTL

-----------------------------------------------------------------------------
(* The status row. *)

\* No step leaves the row online with nobody to answer for it.
LEMMA OnlineStep ==
  ASSUME TypeOK, OnlineHasWitness, [Next]_vars
  PROVE  OnlineHasWitness'
<1> USE NoneIsNoSocket DEF OnlineHasWitness, TypeOK, RegistryTypeOK
<1> USE DEF Suspend, CloseSocket, Closed, ProjectOffline, RowUntouched,
            planeVars, sockVars, registryVars
<1>1. ASSUME NEW s \in Sockets, Lifecycle(s) PROVE OnlineHasWitness'
  <2>1. CASE Upgrade(s)
    BY <2>1 DEF Upgrade
  <2>2. CASE HandleOpen(s)
    BY <2>2 DEF HandleOpen, AttachConnection, Disowned
  <2>3. CASE OwnerReasked(s)
    BY <2>3 DEF OwnerReasked, Evict, DisconnectNode, Evicted, Disowned
  <2>4. CASE HandleClose(s)
    BY <2>4 DEF HandleClose, LiveAfterDetach, HeldAfterRelease
  <2>5. CASE HandshakeDeadline(s)
    BY <2>5 DEF HandshakeDeadline
  <2>6. CASE HeldIdle(s)
    BY <2>6 DEF HeldIdle, HeldIdleFires
  <2>7. CASE FrameArrives(s)
    BY <2>7 DEF FrameArrives
  <2>8. CASE PeerGone(s)
    BY <2>8 DEF PeerGone
  <2>9. CASE Forget(s)
    BY <2>9 DEF Forget
  <2>10. QED
    BY <1>1, <2>1, <2>2, <2>3, <2>4, <2>5, <2>6, <2>7, <2>8, <2>9 DEF Lifecycle
<1>2. ASSUME NEW s \in Sockets, HandleFrame(s) PROVE OnlineHasWitness'
  <2> USE DEF TakeFrame
  <2>1. CASE RefuseFrame(s)
    BY <2>1 DEF RefuseFrame
  <2>2. CASE AcceptKx(s)
    BY <2>2 DEF AcceptKx
  <2>3. CASE ReceiveBinding(s)
    BY <2>3 DEF ReceiveBinding
  <2>4. CASE AcceptRegister(s)
    BY <2>4 DEF AcceptRegister
  <2>5. CASE HoldPlaintextReady(s)
    BY <2>5 DEF HoldPlaintextReady, HoldSocket, HoldConnection, Disowned
  <2>6. CASE DropFrame(s)
    BY <2>6 DEF DropFrame
  <2>7. CASE Heartbeat(s)
    BY <2>7 DEF Heartbeat
  <2>8. CASE ReceiveReady(s)
    BY <2>8 DEF ReceiveReady
  <2>9. QED
    BY <1>2, <2>1, <2>2, <2>3, <2>4, <2>5, <2>6, <2>7, <2>8 DEF HandleFrame
<1>3. ASSUME NEW s \in Sockets, Resume(s) PROVE OnlineHasWitness'
  <2>1. CASE ReProveNodeKey(s)
    BY <2>1 DEF ReProveNodeKey
  <2>2. CASE CompleteBinding(s)
    BY <2>2 DEF CompleteBinding
  <2>3. CASE HoldProposal(s)
    BY <2>3 DEF HoldProposal, HoldSocket, HoldConnection, Disowned
  <2>4. CASE RegisterAnswered(s)
    BY <2>4 DEF RegisterAnswered
  <2>5. CASE ApplyReadyLands(s)
    BY <2>5 DEF ApplyReadyLands
  <2>6. CASE ReadyResumes(s)
    BY <2>6 DEF ReadyResumes
  <2>7. CASE ReadyGates(s)
    BY <2>7 DEF ReadyGates, HoldSocket, HoldConnection, Disowned
  <2>8. QED
    BY <1>3, <2>1, <2>2, <2>3, <2>4, <2>5, <2>6, <2>7 DEF Resume
<1>4. ASSUME Plane PROVE OnlineHasWitness'
  <2> USE DEF Evict, DisconnectNode, Evicted, Disowned
  <2>1. CASE RotateKey
    BY <2>1 DEF RotateKey
  <2>2. CASE RotateEvicts
    BY <2>2 DEF RotateEvicts
  <2>3. CASE DisableOwner
    BY <2>3 DEF DisableOwner
  <2>4. CASE DisableSweeps
    BY <2>4 DEF DisableSweeps
  <2>5. CASE EnableOwner
    BY <2>5 DEF EnableOwner
  <2>6. CASE CloseForRestart
    BY <2>6 DEF CloseForRestart
  <2>7. CASE StaleSweep
    BY <2>7 DEF StaleSweep
  <2>8. CASE PlaneRestarts
    BY <2>8 DEF PlaneRestarts, RegistryReset
  <2>9. QED
    BY <1>4, <2>1, <2>2, <2>3, <2>4, <2>5, <2>6, <2>7, <2>8 DEF Plane
<1>5. CASE UNCHANGED vars
  BY <1>5 DEF vars
<1>6. QED
  BY <1>1, <1>2, <1>3, <1>4, <1>5 DEF Next

\* Every write of nodes.status in the handler, the routes and the sweep keeps
\* the row from claiming a machine nobody answers for.
THEOREM OnlineWitnessed == Spec => []OnlineHasWitness
<1>1. Init => OnlineHasWitness
  BY DEF Init, OnlineHasWitness
<1>2. TypeOK /\ OnlineHasWitness /\ [Next]_vars => OnlineHasWitness'
  BY OnlineStep
<1> QED
  BY <1>1, <1>2, TypeCorrect, PTL DEF Spec

-----------------------------------------------------------------------------
(* The disable route against the upgrade gate. *)

\* No step lets a disabled owner's machine past both the re-ask and the sweep.
LEMMA DisabledStep ==
  ASSUME TypeOK, DisabledOwnerIsOffline, [Next]_vars
  PROVE  DisabledOwnerIsOffline'
<1> USE NoneIsNoSocket DEF DisabledOwnerIsOffline, TypeOK, RegistryTypeOK
<1> USE DEF Suspend, CloseSocket, Closed, ProjectOffline, RowUntouched,
            planeVars, sockVars, registryVars
<1>1. ASSUME NEW s \in Sockets, Lifecycle(s) PROVE DisabledOwnerIsOffline'
  <2>1. CASE Upgrade(s)
    BY <2>1 DEF Upgrade
  <2>2. CASE HandleOpen(s)
    BY <2>2 DEF HandleOpen, AttachConnection, Disowned
  <2>3. CASE OwnerReasked(s)
    <3>1. CASE disabled
      <4>1. UNCHANGED <<disabled, sweeping>> /\ asking' = [asking EXCEPT ![s] = FALSE]
        BY <2>3 DEF OwnerReasked
      <4>2. DisconnectNode({s})
        BY <2>3, <3>1 DEF OwnerReasked, Evict
      <4>3. live' = None \/ (live' = live /\ live # s)
        BY <4>2 DEF DisconnectNode, Evicted
      <4>4. live' # None => asking'[live'] = asking[live]
        <5>1. asking \in [Sockets -> BOOLEAN] /\ live \in Sockets \cup {None}
          OBVIOUS
        <5> QED
          BY ONLY <4>1, <4>3, <5>1
      <4> QED
        BY ONLY DisabledOwnerIsOffline, <4>1, <4>3, <4>4 DEF DisabledOwnerIsOffline
    <3>2. CASE ~disabled
      BY <2>3, <3>2 DEF OwnerReasked
    <3> QED
      BY <3>1, <3>2
  <2>4. CASE HandleClose(s)
    BY <2>4 DEF HandleClose, LiveAfterDetach, HeldAfterRelease
  <2>5. CASE HandshakeDeadline(s)
    BY <2>5 DEF HandshakeDeadline
  <2>6. CASE HeldIdle(s)
    BY <2>6 DEF HeldIdle, HeldIdleFires
  <2>7. CASE FrameArrives(s)
    BY <2>7 DEF FrameArrives
  <2>8. CASE PeerGone(s)
    BY <2>8 DEF PeerGone
  <2>9. CASE Forget(s)
    BY <2>9 DEF Forget
  <2>10. QED
    BY <1>1, <2>1, <2>2, <2>3, <2>4, <2>5, <2>6, <2>7, <2>8, <2>9 DEF Lifecycle
<1>2. ASSUME NEW s \in Sockets, HandleFrame(s) PROVE DisabledOwnerIsOffline'
  <2> USE DEF TakeFrame
  <2>1. CASE RefuseFrame(s)
    BY <2>1 DEF RefuseFrame
  <2>2. CASE AcceptKx(s)
    BY <2>2 DEF AcceptKx
  <2>3. CASE ReceiveBinding(s)
    BY <2>3 DEF ReceiveBinding
  <2>4. CASE AcceptRegister(s)
    BY <2>4 DEF AcceptRegister
  <2>5. CASE HoldPlaintextReady(s)
    BY <2>5 DEF HoldPlaintextReady, HoldSocket, HoldConnection, Disowned
  <2>6. CASE DropFrame(s)
    BY <2>6 DEF DropFrame
  <2>7. CASE Heartbeat(s)
    BY <2>7 DEF Heartbeat
  <2>8. CASE ReceiveReady(s)
    BY <2>8 DEF ReceiveReady
  <2>9. QED
    BY <1>2, <2>1, <2>2, <2>3, <2>4, <2>5, <2>6, <2>7, <2>8 DEF HandleFrame
<1>3. ASSUME NEW s \in Sockets, Resume(s) PROVE DisabledOwnerIsOffline'
  <2>1. CASE ReProveNodeKey(s)
    BY <2>1 DEF ReProveNodeKey
  <2>2. CASE CompleteBinding(s)
    BY <2>2 DEF CompleteBinding
  <2>3. CASE HoldProposal(s)
    BY <2>3 DEF HoldProposal, HoldSocket, HoldConnection, Disowned
  <2>4. CASE RegisterAnswered(s)
    BY <2>4 DEF RegisterAnswered
  <2>5. CASE ApplyReadyLands(s)
    BY <2>5 DEF ApplyReadyLands
  <2>6. CASE ReadyResumes(s)
    BY <2>6 DEF ReadyResumes
  <2>7. CASE ReadyGates(s)
    BY <2>7 DEF ReadyGates, HoldSocket, HoldConnection, Disowned
  <2>8. QED
    BY <1>3, <2>1, <2>2, <2>3, <2>4, <2>5, <2>6, <2>7 DEF Resume
<1>4. ASSUME Plane PROVE DisabledOwnerIsOffline'
  <2> USE DEF Evict, DisconnectNode, Evicted, Disowned
  <2>1. CASE RotateKey
    BY <2>1 DEF RotateKey
  <2>2. CASE RotateEvicts
    BY <2>2 DEF RotateEvicts
  <2>3. CASE DisableOwner
    BY <2>3 DEF DisableOwner
  <2>4. CASE DisableSweeps
    BY <2>4 DEF DisableSweeps
  <2>5. CASE EnableOwner
    BY <2>5 DEF EnableOwner
  <2>6. CASE CloseForRestart
    BY <2>6 DEF CloseForRestart
  <2>7. CASE StaleSweep
    BY <2>7 DEF StaleSweep
  <2>8. CASE PlaneRestarts
    BY <2>8 DEF PlaneRestarts, RegistryReset
  <2>9. QED
    BY <1>4, <2>1, <2>2, <2>3, <2>4, <2>5, <2>6, <2>7, <2>8 DEF Plane
<1>5. CASE UNCHANGED vars
  BY <1>5 DEF vars
<1>6. QED
  BY <1>1, <1>2, <1>3, <1>4, <1>5 DEF Next

\* handleNodeOpen's re-ask closes the window between the gate and the sweep.
THEOREM DisabledSwept == Spec => []DisabledOwnerIsOffline
<1>1. Init => DisabledOwnerIsOffline
  BY DEF Init, DisabledOwnerIsOffline
<1>2. TypeOK /\ DisabledOwnerIsOffline /\ [Next]_vars => DisabledOwnerIsOffline'
  BY DisabledStep
<1> QED
  BY <1>1, <1>2, TypeCorrect, PTL DEF Spec

-----------------------------------------------------------------------------
(* The rotate route against the binding. *)

\* No step establishes, or leaves established, a link on a key the row dropped.
LEMMA KeyStep ==
  ASSUME TypeOK, RegistryInv, KeyInv, [Next]_vars
  PROVE  KeyInv'
<1> USE NoneIsNoSocket DEF KeyInv, ProofStands, EstablishedKeyIsBound,
            RegistryInv, UnopenedIsBlank, TypeOK, RegistryTypeOK
<1> USE DEF Suspend, CloseSocket, Closed, planeVars, sockVars, registryVars
<1>1. ASSUME NEW s \in Sockets, Lifecycle(s) PROVE KeyInv'
  <2>1. CASE Upgrade(s)
    BY <2>1 DEF Upgrade
  <2>2. CASE HandleOpen(s)
    BY <2>2 DEF HandleOpen, AttachConnection, Disowned
  <2>3. CASE OwnerReasked(s)
    BY <2>3 DEF OwnerReasked, Evict, DisconnectNode, Evicted, Disowned
  <2>4. CASE HandleClose(s)
    BY <2>4 DEF HandleClose, LiveAfterDetach, HeldAfterRelease
  <2>5. CASE HandshakeDeadline(s)
    BY <2>5 DEF HandshakeDeadline
  <2>6. CASE HeldIdle(s)
    BY <2>6 DEF HeldIdle, HeldIdleFires
  <2>7. CASE FrameArrives(s)
    BY <2>7 DEF FrameArrives
  <2>8. CASE PeerGone(s)
    BY <2>8 DEF PeerGone
  <2>9. CASE Forget(s)
    BY <2>9 DEF Forget
  <2>10. QED
    BY <1>1, <2>1, <2>2, <2>3, <2>4, <2>5, <2>6, <2>7, <2>8, <2>9 DEF Lifecycle
<1>2. ASSUME NEW s \in Sockets, HandleFrame(s) PROVE KeyInv'
  <2> USE DEF TakeFrame
  <2>1. CASE RefuseFrame(s)
    BY <2>1 DEF RefuseFrame
  <2>2. CASE AcceptKx(s)
    BY <2>2 DEF AcceptKx
  <2>3. CASE ReceiveBinding(s)
    BY <2>3 DEF ReceiveBinding
  <2>4. CASE AcceptRegister(s)
    BY <2>4 DEF AcceptRegister
  <2>5. CASE HoldPlaintextReady(s)
    BY <2>5 DEF HoldPlaintextReady, HoldSocket, HoldConnection, Disowned
  <2>6. CASE DropFrame(s)
    BY <2>6 DEF DropFrame
  <2>7. CASE Heartbeat(s)
    BY <2>7 DEF Heartbeat
  <2>8. CASE ReceiveReady(s)
    BY <2>8 DEF ReceiveReady
  <2>9. QED
    BY <1>2, <2>1, <2>2, <2>3, <2>4, <2>5, <2>6, <2>7, <2>8 DEF HandleFrame
<1>3. ASSUME NEW s \in Sockets, Resume(s) PROVE KeyInv'
  <2>1. CASE ReProveNodeKey(s)
    BY <2>1 DEF ReProveNodeKey
  <2>2. CASE CompleteBinding(s)
    BY <2>2 DEF CompleteBinding
  <2>3. CASE HoldProposal(s)
    BY <2>3 DEF HoldProposal, HoldSocket, HoldConnection, Disowned
  <2>4. CASE RegisterAnswered(s)
    BY <2>4 DEF RegisterAnswered
  <2>5. CASE ApplyReadyLands(s)
    BY <2>5 DEF ApplyReadyLands
  <2>6. CASE ReadyResumes(s)
    BY <2>6 DEF ReadyResumes
  <2>7. CASE ReadyGates(s)
    BY <2>7 DEF ReadyGates, HoldSocket, HoldConnection, Disowned
  <2>8. QED
    BY <1>3, <2>1, <2>2, <2>3, <2>4, <2>5, <2>6, <2>7 DEF Resume
<1>4. ASSUME Plane PROVE KeyInv'
  <2> USE DEF Evict, DisconnectNode, Evicted, Disowned
  <2>1. CASE RotateKey
    BY <2>1 DEF RotateKey
  <2>2. CASE RotateEvicts
    BY <2>2 DEF RotateEvicts
  <2>3. CASE DisableOwner
    BY <2>3 DEF DisableOwner
  <2>4. CASE DisableSweeps
    BY <2>4 DEF DisableSweeps
  <2>5. CASE EnableOwner
    BY <2>5 DEF EnableOwner
  <2>6. CASE CloseForRestart
    BY <2>6 DEF CloseForRestart
  <2>7. CASE StaleSweep
    BY <2>7 DEF StaleSweep
  <2>8. CASE PlaneRestarts
    BY <2>8 DEF PlaneRestarts, RegistryReset
  <2>9. QED
    BY <1>4, <2>1, <2>2, <2>3, <2>4, <2>5, <2>6, <2>7, <2>8 DEF Plane
<1>5. CASE UNCHANGED vars
  BY <1>5 DEF vars
<1>6. QED
  BY <1>1, <1>2, <1>3, <1>4, <1>5 DEF Next

\* reProveNodeKey and the rotate route's eviction leave no established link on
\* a key the row no longer binds.
THEOREM KeySound == Spec => []KeyInv
<1>1. Init => KeyInv
  BY NoneIsNoSocket DEF Init, RegistryInit, KeyInv, ProofStands, EstablishedKeyIsBound
<1>2. TypeOK /\ RegistryInv /\ KeyInv /\ [Next]_vars => KeyInv'
  BY KeyStep
<1> QED
  BY <1>1, <1>2, TypeCorrect, RegistrySound, PTL DEF Spec

\* The invariant by its own name.
COROLLARY EstablishedBound == Spec => []EstablishedKeyIsBound
<1>1. KeyInv => EstablishedKeyIsBound
  BY DEF KeyInv
<1>2. QED
  BY <1>1, KeySound, PTL

-----------------------------------------------------------------------------
(* Fleets where no socket is ever held: the row of a machine in service.     *)

\* The daemons that get as far as a ready pass both of its gates.
FleetIsCurrent == Builds \subseteq {"current", "otherKey"}

\* Of such a fleet no socket is held: a ready is only said on a proved link.
NoneHeld ==
  /\ held = None
  /\ \A s \in Sockets :
       /\ build[s] \in {"current", "otherKey"}
       /\ task[s] # "holdRow"
       /\ said[s] \in {"ready", "heartbeat"} => phase[s] = "established"
       /\ \A i \in 1..Len(inbox[s]) :
             inbox[s][i] \in {"ready", "heartbeat"} => said[s] \in {"ready", "heartbeat"}

\* The row reads online from the landing of the live machine's ready on.
Reported ==
  /\ \A s \in Sockets : wire[s] \in {"new", "upgraded"} => ~accepted[s]
  /\ live # None /\ (accepted[live] \/ task[live] \in {"readyLanded", "gating"}) => row = "online"

\* A frame the socket handler takes was waiting, and the others still do.
LEMMA TakenWaited ==
  ASSUME TypeOK, NEW s \in Sockets, NEW f \in Frames, TakeFrame(s, f)
  PROVE  /\ \E i \in 1..Len(inbox[s]) : inbox[s][i] = f
         /\ \A u \in Sockets : \A i \in 1..Len(inbox'[u]) :
               \E j \in 1..Len(inbox[u]) : inbox[u][j] = inbox'[u][i]
  <1>1. inbox[s] \in Seq(Frames) /\ inbox[s] # <<>> /\ Head(inbox[s]) = f /\ inbox' = [inbox EXCEPT ![s] = Tail(@)]
    BY DEF TypeOK, TakeFrame
  <1>2. 1 \in 1..Len(inbox[s]) /\ inbox[s][1] = f BY <1>1
  <1>3. \A u \in Sockets \ {s} : inbox'[u] = inbox[u] BY <1>1
  <1>4. inbox'[s] = Tail(inbox[s]) BY <1>1 DEF TypeOK
  <1>5. \A i \in 1..Len(Tail(inbox[s])) : i + 1 \in 1..Len(inbox[s]) /\ inbox[s][i + 1] = Tail(inbox[s])[i]
    BY <1>1
  <1>6. \A i \in 1..Len(inbox'[s]) : \E j \in 1..Len(inbox[s]) : inbox[s][j] = inbox'[s][i]
    BY <1>4, <1>5
  <1> QED BY <1>2, <1>3, <1>6

\* No step of such a fleet holds a socket.
LEMMA NoneHeldStep ==
  ASSUME FleetIsCurrent, TypeOK, RegistryInv, NoneHeld, [Next]_vars PROVE NoneHeld'
  <1> USE NoneIsNoSocket DEF NoneHeld, TypeOK, RegistryTypeOK
  <1> USE DEF Suspend, CloseSocket, Closed, planeVars, sockVars, registryVars
  <1>1. ASSUME NEW s \in Sockets, Lifecycle(s) PROVE NoneHeld'
    <2>1. CASE Upgrade(s)
      BY <2>1 DEF Upgrade, FleetIsCurrent, RegistryInv, UnopenedIsBlank
    <2>2. CASE HandleOpen(s)
      BY <2>2 DEF HandleOpen, AttachConnection, Disowned
    <2>3. CASE OwnerReasked(s)
      <3>1. held' = None BY <2>3 DEF OwnerReasked, Evict, DisconnectNode, Evicted
      <3> QED BY <2>3, <3>1 DEF OwnerReasked
    <2>4. CASE HandleClose(s)
      BY <2>4 DEF HandleClose, LiveAfterDetach, HeldAfterRelease
    <2>5. CASE HandshakeDeadline(s)
      BY <2>5 DEF HandshakeDeadline
    <2>6. CASE HeldIdle(s)
      BY <2>6 DEF HeldIdle, HeldIdleFires
    <2>7. CASE FrameArrives(s)
      <3>1. PICK f \in NextFrames(s) : /\ said' = [said EXCEPT ![s] = f]
                                       /\ inbox' = [inbox EXCEPT ![s] = Append(inbox[s], f)]
        BY <2>7 DEF FrameArrives
      <3>2. UNCHANGED <<held, build, task, phase>> BY <2>7 DEF FrameArrives
      <3>3. /\ f \in {"ready", "heartbeat"} => phase[s] = "established"
            /\ said[s] \in {"ready", "heartbeat"} => f = "heartbeat"
        <4>1. ~PlainBuild(build[s]) BY DEF PlainBuild
        <4>2. said[s] \in {"ready", "heartbeat"} => f = "heartbeat" /\ phase[s] = "established"
          BY <3>1 DEF NextFrames
        <4>3. said[s] \in {"nothing", "kx", "binding", "register"} /\ f \in {"ready", "heartbeat"} => phase[s] = "established"
          BY <3>1, <4>1 DEF NextFrames
        <4>4. said[s] \in {"nothing", "kx", "binding", "register", "ready", "heartbeat"} BY DEF Frames
        <4> QED BY <4>2, <4>3, <4>4
      <3>4. \A u \in Sockets \ {s} : inbox'[u] = inbox[u] /\ said'[u] = said[u] BY <3>1
      <3>5. said'[s] = f /\ inbox'[s] = Append(inbox[s], f) /\ inbox[s] \in Seq(Frames) BY <3>1
      <3>6. f \in Frames BY <3>1, NextFramesAreFrames
      <3>7. \A i \in 1..Len(inbox'[s]) : inbox'[s][i] \in {"ready", "heartbeat"} => f \in {"ready", "heartbeat"}
        BY <3>3, <3>5, <3>6
      <3> QED BY <3>2, <3>3, <3>4, <3>5, <3>7
    <2>8. CASE PeerGone(s)
      BY <2>8 DEF PeerGone
    <2>9. CASE Forget(s)
      <3>1. inbox' = inbox /\ inbox[s] = <<>> /\ task' = task /\ held' = held BY <2>9 DEF Forget
      <3>2. Len(inbox[s]) = 0 BY <3>1
      <3> QED BY <2>9, <3>1, <3>2 DEF Forget
    <2>10. QED
      BY <1>1, <2>1, <2>2, <2>3, <2>4, <2>5, <2>6, <2>7, <2>8, <2>9 DEF Lifecycle
  <1>2. ASSUME NEW s \in Sockets, HandleFrame(s) PROVE NoneHeld'
    <2> USE DEF TakeFrame
    <2>1. CASE RefuseFrame(s)
      <3>1. PICK f \in Frames : TakeFrame(s, f) BY <2>1 DEF RefuseFrame
      <3>2. UNCHANGED <<held, build, task, phase, said>> BY <2>1 DEF RefuseFrame
      <3> QED BY <3>1, <3>2, TakenWaited DEF TakeFrame
    <2>2. CASE AcceptKx(s)
      <3>1. TakeFrame(s, "kx") /\ "kx" \in Frames BY <2>2 DEF AcceptKx, Frames
      <3>2. \A u \in Sockets : \A i \in 1..Len(inbox'[u]) :
               \E j \in 1..Len(inbox[u]) : inbox[u][j] = inbox'[u][i]
        BY <3>1, TakenWaited
      <3>3. /\ UNCHANGED <<held, build, said>>
            /\ \A u \in Sockets : /\ task'[u] # "holdRow"
                                  /\ phase[u] = "established" => phase'[u] = "established"
        BY <2>2 DEF AcceptKx
      <3> QED BY <3>2, <3>3
    <2>3. CASE ReceiveBinding(s)
      <3>1. TakeFrame(s, "binding") /\ "binding" \in Frames BY <2>3 DEF ReceiveBinding, Frames
      <3>2. \A u \in Sockets : \A i \in 1..Len(inbox'[u]) :
               \E j \in 1..Len(inbox[u]) : inbox[u][j] = inbox'[u][i]
        BY <3>1, TakenWaited
      <3>3. /\ UNCHANGED <<held, build, said>>
            /\ \A u \in Sockets : /\ task'[u] # "holdRow"
                                  /\ phase[u] = "established" => phase'[u] = "established"
        BY <2>3 DEF ReceiveBinding
      <3> QED BY <3>2, <3>3
    <2>4. CASE AcceptRegister(s)
      <3>1. TakeFrame(s, "register") /\ "register" \in Frames BY <2>4 DEF AcceptRegister, Frames
      <3>2. \A u \in Sockets : \A i \in 1..Len(inbox'[u]) :
               \E j \in 1..Len(inbox[u]) : inbox[u][j] = inbox'[u][i]
        BY <3>1, TakenWaited
      <3>3. /\ UNCHANGED <<held, build, said>>
            /\ \A u \in Sockets : /\ task'[u] # "holdRow"
                                  /\ phase[u] = "established" => phase'[u] = "established"
        BY <2>4 DEF AcceptRegister
      <3> QED BY <3>2, <3>3
    <2>5. CASE HoldPlaintextReady(s)
      <3>1. TakeFrame(s, "ready") /\ "ready" \in Frames BY <2>5 DEF HoldPlaintextReady, Frames
      <3>2. phase[s] = "established" BY <3>1, TakenWaited
      <3> QED BY <2>5, <3>2 DEF HoldPlaintextReady, WouldPass
    <2>6. CASE DropFrame(s)
      <3>1. PICK f \in Frames : TakeFrame(s, f) BY <2>6 DEF DropFrame
      <3>2. UNCHANGED <<held, build, task, phase, said>> BY <2>6 DEF DropFrame
      <3> QED BY <3>1, <3>2, TakenWaited
    <2>7. CASE Heartbeat(s)
      <3>1. TakeFrame(s, "heartbeat") /\ "heartbeat" \in Frames BY <2>7 DEF Heartbeat, Frames
      <3>2. \A u \in Sockets : \A i \in 1..Len(inbox'[u]) :
               \E j \in 1..Len(inbox[u]) : inbox[u][j] = inbox'[u][i]
        BY <3>1, TakenWaited
      <3>3. /\ UNCHANGED <<held, build, said>>
            /\ \A u \in Sockets : /\ task'[u] # "holdRow"
                                  /\ phase[u] = "established" => phase'[u] = "established"
        BY <2>7 DEF Heartbeat
      <3> QED BY <3>2, <3>3
    <2>8. CASE ReceiveReady(s)
      <3>1. TakeFrame(s, "ready") /\ "ready" \in Frames BY <2>8 DEF ReceiveReady, Frames
      <3>2. \A u \in Sockets : \A i \in 1..Len(inbox'[u]) :
               \E j \in 1..Len(inbox[u]) : inbox[u][j] = inbox'[u][i]
        BY <3>1, TakenWaited
      <3>3. /\ UNCHANGED <<held, build, said>>
            /\ \A u \in Sockets : /\ task'[u] # "holdRow"
                                  /\ phase[u] = "established" => phase'[u] = "established"
        BY <2>8 DEF ReceiveReady
      <3> QED BY <3>2, <3>3
    <2>9. QED
      BY <1>2, <2>1, <2>2, <2>3, <2>4, <2>5, <2>6, <2>7, <2>8 DEF HandleFrame
  <1>3. ASSUME NEW s \in Sockets, Resume(s) PROVE NoneHeld'
    <2>1. CASE ReProveNodeKey(s)
      BY <2>1 DEF ReProveNodeKey
    <2>2. CASE CompleteBinding(s)
      <3>1. ProtocolMatches(build[s]) BY DEF ProtocolMatches
      <3> QED BY <2>2, <3>1 DEF CompleteBinding
    <2>3. CASE HoldProposal(s)
      BY <2>3 DEF HoldProposal
    <2>4. CASE RegisterAnswered(s)
      BY <2>4 DEF RegisterAnswered
    <2>5. CASE ApplyReadyLands(s)
      BY <2>5 DEF ApplyReadyLands
    <2>6. CASE ReadyResumes(s)
      BY <2>6 DEF ReadyResumes
    <2>7. CASE ReadyGates(s)
      <3>1. VersionSupported(build[s]) /\ ProtocolMatches(build[s]) BY DEF VersionSupported, ProtocolMatches
      <3> QED BY <2>7, <3>1 DEF ReadyGates
    <2>8. QED
      BY <1>3, <2>1, <2>2, <2>3, <2>4, <2>5, <2>6, <2>7 DEF Resume
  <1>4. ASSUME Plane PROVE NoneHeld'
    <2>1. CASE RotateKey
      BY <2>1 DEF RotateKey
    <2>2. CASE RotateEvicts
      BY <2>2 DEF RotateEvicts, Evict, DisconnectNode, Evicted, Disowned
    <2>3. CASE DisableOwner
      BY <2>3 DEF DisableOwner
    <2>4. CASE DisableSweeps
      BY <2>4 DEF DisableSweeps, Evict, DisconnectNode, Evicted, Disowned
    <2>5. CASE EnableOwner
      BY <2>5 DEF EnableOwner
    <2>6. CASE CloseForRestart
      BY <2>6 DEF CloseForRestart, Evict, DisconnectNode, Evicted, Disowned
    <2>7. CASE StaleSweep
      BY <2>7 DEF StaleSweep
    <2>8. CASE PlaneRestarts
      <3>1. held' = None /\ \A s \in Sockets : inbox'[s] = <<>> BY <2>8 DEF PlaneRestarts, RegistryReset
      <3>2. \A s \in Sockets : Len(inbox'[s]) = 0 BY <3>1
      <3> QED BY <2>8, <3>1, <3>2 DEF PlaneRestarts
    <2>9. QED
      BY <1>4, <2>1, <2>2, <2>3, <2>4, <2>5, <2>6, <2>7, <2>8 DEF Plane
  <1>5. CASE UNCHANGED vars
    BY <1>5 DEF vars
  <1>6. QED
    BY <1>1, <1>2, <1>3, <1>4, <1>5 DEF Next

\* No step leaves a reported machine unreported, or offline with its entry live.
LEMMA ReportedStep ==
  ASSUME FleetIsCurrent, TypeOK, RegistryInv, NoneHeld, Reported, [Next]_vars
  PROVE  Reported' /\ (row = "online" /\ row' = "offline" => live' = None)
  <1> DEFINE Gone == row = "online" /\ row' = "offline" => live' = None
  <1> SUFFICES Reported' /\ Gone OBVIOUS
  <1> USE NoneIsNoSocket DEF NoneHeld, Reported, TypeOK, RegistryTypeOK
  <1> USE DEF Suspend, CloseSocket, Closed, ProjectOffline, RowUntouched, planeVars, sockVars, registryVars
  <1>1. ASSUME NEW s \in Sockets, Lifecycle(s) PROVE Reported' /\ Gone
    <2>1. CASE Upgrade(s)
      BY <2>1 DEF Upgrade
    <2>2. CASE HandleOpen(s)
      BY <2>2 DEF HandleOpen, AttachConnection, RegistryInv, UnopenedIsBlank
    <2>3. CASE OwnerReasked(s)
      BY <2>3 DEF OwnerReasked, Evict, DisconnectNode, Evicted, Disowned
    <2>4. CASE HandleClose(s)
      BY <2>4 DEF HandleClose, LiveAfterDetach, HeldAfterRelease
    <2>5. CASE HandshakeDeadline(s)
      BY <2>5 DEF HandshakeDeadline
    <2>6. CASE HeldIdle(s)
      BY <2>6 DEF HeldIdle, HeldIdleFires
    <2>7. CASE FrameArrives(s)
      BY <2>7 DEF FrameArrives
    <2>8. CASE PeerGone(s)
      BY <2>8 DEF PeerGone
    <2>9. CASE Forget(s)
      BY <2>9 DEF Forget
    <2>10. QED
      BY <1>1, <2>1, <2>2, <2>3, <2>4, <2>5, <2>6, <2>7, <2>8, <2>9 DEF Lifecycle
  <1>2. ASSUME NEW s \in Sockets, HandleFrame(s) PROVE Reported' /\ Gone
    <2> USE DEF TakeFrame
    <2>1. CASE RefuseFrame(s)
      BY <2>1 DEF RefuseFrame
    <2>2. CASE AcceptKx(s)
      BY <2>2 DEF AcceptKx
    <2>3. CASE ReceiveBinding(s)
      BY <2>3 DEF ReceiveBinding
    <2>4. CASE AcceptRegister(s)
      BY <2>4 DEF AcceptRegister
    <2>5. CASE HoldPlaintextReady(s)
      <3>1. TakeFrame(s, "ready") /\ "ready" \in Frames BY <2>5 DEF HoldPlaintextReady, Frames
      <3>2. phase[s] = "established" BY <3>1, TakenWaited
      <3> QED BY <2>5, <3>2 DEF HoldPlaintextReady, WouldPass
    <2>6. CASE DropFrame(s)
      BY <2>6 DEF DropFrame
    <2>7. CASE Heartbeat(s)
      BY <2>7 DEF Heartbeat
    <2>8. CASE ReceiveReady(s)
      BY <2>8 DEF ReceiveReady
    <2>9. QED
      BY <1>2, <2>1, <2>2, <2>3, <2>4, <2>5, <2>6, <2>7, <2>8 DEF HandleFrame
  <1>3. ASSUME NEW s \in Sockets, Resume(s) PROVE Reported' /\ Gone
    <2>1. CASE ReProveNodeKey(s)
      BY <2>1 DEF ReProveNodeKey
    <2>2. CASE CompleteBinding(s)
      BY <2>2 DEF CompleteBinding
    <2>3. CASE HoldProposal(s)
      BY <2>3 DEF HoldProposal
    <2>4. CASE RegisterAnswered(s)
      BY <2>4 DEF RegisterAnswered
    <2>5. CASE ApplyReadyLands(s)
      BY <2>5 DEF ApplyReadyLands
    <2>6. CASE ReadyResumes(s)
      BY <2>6 DEF ReadyResumes
    <2>7. CASE ReadyGates(s)
      <3>1. VersionSupported(build[s]) /\ ProtocolMatches(build[s]) BY DEF VersionSupported, ProtocolMatches
      <3>2. /\ UNCHANGED <<live, wire, row>> /\ task' = [task EXCEPT ![s] = "idle"]
            /\ accepted' = [accepted EXCEPT ![s] = TRUE] /\ task[s] = "gating"
        BY <2>7, <3>1 DEF ReadyGates
      <3>3. wire[s] \notin {"new", "upgraded"} BY <3>2 DEF RegistryInv, UnopenedIsBlank
      <3> QED BY <3>2, <3>3
    <2>8. QED
      BY <1>3, <2>1, <2>2, <2>3, <2>4, <2>5, <2>6, <2>7 DEF Resume
  <1>4. ASSUME Plane PROVE Reported' /\ Gone
    <2>1. CASE RotateKey
      BY <2>1 DEF RotateKey
    <2>2. CASE RotateEvicts
      BY <2>2 DEF RotateEvicts, Evict, DisconnectNode, Evicted, Disowned
    <2>3. CASE DisableOwner
      BY <2>3 DEF DisableOwner
    <2>4. CASE DisableSweeps
      BY <2>4 DEF DisableSweeps, Evict, DisconnectNode, Evicted, Disowned
    <2>5. CASE EnableOwner
      BY <2>5 DEF EnableOwner
    <2>6. CASE CloseForRestart
      BY <2>6 DEF CloseForRestart, Evict, DisconnectNode, Evicted, Disowned
    <2>7. CASE StaleSweep
      BY <2>7 DEF StaleSweep
    <2>8. CASE PlaneRestarts
      BY <2>8 DEF PlaneRestarts, RegistryReset
    <2>9. QED
      BY <1>4, <2>1, <2>2, <2>3, <2>4, <2>5, <2>6, <2>7, <2>8 DEF Plane
  <1>5. CASE UNCHANGED vars
    BY <1>5 DEF vars
  <1>6. QED
    BY <1>1, <1>2, <1>3, <1>4, <1>5 DEF Next

\* Both hold of every behaviour of such a fleet.
LEMMA FleetHolds == ASSUME FleetIsCurrent PROVE Spec => [](NoneHeld /\ Reported)
  <1>1. Init => NoneHeld /\ Reported
    <2> SUFFICES ASSUME Init PROVE NoneHeld /\ Reported OBVIOUS
    <2>1. \A s \in Sockets : Len(inbox[s]) = 0 BY DEF Init
    <2> QED BY <2>1 DEF Init, RegistryInit, NoneHeld, Reported
  <1>2. TypeOK /\ RegistryInv /\ NoneHeld /\ Reported /\ [Next]_vars => (NoneHeld /\ Reported)'
    BY NoneHeldStep, ReportedStep
  <1> QED BY <1>1, <1>2, TypeCorrect, RegistrySound, PTL DEF Spec

\* Of a fleet of current daemons, a machine whose ready was accepted and which
\* still has the live entry reads online: every projection of node-ws-handler.ts,
\* the routes and the sweep empties the entry, or found it empty.
THEOREM AcceptedOnline == ASSUME FleetIsCurrent PROVE Spec => []AcceptedReadsOnline
  <1>1. Reported => AcceptedReadsOnline BY DEF Reported, AcceptedReadsOnline
  <1> QED BY <1>1, FleetHolds, PTL

\* Of such a fleet the row goes offline only by a step that leaves no live socket.
THEOREM OfflineWhenGone == ASSUME FleetIsCurrent PROVE Spec => OfflineOnlyWhenGone
  <1>1. TypeOK /\ RegistryInv /\ NoneHeld /\ Reported /\ [Next]_vars
          => [(row = "online" /\ row' = "offline") => live' = None]_vars
    BY ReportedStep
  <1> QED BY <1>1, FleetHolds, TypeCorrect, RegistrySound, PTL DEF Spec, OfflineOnlyWhenGone
=============================================================================
