---------------------------- MODULE NodeRpcProofs ----------------------------
(* Theorems about NodeRpc, for every set of sockets and commands.            *)
EXTENDS NodeRpc, SequenceTheorems, TLAPS

\* Each registry operation keeps the registry's types.
LEMMA RegistryOperationsType ==
  ASSUME RegistryTypeOK, NEW s \in Sockets, NEW only \in SUBSET Sockets,
         \/ HoldConnection(s)
         \/ AttachConnection(s)
         \/ DisconnectNode(only)
         \/ HeldIdleFires(s)
  PROVE  RegistryTypeOK'
<1> USE DEF RegistryTypeOK, Closed, Disowned, WireStates
<1>1. CASE HoldConnection(s)
  BY <1>1 DEF HoldConnection
<1>2. CASE AttachConnection(s)
  BY <1>2 DEF AttachConnection
<1>3. CASE DisconnectNode(only)
  BY <1>3 DEF DisconnectNode, Evicted
<1>4. CASE HeldIdleFires(s)
  BY <1>4 DEF HeldIdleFires
<1>5. QED
  BY <1>1, <1>2, <1>3, <1>4

\* failConnPendings keeps the types of what it writes.
LEMMA DrainType ==
  ASSUME TypeOK, NEW S \in SUBSET Sockets, FailConnPendings(S)
  PROVE  /\ pending' \in [Sockets -> SUBSET Cmds]
         /\ outcome' \in [Cmds -> Answers \cup {"unissued", "waiting"}]
         /\ stage' \in [Cmds -> Stages]
<1>1. pending' \in [Sockets -> SUBSET Cmds]
  BY DEF TypeOK, FailConnPendings
<1>2. outcome' \in [Cmds -> Answers \cup {"unissued", "waiting"}]
  BY DEF TypeOK, FailConnPendings, Answers
<1>3. stage' \in [Cmds -> Stages]
  BY DEF TypeOK, FailConnPendings, Stages
<1>4. QED
  BY <1>1, <1>2, <1>3

\* Every step keeps the types: a step that signs has a connection to number.
LEMMA TypeStep ==
  ASSUME TypeOK, StepHasCaller, [Next]_vars
  PROVE  TypeOK'
<1> USE DEF TypeOK, rpcVars, registryVars
<1>1. ASSUME NEW s \in Sockets, \/ Open(s) \/ Establish(s) \/ Hold(s) \/ HeldIdle(s)
                                   \/ PeerGone(s) \/ CloseEvent(s)
      PROVE  TypeOK'
  <2>1. CASE Open(s)
    BY <2>1, RegistryOperationsType, Sockets \in SUBSET Sockets DEF Open
  <2>2. CASE Establish(s)
    BY <2>2 DEF Establish, RegistryTypeOK
  <2>3. CASE Hold(s)
    BY <2>3, RegistryOperationsType DEF Hold
  <2>4. CASE HeldIdle(s)
    BY <2>4, RegistryOperationsType DEF HeldIdle
  <2>5. CASE PeerGone(s)
    BY <2>5 DEF PeerGone, RegistryTypeOK, Closed, WireStates
  <2>6. CASE CloseEvent(s)
    <3>1. RegistryTypeOK'
      BY <2>6 DEF CloseEvent, RegistryTypeOK, WireStates, LiveAfterDetach, HeldAfterRelease
    <3>2. QED
      BY <2>6, <3>1, DrainType DEF CloseEvent
  <2>7. QED
    BY <1>1, <2>1, <2>2, <2>3, <2>4, <2>5, <2>6
<1>2. CASE ForcedEvict
  <2>1. PICK only \in SUBSET Sockets : DisconnectNode(only) /\ draining' \subseteq draining \cup Evicted(only)
    BY <1>2 DEF ForcedEvict
  <2>2. PICK s \in Sockets : TRUE
    BY <1>2 DEF ForcedEvict, Evicted
  <2>3. RegistryTypeOK'
    BY <2>1, <2>2, RegistryOperationsType
  <2>4. draining' \subseteq Sockets
    BY <2>1 DEF Evicted
  <2>5. QED
    BY <1>2, <2>3, <2>4 DEF ForcedEvict
<1>3. CASE EvictionDrains
  <2>1. RegistryTypeOK'
    BY <1>3 DEF EvictionDrains, RegistryTypeOK
  <2>2. QED
    BY <1>3, <2>1, DrainType DEF EvictionDrains
<1>4. ASSUME NEW k \in Cmds, \/ SendCommand(k) \/ Step(k) \/ Deadline(k)
                                \/ DaemonReplies(k) \/ ResolveResult(k)
      PROVE  TypeOK'
  <2>0. ASSUME UNCHANGED registryVars PROVE RegistryTypeOK'
    BY <2>0 DEF RegistryTypeOK
  <2>1. CASE SendCommand(k)
    <3>1. Route(k) \in Sockets \cup {None}
      BY DEF Route, RegistryTypeOK
    <3>2. CASE Route(k) = None
      BY <2>0, <2>1, <3>1, <3>2 DEF SendCommand, Refuse, Stages, Answers
    <3>3. CASE Route(k) # None
      <4>1. Append(chain[Route(k)], k) \in Seq(Cmds)
        BY <3>1, <3>3
      <4>2. chain' \in [Sockets -> Seq(Cmds)]
        BY <2>1, <3>1, <3>3, <4>1 DEF SendCommand
      <4>3. stage' \in [Cmds -> Stages] /\ target' \in [Cmds -> Sockets \cup {None}]
        BY <2>1, <3>1, <3>3 DEF SendCommand, Stages
      <4>4. outcome' \in [Cmds -> Answers \cup {"unissued", "waiting"}]
        BY <2>1, <3>1, <3>3 DEF SendCommand
      <4>5. QED
        BY <2>0, <2>1, <4>2, <4>3, <4>4 DEF SendCommand
    <3>4. QED
      BY <3>2, <3>3
  <2>10. ASSUME Runs(k, "queued") \/ Runs(k, "signing"), NextInChain(target[k])
         PROVE  chain' \in [Sockets -> Seq(Cmds)]
    <3>1. ASSUME target[k] \in Sockets PROVE Tail(chain[target[k]]) \in Seq(Cmds)
      BY <2>10, <3>1 DEF Runs
    <3>2. QED
      BY <2>10, <3>1 DEF NextInChain
  <2>2. CASE StepRefused(k)
    <3>1. chain' \in [Sockets -> Seq(Cmds)]
      BY <2>2, <2>10 DEF StepRefused
    <3>2. outcome' \in [Cmds -> Answers \cup {"unissued", "waiting"}]
      BY <2>2 DEF StepRefused, Refuse, Answers
    <3>3. stage' \in [Cmds -> Stages]
      BY <2>2 DEF StepRefused, Refuse, Stages
    <3>4. QED
      BY <2>0, <2>2, <3>1, <3>2, <3>3 DEF StepRefused
  <2>3. CASE StepSigns(k)
    <3>1. target[k] \in Sockets
      BY <2>3 DEF StepSigns, Runs, StepHasCaller
    <3>2. seq' \in [Sockets -> Nat] /\ number' \in [Cmds -> Nat]
      BY <2>3, <3>1 DEF StepSigns
    <3>3. stage' \in [Cmds -> Stages]
      BY <2>3 DEF StepSigns, Stages
    <3>4. QED
      BY <2>0, <2>3, <3>2, <3>3 DEF StepSigns
  <2>4. CASE StepSends(k)
    <3> DEFINE s == target[k]
               frame == [cmd |-> k, seq |-> number[k], sealed |-> link[s]]
    <3>1. chain' \in [Sockets -> Seq(Cmds)]
      BY <2>4, <2>10 DEF StepSends
    <3>2. sent' \in [Sockets -> Seq(FrameRecords)]
      <4>1. CASE s \in Sockets
        <5>1. frame \in FrameRecords
          BY <4>1 DEF FrameRecords
        <5>2. Append(sent[s], frame) \in Seq(FrameRecords)
          BY <4>1, <5>1
        <5> HIDE DEF frame
        <5>3. sent' = sent \/ sent' = [sent EXCEPT ![s] = Append(sent[s], frame)]
          BY <2>4 DEF StepSends, frame
        <5>4. QED
          BY <4>1, <5>2, <5>3
      <4>2. CASE s \notin Sockets
        BY <2>4, <4>2 DEF StepSends
      <4>3. QED
        BY <4>1, <4>2
    <3>3. pending' \in [Sockets -> SUBSET Cmds]
      BY <2>4 DEF StepSends
    <3>4. stage' \in [Cmds -> Stages]
      BY <2>4 DEF StepSends, Stages
    <3>5. QED
      BY <2>0, <2>4, <3>1, <3>2, <3>3, <3>4 DEF StepSends
  <2>5. CASE StepThrows(k)
    <3>1. chain' \in [Sockets -> Seq(Cmds)]
      BY <2>5, <2>10 DEF StepThrows
    <3>2. QED
      BY <2>0, <2>5, <3>1 DEF StepThrows, Stages, Answers
  <2>6. CASE Deadline(k)
    BY <2>0, <2>6 DEF Deadline, Stages, Answers
  <2>7. CASE DaemonReplies(k)
    BY <2>0, <2>7 DEF DaemonReplies
  <2>8. CASE ResolveResult(k)
    BY <2>0, <2>8 DEF ResolveResult, Stages, Answers
  <2>9. QED
    BY <1>4, <2>1, <2>2, <2>3, <2>4, <2>5, <2>6, <2>7, <2>8 DEF Step
<1>5. CASE UNCHANGED vars
  BY <1>5 DEF vars, RegistryTypeOK
<1>6. QED
  BY <1>1, <1>2, <1>3, <1>4, <1>5 DEF Next, Connection

\* Queueing a command leaves the head of a non-empty chain where it was.
LEMMA AppendKeepsHead ==
  ASSUME NEW q \in Seq(Cmds), NEW e \in Cmds, q # <<>>
  PROVE  Append(q, e) # <<>> /\ Head(Append(q, e)) = Head(q)
BY AppendProperties

\* Every step keeps the correspondence of sendCommand's steps, their entries
\* and their callers.
LEMMA ChainStep ==
  ASSUME TypeOK, ChainInv, [Next]_vars
  PROVE  ChainInv'
<1> USE DEF ChainInv, StepHasCaller, SigningIsHead, PendingInv, IssuedInv, TypeOK, RegistryTypeOK
<1> USE DEF rpcVars, registryVars
<1>1. ASSUME NEW s \in Sockets, \/ Open(s) \/ Establish(s) \/ Hold(s) \/ HeldIdle(s)
                                   \/ PeerGone(s) \/ CloseEvent(s)
      PROVE  ChainInv'
  <2>1. CASE Open(s)
    BY <2>1 DEF Open
  <2>2. CASE Establish(s)
    BY <2>2 DEF Establish
  <2>3. CASE Hold(s)
    BY <2>3 DEF Hold
  <2>4. CASE HeldIdle(s)
    BY <2>4 DEF HeldIdle
  <2>5. CASE PeerGone(s)
    BY <2>5 DEF PeerGone
  <2>6. CASE CloseEvent(s)
    BY <2>6 DEF CloseEvent, FailConnPendings
  <2>7. QED
    BY <1>1, <2>1, <2>2, <2>3, <2>4, <2>5, <2>6
<1>2. CASE ForcedEvict
  BY <1>2 DEF ForcedEvict
<1>3. CASE EvictionDrains
  BY <1>3 DEF EvictionDrains, FailConnPendings
<1>4. ASSUME NEW k \in Cmds, \/ SendCommand(k) \/ Step(k) \/ Deadline(k)
                                \/ DaemonReplies(k) \/ ResolveResult(k)
      PROVE  ChainInv'
  <2>1. CASE SendCommand(k)
    <3> DEFINE s == Route(k)
    <3>1. s \in Sockets \cup {None}
      BY DEF Route
    <3> HIDE DEF s
    <3>2. CASE s = None
      <4>1. /\ outcome' = [outcome EXCEPT ![k] = "offline"]
            /\ stage' = [stage EXCEPT ![k] = "done"]
            /\ target' = [target EXCEPT ![k] = None]
            /\ UNCHANGED <<chain, pending>>
            /\ stage[k] = "unissued"
        BY <2>1, <3>2 DEF SendCommand, Refuse, s
      <4>2. \A j \in Cmds : j # k =>
               outcome'[j] = outcome[j] /\ stage'[j] = stage[j] /\ target'[j] = target[j]
        BY <4>1
      <4>3. outcome'[k] = "offline" /\ stage'[k] = "done"
        BY <4>1
      <4>4. StepHasCaller'
        BY <4>2, <4>3
      <4>8. IssuedInv'
        <5> TAKE j \in Cmds
        <5>1. CASE j = k
          BY <4>3, <5>1
        <5>2. CASE j # k
          BY <4>2, <5>2
        <5>3. QED
          BY <5>1, <5>2
      <4>5. SigningIsHead'
        BY <4>1, <4>2, <4>3
      <4>6. PendingInv'
        BY <4>1, <4>2, <4>3
      <4>7. QED
        BY <4>4, <4>5, <4>6, <4>8
    <3>3. CASE s # None
      <4>1. chain' = [chain EXCEPT ![s] = Append(chain[s], k)]
        BY <2>1, <3>3 DEF SendCommand, s
      <4>2. chain[s] # <<>> => Append(chain[s], k) # <<>> /\ Head(Append(chain[s], k)) = Head(chain[s])
        <5>1. chain[s] \in Seq(Cmds)
          BY <3>1, <3>3
        <5>2. ASSUME chain[s] # <<>>
              PROVE  Append(chain[s], k) # <<>> /\ Head(Append(chain[s], k)) = Head(chain[s])
          BY ONLY <5>1, <5>2, k \in Cmds, AppendKeepsHead
        <5>3. QED
          BY <5>2
      <4>3. \A j \in Cmds : target[j] \in Sockets /\ chain[target[j]] # <<>> =>
               chain'[target[j]] # <<>> /\ Head(chain'[target[j]]) = Head(chain[target[j]])
        <5> TAKE j \in Cmds
        <5> HAVE target[j] \in Sockets /\ chain[target[j]] # <<>>
        <5>1. CASE target[j] = s
          <6>1. chain'[s] = Append(chain[s], k)
            BY <3>1, <3>3, <4>1
          <6>2. chain[s] # <<>>
            BY <5>1
          <6>3. chain'[s] # <<>> /\ Head(chain'[s]) = Head(chain[s])
            BY <4>2, <6>1, <6>2
          <6>4. QED
            BY <5>1, <6>3
        <5>2. CASE target[j] # s
          BY <4>1, <5>2
        <5>3. QED
          BY <5>1, <5>2
      <4>4. target' = [target EXCEPT ![k] = s] /\ stage' = [stage EXCEPT ![k] = "queued"]
            /\ outcome' = [outcome EXCEPT ![k] = "waiting"] /\ pending' = pending
            /\ stage[k] = "unissued"
        BY <2>1, <3>3 DEF SendCommand, s
      <4>5. SigningIsHead'
        BY <4>3, <4>4
      <4>6. StepHasCaller'
        <5> TAKE j \in Cmds
        <5>1. CASE j = k
          BY <4>4, <3>1, <3>3, <5>1
        <5>2. CASE j # k
          BY <4>4, <5>2
        <5> QED
          BY <5>1, <5>2
      <4>7. PendingInv'
        BY <4>4
      <4>8. IssuedInv'
        BY <4>4
      <4>9. QED
        BY <4>5, <4>6, <4>7, <4>8
    <3>4. QED
      BY <3>2, <3>3
  <2>2. CASE StepRefused(k)
    BY <2>2 DEF StepRefused, Runs, Refuse, NextInChain
  <2>3. CASE StepSigns(k)
    BY <2>3 DEF StepSigns, Runs, MayCarry
  <2>4. CASE StepSends(k)
    BY <2>4 DEF StepSends, Runs, NextInChain
  <2>5. CASE StepThrows(k)
    BY <2>5 DEF StepThrows, Runs, NextInChain
  <2>6. CASE Deadline(k)
    BY <2>6 DEF Deadline
  <2>7. CASE DaemonReplies(k)
    BY <2>7 DEF DaemonReplies
  <2>8. CASE ResolveResult(k)
    BY <2>8 DEF ResolveResult
  <2>9. QED
    BY <1>4, <2>1, <2>2, <2>3, <2>4, <2>5, <2>6, <2>7, <2>8 DEF Step
<1>5. CASE UNCHANGED vars
  BY <1>5 DEF vars
<1>6. QED
  BY <1>1, <1>2, <1>3, <1>4, <1>5 DEF Next, Connection

\* The state of node-rpc.ts keeps its types, and a pending entry, a step in a
\* connection's chain and a waiting caller always correspond.
THEOREM ChainSound == Spec => [](TypeOK /\ ChainInv)
<1>1. Init => TypeOK
  <2> SUFFICES ASSUME Init PROVE TypeOK
    OBVIOUS
  <2>1. RegistryTypeOK
    BY DEF Init, RegistryInit, RegistryTypeOK, WireStates
  <2>2. <<>> \in Seq(Cmds) /\ <<>> \in Seq(FrameRecords)
    OBVIOUS
  <2>3. chain \in [Sockets -> Seq(Cmds)] /\ sent \in [Sockets -> Seq(FrameRecords)]
    BY <2>2 DEF Init
  <2>4. QED
    BY <2>1, <2>3 DEF Init, TypeOK, Stages, Answers
<1>2. Init => ChainInv
  BY DEF Init, RegistryInit, ChainInv, StepHasCaller, SigningIsHead, PendingInv, IssuedInv
<1>3. TypeOK /\ ChainInv /\ [Next]_vars => TypeOK' /\ ChainInv'
  BY TypeStep, ChainStep DEF ChainInv
<1>4. QED
  BY <1>1, <1>2, <1>3, PTL DEF Spec

\* The state of node-rpc.ts keeps its types.
THEOREM TypeCorrect == Spec => []TypeOK
  BY ChainSound, PTL

\* What was sent are frames.
LEMMA SentAreFrames ==
  ASSUME TypeOK, NEW s \in Sockets, NEW i \in 1..Len(sent[s])
  PROVE  sent[s][i] \in FrameRecords /\ sent[s][i].seq \in Nat
<1>1. sent[s] \in Seq(FrameRecords)
  BY DEF TypeOK
<1>2. sent[s][i] \in FrameRecords
  BY <1>1
<1>3. QED
  BY <1>2 DEF FrameRecords

\* The number a step takes is beyond every number already on its socket.
LEMMA SignsInOrder ==
  ASSUME TypeOK, ChainInv, OrderInv, NEW k \in Cmds, StepSigns(k)
  PROVE  OrderInv'
<1> USE DEF OrderInv, WireOrder
<1> DEFINE s == target[k]
<1>1. s \in Sockets /\ seq[s] \in Nat
  BY DEF StepSigns, Runs, ChainInv, StepHasCaller, TypeOK
<1>2. seq' = [seq EXCEPT ![s] = seq[s] + 1] /\ number' = [number EXCEPT ![k] = seq[s] + 1]
      /\ stage' = [stage EXCEPT ![k] = "signing"] /\ UNCHANGED <<sent, target>>
      /\ s = target[k]
  BY DEF StepSigns
<1> HIDE DEF s
<1>3. \A i \in 1..Len(sent[s]) : sent[s][i].seq \in Nat
  BY <1>1, SentAreFrames
<1>4. \A j \in Cmds : stage[j] = "signing" => target[j] # s
  BY <1>2 DEF StepSigns, Runs, ChainInv, SigningIsHead
<1>5. WireOrder'
  BY <1>2
<1>6. \A r \in Sockets : \A i \in 1..Len(sent[r]) : sent[r][i].seq <= seq'[r]
  <2> TAKE r \in Sockets
  <2> TAKE i \in 1..Len(sent[r])
  <2>1. sent[r][i].seq \in Nat /\ seq[r] \in Nat /\ sent[r][i].seq <= seq[r]
    BY SentAreFrames DEF TypeOK
  <2>2. seq'[r] \in Nat /\ seq[r] <= seq'[r]
    BY <1>1, <1>2, <2>1 DEF TypeOK
  <2>3. QED
    BY <2>1, <2>2
<1>7. \A i \in 1..Len(sent[s]) : sent[s][i].seq < seq[s] + 1
  BY <1>1, <1>3
<1>8. ASSUME NEW j \in Cmds, stage'[j] = "signing"
      PROVE  /\ number'[j] = seq'[target[j]]
             /\ \A i \in 1..Len(sent[target[j]]) : sent[target[j]][i].seq < number'[j]
  <2>1. CASE j = k
    <3>1. number'[j] = seq[s] + 1 /\ seq'[s] = seq[s] + 1
      BY <1>1, <1>2, <2>1 DEF TypeOK
    <3>2. QED
      BY <1>2, <1>7, <2>1, <3>1
  <2>2. CASE j # k
    <3>1. stage[j] = "signing" /\ number'[j] = number[j]
      BY <1>2, <1>8, <2>2 DEF TypeOK
    <3>2. target[j] # s /\ target[j] \in Sockets
      BY <1>4, <3>1 DEF ChainInv, StepHasCaller
    <3>3. seq'[target[j]] = seq[target[j]]
      BY <1>2, <3>2 DEF TypeOK
    <3>4. QED
      BY <3>1, <3>2, <3>3
  <2>3. QED
    BY <2>1, <2>2
<1>9. QED
  BY <1>2, <1>5, <1>6, <1>8

\* The frame a step puts on its socket carries the number it took, the newest.
LEMMA SendsInOrder ==
  ASSUME TypeOK, ChainInv, OrderInv, NEW k \in Cmds, StepSends(k)
  PROVE  OrderInv'
<1> USE DEF OrderInv, WireOrder
<1> DEFINE s == target[k]
           frame == [cmd |-> k, seq |-> number[k], sealed |-> link[s]]
<1>1. s \in Sockets /\ stage[k] = "signing" /\ seq[s] \in Nat /\ Len(sent[s]) \in Nat
  BY DEF StepSends, Runs, ChainInv, StepHasCaller, TypeOK
<1>2. UNCHANGED <<seq, number, target>> /\ stage' = [stage EXCEPT ![k] = "inflight"]
  BY DEF StepSends
<1>3. \A j \in Cmds : stage'[j] = "signing" => stage[j] = "signing" /\ target[j] # s
  BY <1>2 DEF StepSends, Runs, ChainInv, SigningIsHead, TypeOK
<1>4. CASE wire[s] # "open"
  <2>1. sent' = sent
    BY <1>4 DEF StepSends
  <2>2. QED
    BY <1>2, <1>3, <2>1
<1>5. CASE wire[s] = "open"
  <2>1. sent' = [sent EXCEPT ![s] = Append(sent[s], frame)]
    BY <1>5 DEF StepSends
  <2>2. frame.seq = seq[s]
    BY <1>1
  <2>21. sent[s] \in Seq(FrameRecords) /\ frame \in FrameRecords
    BY <1>1 DEF TypeOK, FrameRecords
  <2> HIDE DEF frame
  <2>3. /\ Len(sent'[s]) = Len(sent[s]) + 1
        /\ \A i \in 1..Len(sent[s]) : sent'[s][i] = sent[s][i]
        /\ sent'[s][Len(sent[s]) + 1] = frame
        /\ Len(sent[s]) \in Nat
    BY <1>1, <2>1, <2>21, AppendProperties DEF TypeOK
  <2>4. \A r \in Sockets \ {s} : sent'[r] = sent[r]
    BY <2>1 DEF TypeOK
  <2>5. \A i \in 1..Len(sent[s]) : sent[s][i].seq < seq[s]
    BY <1>1
  <2>6. \A i \in 1..Len(sent'[s]) :
           sent'[s][i].seq <= seq[s] /\ (i \notin 1..Len(sent[s]) => i = Len(sent[s]) + 1)
    <3> TAKE i \in 1..Len(sent'[s])
    <3>1. CASE i \in 1..Len(sent[s])
      BY <1>1, <2>3, <3>1
    <3>2. CASE i \notin 1..Len(sent[s])
      <4>1. i = Len(sent[s]) + 1
        BY <2>3, <3>2
      <4>2. QED
        BY <1>1, <2>2, <2>3, <4>1
    <3>3. QED
      BY <3>1, <3>2
  <2>7. \A i, j \in 1..Len(sent'[s]) : i < j => sent'[s][i].seq < sent'[s][j].seq
    <3> TAKE i, j \in 1..Len(sent'[s])
    <3> HAVE i < j
    <3>1. i \in 1..Len(sent[s])
      BY <2>3
    <3>2. CASE j \in 1..Len(sent[s])
      BY <1>1, <2>3, <3>1, <3>2
    <3>3. CASE j = Len(sent[s]) + 1
      BY <2>2, <2>3, <2>5, <3>1, <3>3
    <3>4. QED
      BY <2>6, <3>2, <3>3
  <2>8. WireOrder'
    BY <2>4, <2>7
  <2>9. \A r \in Sockets : \A i \in 1..Len(sent'[r]) : sent'[r][i].seq <= seq'[r]
    BY <1>2, <2>4, <2>6
  <2>10. \A j \in Cmds : stage'[j] = "signing" =>
           /\ number'[j] = seq'[target'[j]]
           /\ \A i \in 1..Len(sent'[target'[j]]) : sent'[target'[j]][i].seq < number'[j]
    BY <1>2, <1>3, <2>4 DEF ChainInv, StepHasCaller
  <2>11. QED
    BY <2>8, <2>9, <2>10
<1>6. QED
  BY <1>4, <1>5

\* Only a step that signs or sends touches a number, and both keep the order.
LEMMA OrderStep ==
  ASSUME TypeOK, ChainInv, OrderInv, [Next]_vars
  PROVE  OrderInv'
<1> USE DEF OrderInv, WireOrder, ChainInv, StepHasCaller, SigningIsHead, TypeOK, RegistryTypeOK
<1> USE DEF rpcVars, registryVars
<1>1. ASSUME NEW s \in Sockets, \/ Open(s) \/ Establish(s) \/ Hold(s) \/ HeldIdle(s)
                                   \/ PeerGone(s) \/ CloseEvent(s)
      PROVE  OrderInv'
  <2>1. CASE Open(s)
    BY <2>1 DEF Open
  <2>2. CASE Establish(s)
    BY <2>2 DEF Establish
  <2>3. CASE Hold(s)
    BY <2>3 DEF Hold
  <2>4. CASE HeldIdle(s)
    BY <2>4 DEF HeldIdle
  <2>5. CASE PeerGone(s)
    BY <2>5 DEF PeerGone
  <2>6. CASE CloseEvent(s)
    BY <2>6 DEF CloseEvent, FailConnPendings
  <2>7. QED
    BY <1>1, <2>1, <2>2, <2>3, <2>4, <2>5, <2>6
<1>2. CASE ForcedEvict
  BY <1>2 DEF ForcedEvict
<1>3. CASE EvictionDrains
  BY <1>3 DEF EvictionDrains, FailConnPendings
<1>4. ASSUME NEW k \in Cmds, \/ SendCommand(k) \/ Step(k) \/ Deadline(k)
                                \/ DaemonReplies(k) \/ ResolveResult(k)
      PROVE  OrderInv'
  <2>1. CASE SendCommand(k)
    BY <2>1 DEF SendCommand, Route, Refuse
  <2>2. CASE StepRefused(k)
    BY <2>2 DEF StepRefused, Runs, Refuse, NextInChain
  <2>3. CASE StepSigns(k)
    BY <2>3, SignsInOrder
  <2>4. CASE StepSends(k)
    BY <2>4, SendsInOrder
  <2>5. CASE StepThrows(k)
    BY <2>5 DEF StepThrows, Runs, NextInChain
  <2>6. CASE Deadline(k)
    BY <2>6 DEF Deadline
  <2>7. CASE DaemonReplies(k)
    BY <2>7 DEF DaemonReplies
  <2>8. CASE ResolveResult(k)
    BY <2>8 DEF ResolveResult
  <2>9. QED
    BY <1>4, <2>1, <2>2, <2>3, <2>4, <2>5, <2>6, <2>7, <2>8 DEF Step
<1>5. CASE UNCHANGED vars
  BY <1>5 DEF vars
<1>6. QED
  BY <1>1, <1>2, <1>3, <1>4, <1>5 DEF Next, Connection

\* The send chain makes sequence numbers leave in wire order.
THEOREM OrderSound == Spec => []OrderInv
<1>1. Init => OrderInv
  BY DEF Init, RegistryInit, OrderInv, WireOrder
<1>2. TypeOK /\ ChainInv /\ OrderInv /\ [Next]_vars => OrderInv'
  BY OrderStep
<1> QED
  BY <1>1, <1>2, ChainSound, PTL DEF Spec

\* No step puts a plaintext command on a socket whose link is encrypted.
LEMMA SealStep ==
  ASSUME TypeOK, ChainInv, SealInv, [Next]_vars
  PROVE  SealInv'
<1> USE DEF SealInv, EncryptedStaysSealed, ChainInv, StepHasCaller, TypeOK, RegistryTypeOK
<1> USE DEF rpcVars, registryVars
<1>1. ASSUME NEW s \in Sockets, \/ Open(s) \/ Establish(s) \/ Hold(s) \/ HeldIdle(s)
                                   \/ PeerGone(s) \/ CloseEvent(s)
      PROVE  SealInv'
  <2>1. CASE Open(s)
    BY <2>1 DEF Open
  <2>2. CASE Establish(s)
    BY <2>2 DEF Establish
  <2>3. CASE Hold(s)
    BY <2>3 DEF Hold
  <2>4. CASE HeldIdle(s)
    BY <2>4 DEF HeldIdle
  <2>5. CASE PeerGone(s)
    BY <2>5 DEF PeerGone
  <2>6. CASE CloseEvent(s)
    BY <2>6 DEF CloseEvent, FailConnPendings
  <2>7. QED
    BY <1>1, <2>1, <2>2, <2>3, <2>4, <2>5, <2>6
<1>2. CASE ForcedEvict
  BY <1>2 DEF ForcedEvict
<1>3. CASE EvictionDrains
  BY <1>3 DEF EvictionDrains, FailConnPendings
<1>4. ASSUME NEW k \in Cmds, \/ SendCommand(k) \/ Step(k) \/ Deadline(k)
                                \/ DaemonReplies(k) \/ ResolveResult(k)
      PROVE  SealInv'
  <2>1. CASE SendCommand(k)
    BY <2>1 DEF SendCommand, Route, Refuse
  <2>2. CASE StepRefused(k)
    BY <2>2 DEF StepRefused, Runs, Refuse, NextInChain
  <2>3. CASE StepSigns(k)
    BY <2>3 DEF StepSigns, Runs, MayCarry
  <2>4. CASE StepSends(k)
    BY <2>4 DEF StepSends, Runs, NextInChain
  <2>5. CASE StepThrows(k)
    BY <2>5 DEF StepThrows, Runs, NextInChain
  <2>6. CASE Deadline(k)
    BY <2>6 DEF Deadline
  <2>7. CASE DaemonReplies(k)
    BY <2>7 DEF DaemonReplies
  <2>8. CASE ResolveResult(k)
    BY <2>8 DEF ResolveResult
  <2>9. QED
    BY <1>4, <2>1, <2>2, <2>3, <2>4, <2>5, <2>6, <2>7, <2>8 DEF Step
<1>5. CASE UNCHANGED vars
  BY <1>5 DEF vars
<1>6. QED
  BY <1>1, <1>2, <1>3, <1>4, <1>5 DEF Next, Connection

\* The guard inside the step keeps plaintext off an encrypted socket.
THEOREM SealSound == Spec => []SealInv
<1>1. Init => SealInv
  <2> SUFFICES ASSUME Init PROVE SealInv
    OBVIOUS
  <2>1. \A s \in Sockets : Len(sent[s]) = 0
    BY DEF Init
  <2>2. EncryptedStaysSealed
    BY <2>1, CommandsAssumption DEF EncryptedStaysSealed
  <2>3. QED
    BY <2>2 DEF Init, SealInv
<1>2. TypeOK /\ ChainInv /\ SealInv /\ [Next]_vars => SealInv'
  BY SealStep
<1> QED
  BY <1>1, <1>2, ChainSound, PTL DEF Spec

\* failConnPendings settles its connection's waiting callers, and nobody else's.
LEMMA DrainSettles ==
  ASSUME TypeOK, ChainInv, NEW S \in SUBSET Sockets, FailConnPendings(S)
  PROVE  [Caller!PromiseNext]_outcome
<1> DEFINE lost == UNION {pending[s] : s \in S}
<1>1. lost \in SUBSET Cmds
  BY DEF TypeOK
<1>2. \A k \in lost : outcome[k] = "waiting"
  <2> TAKE k \in lost
  <2>1. PICK s \in S : k \in pending[s]
    OBVIOUS
  <2>2. k \in Cmds /\ stage[k] = "inflight"
    BY <2>1 DEF TypeOK, ChainInv, PendingInv
  <2>3. QED
    BY <2>2 DEF ChainInv, PendingInv
<1>3. outcome' = [k \in Cmds |-> IF k \in lost THEN "offline" ELSE outcome[k]]
  BY DEF FailConnPendings
<1> HIDE DEF lost
<1>4. CASE lost = {}
  <2>1. outcome' = outcome
    BY <1>3, <1>4 DEF TypeOK
  <2>2. QED
    BY <2>1
<1>5. CASE lost # {}
  <2>1. Caller!SettleAll(lost)
    BY <1>2, <1>3, <1>5 DEF Caller!SettleAll
  <2>2. QED
    BY <1>1, <2>1 DEF Caller!PromiseNext
<1>6. QED
  BY <1>4, <1>5

\* Every step leaves the answers alone, issues a command or settles waiting ones.
LEMMA PromiseStep ==
  ASSUME TypeOK, ChainInv, [Next]_vars
  PROVE  [Caller!PromiseNext]_outcome
<1>1. ASSUME NEW s \in Sockets, \/ Open(s) \/ Establish(s) \/ Hold(s) \/ HeldIdle(s)
                                   \/ PeerGone(s) \/ CloseEvent(s)
      PROVE  [Caller!PromiseNext]_outcome
  <2>1. CASE CloseEvent(s)
    BY <2>1, DrainSettles DEF CloseEvent
  <2>2. CASE ~CloseEvent(s)
    BY <1>1, <2>2 DEF Open, Establish, Hold, HeldIdle, PeerGone, rpcVars
  <2>3. QED
    BY <2>1, <2>2
<1>2. CASE ForcedEvict
  BY <1>2 DEF ForcedEvict
<1>3. CASE EvictionDrains
  BY <1>3, DrainSettles DEF EvictionDrains, TypeOK
<1>4. ASSUME NEW k \in Cmds, \/ SendCommand(k) \/ Step(k) \/ Deadline(k)
                                \/ DaemonReplies(k) \/ ResolveResult(k)
      PROVE  [Caller!PromiseNext]_outcome
  <2>1. CASE SendCommand(k)
    <3>1. outcome[k] = "unissued"
      BY <2>1 DEF SendCommand, ChainInv, IssuedInv
    <3>2. \/ outcome' = [outcome EXCEPT ![k] = "offline"]
          \/ outcome' = [outcome EXCEPT ![k] = "waiting"]
      BY <2>1 DEF SendCommand, Refuse
    <3>3. Caller!Issue(k)
      BY <3>1, <3>2 DEF Caller!Issue
    <3>4. QED
      BY <3>3 DEF Caller!PromiseNext
  <2>2. CASE StepSigns(k) \/ StepSends(k) \/ DaemonReplies(k)
    BY <2>2 DEF StepSigns, StepSends, DaemonReplies
  <2>3. CASE StepRefused(k) \/ StepThrows(k) \/ Deadline(k) \/ ResolveResult(k)
    <3>1. outcome[k] = "waiting"
      <4>1. CASE StepRefused(k) \/ StepThrows(k)
        BY <4>1 DEF StepRefused, StepThrows, Runs, ChainInv, StepHasCaller
      <4>2. CASE Deadline(k)
        BY <4>2 DEF Deadline, ChainInv, PendingInv
      <4>3. CASE ResolveResult(k)
        BY <4>3 DEF ResolveResult, ChainInv, PendingInv
      <4>4. QED
        BY <2>3, <4>1, <4>2, <4>3
    <3>2. \E o \in Caller!Answers : outcome' = [outcome EXCEPT ![k] = o]
      BY <2>3 DEF StepRefused, Refuse, StepThrows, Deadline, ResolveResult, Caller!Answers
    <3>3. Caller!Settle(k)
      BY <3>1, <3>2 DEF Caller!Settle
    <3>4. QED
      BY <3>3 DEF Caller!PromiseNext
  <2>4. QED
    BY <1>4, <2>1, <2>2, <2>3 DEF Step
<1>5. CASE UNCHANGED vars
  BY <1>5 DEF vars, rpcVars
<1>6. QED
  BY <1>1, <1>2, <1>3, <1>4, <1>5 DEF Next, Connection

\* The command channel implements what callers are promised: every step of
\* node-rpc.ts, of a socket or of a route leaves every answer alone, issues a
\* command, or settles waiting ones for good.
THEOREM KeepsPromise == Spec => Caller!PromiseSafety
<1>1. Init => Caller!PromiseInit
  BY DEF Init, Caller!PromiseInit
<1>2. TypeOK /\ ChainInv /\ [Next]_vars => [Caller!PromiseNext]_outcome
  BY PromiseStep
<1> QED
  BY <1>1, <1>2, ChainSound, PTL DEF Spec, Caller!PromiseSafety

\* The daemon of a connection never sees a sequence number regress.
COROLLARY WireInOrder == Spec => []WireOrder
<1>1. OrderInv => WireOrder
  BY DEF OrderInv
<1>2. QED
  BY <1>1, OrderSound, PTL

\* No plaintext command ever leaves on an encrypted socket.
COROLLARY NoPlaintextOnEncrypted == Spec => []EncryptedStaysSealed
<1>1. SealInv => EncryptedStaysSealed
  BY DEF SealInv
<1>2. QED
  BY <1>1, SealSound, PTL

\* Pending entries and sent, unsettled commands are the same thing.
COROLLARY PendingWaits == Spec => []PendingMeansWaiting
<1>1. TypeOK /\ ChainInv => PendingMeansWaiting
  BY DEF TypeOK, ChainInv, PendingInv, PendingMeansWaiting
<1>2. QED
  BY <1>1, ChainSound, PTL
=============================================================================
