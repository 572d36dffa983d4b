------------------------------- MODULE NodeRpc -------------------------------
(***************************************************************************)
(* The command channel of apps/server/api/src/modules/nodes/node-rpc.ts    *)
(* over the sockets of one node: sendCommand's per-connection chain (queue,*)
(* re-check, sign, register, send), the deadline, resolveResult, and       *)
(* failConnPendings as the close handler and the eviction callers use it.  *)
(*                                                                         *)
(* The registry's own operations are NodeRegistry's.  What NodeLink says   *)
(* about WHEN a socket opens, establishes, is held or is evicted is left   *)
(* free here, so what holds here holds under every schedule of it.         *)
(***************************************************************************)
EXTENDS NodeRegistry, Naturals, Sequences

CONSTANTS
    Cmds,           \* commands the plane may issue
    Updates,        \* those whose type is "update"
    Handshake       \* sockets whose row is pinned (plaintextAllowed = false)

ASSUME CommandsAssumption == Updates \subseteq Cmds /\ Handshake \subseteq Sockets

VARIABLES
    link,       \* link[s]: conn.link is set, commands on s are sealed
    chain,      \* chain[s]: commands queued on conn.sendChain, the head running
    stage,      \* stage[k]: how far k's step has come
    target,     \* target[k]: the connection k was bound to when issued
    seq,        \* seq[s]: conn.seq
    number,     \* number[k]: the sequence number k's step took
    pending,    \* pending[s]: jtis with an entry in conn.pending
    sent,       \* sent[s]: frames put on s, in wire order
    replied,    \* result frames the daemon sent: <<socket, command>>
    draining,   \* connections an eviction's caller is still to drain
    outcome     \* outcome[k]: what the promise of k settled to

rpcVars == <<link, chain, stage, target, seq, number, pending, sent, replied, draining, outcome>>
vars == <<registryVars, rpcVars>>

Stages == {"unissued", "queued", "signing", "inflight", "done"}
Answers == {"ok", "failed", "timeout", "offline"}

\* A frame on the wire: the command, its sequence number, and whether it was
\* sealed.
FrameRecords == [cmd : Cmds, seq : Nat, sealed : BOOLEAN]

TypeOK ==
    /\ RegistryTypeOK
    /\ link \in [Sockets -> BOOLEAN]
    /\ chain \in [Sockets -> Seq(Cmds)]
    /\ stage \in [Cmds -> Stages]
    /\ target \in [Cmds -> Sockets \cup {None}]
    /\ seq \in [Sockets -> Nat]
    /\ number \in [Cmds -> Nat]
    /\ pending \in [Sockets -> SUBSET Cmds]
    /\ sent \in [Sockets -> Seq(FrameRecords)]
    /\ replied \subseteq Sockets \X Cmds
    /\ draining \subseteq Sockets
    /\ outcome \in [Cmds -> Answers \cup {"unissued", "waiting"}]

Init ==
    /\ RegistryInit
    /\ link = [s \in Sockets |-> FALSE]
    /\ chain = [s \in Sockets |-> <<>>]
    /\ stage = [k \in Cmds |-> "unissued"]
    /\ target = [k \in Cmds |-> None]
    /\ seq = [s \in Sockets |-> 0]
    /\ number = [k \in Cmds |-> 0]
    /\ pending = [s \in Sockets |-> {}]
    /\ sent = [s \in Sockets |-> <<>>]
    /\ replied = {}
    /\ draining = {}
    /\ outcome = [k \in Cmds |-> "unissued"]

-----------------------------------------------------------------------------
(* The connection, as node-ws-handler.ts moves it. *)

Open(s) ==
    /\ wire[s] = "new"
    /\ AttachConnection(s)
    /\ UNCHANGED rpcVars

Establish(s) ==
    /\ s \in Handshake
    /\ wire[s] = "open"
    /\ ~link[s]
    /\ link' = [link EXCEPT ![s] = TRUE]
    /\ UNCHANGED <<registryVars, chain, stage, target, seq, number, pending, sent,
                   replied, draining, outcome>>

\* A gate refuses the daemon; a handshake socket is held with its link wired.
\* The gate may answer late: the socket need not be the live one any more.
Hold(s) ==
    /\ wire[s] # "new"
    /\ s \in Handshake => link[s]
    /\ HoldConnection(s)
    /\ UNCHANGED rpcVars

HeldIdle(s) ==
    /\ HeldIdleFires(s)
    /\ UNCHANGED rpcVars

PeerGone(s) ==
    /\ wire[s] = "open"
    /\ wire' = Closed(wire, {s})
    /\ UNCHANGED <<live, held, closing, rpcVars>>

\* Mutant of FailConnPendings: the map is emptied and nobody is told.
DropConnPendings(S) ==
    LET lost == UNION {pending[s] : s \in S}
    IN  /\ pending' = [s \in Sockets |-> IF s \in S THEN {} ELSE pending[s]]
        /\ stage' = [k \in Cmds |-> IF k \in lost THEN "done" ELSE stage[k]]
        /\ UNCHANGED outcome

\* failConnPendings: every entry of the connections S leaves its map and its
\* promise is rejected.
FailConnPendings(S) ==
    LET lost == UNION {pending[s] : s \in S}
    IN  /\ pending' = [s \in Sockets |-> IF s \in S THEN {} ELSE pending[s]]
        /\ outcome' = [k \in Cmds |-> IF k \in lost THEN "offline" ELSE outcome[k]]
        /\ stage' = [k \in Cmds |-> IF k \in lost THEN "done" ELSE stage[k]]

\* handleNodeClose: detach or release, and drain this record either way.
CloseEvent(s) ==
    /\ wire[s] = "closing"
    /\ wire' = [wire EXCEPT ![s] = "closed"]
    /\ live' = LiveAfterDetach(s)
    /\ held' = IF live = s THEN held ELSE HeldAfterRelease(s)
    /\ FailConnPendings({s})
    /\ UNCHANGED <<closing, link, chain, target, seq, number, sent, replied, draining>>

\* A route evicts the node's sockets, or the open handler's re-ask just its own.
\* The caller captured the records it will drain beforehand: the disable sweep
\* both entries, the rotate route the live one only ...
ForcedEvict ==
    \E only \in {Sockets} \cup {{s} : s \in Sockets} :
        /\ Evicted(only) # {}
        /\ DisconnectNode(only)
        /\ \E captured \in {Evicted(only), Evicted(only) \cap {live}} :
              draining' = draining \cup captured
        /\ UNCHANGED <<link, chain, stage, target, seq, number, pending, sent, replied, outcome>>

\* ... and drains them once its projection was awaited.
EvictionDrains ==
    /\ draining # {}
    /\ FailConnPendings(draining)
    /\ draining' = {}
    /\ UNCHANGED <<registryVars, link, chain, target, seq, number, sent, replied>>

-----------------------------------------------------------------------------
(* sendCommand. *)

\* Where a command goes: the live socket, or for an update the held one.
Route(k) == IF live # None THEN live ELSE IF k \in Updates THEN held ELSE None

Refuse(k) ==
    /\ outcome' = [outcome EXCEPT ![k] = "offline"]
    /\ stage' = [stage EXCEPT ![k] = "done"]

SendCommand(k) ==
    /\ stage[k] = "unissued"
    /\ target' = [target EXCEPT ![k] = Route(k)]
    /\ IF Route(k) = None
       THEN Refuse(k) /\ UNCHANGED chain
       ELSE /\ chain' = [chain EXCEPT ![Route(k)] = Append(@, k)]
            /\ stage' = [stage EXCEPT ![k] = "queued"]
            /\ outcome' = [outcome EXCEPT ![k] = "waiting"]
    /\ UNCHANGED <<registryVars, link, seq, number, pending, sent, replied, draining>>

\* Mutant of Runs: no chain, every queued step is free to run.
RunsUnchained(k, where) == stage[k] = where

\* k's step is the one its connection's chain runs now.
Runs(k, where) ==
    /\ stage[k] = where
    /\ chain[target[k]] # <<>>
    /\ Head(chain[target[k]]) = k

\* The chain's `.catch` settles the command and lets the next step run.
NextInChain(s) == chain' = [chain EXCEPT ![s] = Tail(@)]

\* The re-check inside the chain: the connection is neither being closed nor
\* displaced ...
StillOurs(s) == ~closing[s] /\ s \in {live, held}

\* Mutant of MayCarry: a socket whose link is not up yet is taken for a legacy one.
MayCarryUnlinked(s) == StillOurs(s)

\* ... and an encrypted socket has its link.
MayCarry(s) == StillOurs(s) /\ (s \in Handshake => link[s])

StepRefused(k) ==
    /\ Runs(k, "queued")
    /\ ~MayCarry(target[k])
    /\ Refuse(k)
    /\ NextInChain(target[k])
    /\ UNCHANGED <<registryVars, link, target, seq, number, pending, sent, replied, draining>>

\* The step goes on to load the keys, take its sequence number and sign.
StepSigns(k) ==
    /\ Runs(k, "queued")
    /\ MayCarry(target[k])
    /\ seq' = [seq EXCEPT ![target[k]] = @ + 1]
    /\ number' = [number EXCEPT ![k] = seq[target[k]] + 1]
    /\ stage' = [stage EXCEPT ![k] = "signing"]
    /\ UNCHANGED <<registryVars, link, chain, target, pending, sent, replied,
                   draining, outcome>>

\* Signed: arm the deadline, register, send.  Nothing is asked again here.
StepSends(k) ==
    LET s == target[k]
    IN  /\ Runs(k, "signing")
        /\ pending' = [pending EXCEPT ![s] = @ \cup {k}]
        /\ stage' = [stage EXCEPT ![k] = "inflight"]
        /\ sent' = IF wire[s] = "open"
                   THEN [sent EXCEPT ![s] = Append(@, [cmd |-> k, seq |-> number[k],
                                        sealed |-> link[s]])]
                   ELSE sent
        /\ NextInChain(s)
        /\ UNCHANGED <<registryVars, link, target, seq, number, replied, draining, outcome>>

\* Signing or sending throws: the entry is withdrawn and the caller told.
StepThrows(k) ==
    /\ Runs(k, "signing")
    /\ outcome' = [outcome EXCEPT ![k] = "failed"]
    /\ stage' = [stage EXCEPT ![k] = "done"]
    /\ NextInChain(target[k])
    /\ UNCHANGED <<registryVars, link, target, seq, number, pending, sent, replied, draining>>

\* Mutant of Deadline: the entry outlives its promise.
DeadlineKeepsEntry(k) ==
    /\ stage[k] = "inflight"
    /\ k \in pending[target[k]]
    /\ outcome' = [outcome EXCEPT ![k] = "timeout"]
    /\ stage' = [stage EXCEPT ![k] = "done"]
    /\ UNCHANGED <<registryVars, link, chain, target, seq, number, pending, sent,
                   replied, draining>>

\* The deadline, armed when the frame was sent, disarmed by every settlement.
Deadline(k) ==
    /\ stage[k] = "inflight"
    /\ k \in pending[target[k]]
    /\ pending' = [pending EXCEPT ![target[k]] = @ \ {k}]
    /\ outcome' = [outcome EXCEPT ![k] = "timeout"]
    /\ stage' = [stage EXCEPT ![k] = "done"]
    /\ UNCHANGED <<registryVars, link, chain, target, seq, number, sent, replied, draining>>

\* The daemon answers over the socket that brought the command.
DaemonReplies(k) ==
    /\ \E s \in Sockets :
          /\ wire[s] = "open"
          /\ <<s, k>> \notin replied
          /\ \E i \in 1..Len(sent[s]) : sent[s][i].cmd = k
          /\ replied' = replied \cup {<<s, k>>}
    /\ UNCHANGED <<registryVars, link, chain, stage, target, seq, number, pending, sent,
                   draining, outcome>>

\* resolveResult: only the pending map of the connection the frame came on; a
\* result that comes late finds nothing.
ResolveResult(k) ==
    /\ \E s \in Sockets :
          /\ <<s, k>> \in replied
          /\ k \in pending[s]
          /\ pending' = [pending EXCEPT ![s] = @ \ {k}]
    /\ \E o \in {"ok", "failed"} : outcome' = [outcome EXCEPT ![k] = o]
    /\ stage' = [stage EXCEPT ![k] = "done"]
    /\ UNCHANGED <<registryVars, link, chain, target, seq, number, sent, replied, draining>>

-----------------------------------------------------------------------------
Connection ==
    \/ \E s \in Sockets : Open(s) \/ Establish(s) \/ Hold(s) \/ HeldIdle(s)
                            \/ PeerGone(s) \/ CloseEvent(s)
    \/ ForcedEvict
    \/ EvictionDrains

Step(k) == StepRefused(k) \/ StepSigns(k) \/ StepSends(k) \/ StepThrows(k)

Next ==
    \/ Connection
    \/ \E k \in Cmds : SendCommand(k) \/ Step(k) \/ Deadline(k)
                         \/ DaemonReplies(k) \/ ResolveResult(k)

Spec == Init /\ [][Next]_vars

\* The event loop runs the head of a chain; a deadline that is armed fires.
Fairness == \A k \in Cmds : WF_vars(Step(k)) /\ WF_vars(Deadline(k))

FairSpec == Spec /\ Fairness

-----------------------------------------------------------------------------
(* Properties. *)

\* Sequence numbers leave in wire order: the daemon drops a connection on which
\* one regresses, so two overlapping sends must never swap.
WireOrder ==
    \A s \in Sockets : \A i, j \in 1..Len(sent[s]) :
        i < j => sent[s][i].seq < sent[s][j].seq

\* An encrypted socket never carries a plaintext command, not even from a step
\* that was queued before its link was up.
EncryptedStaysSealed ==
    \A s \in Handshake : \A i \in 1..Len(sent[s]) : sent[s][i].sealed

\* A pending entry and an unsettled, sent command are the same thing: nobody
\* waits without an entry that can settle them, no entry outlives its promise.
PendingMeansWaiting ==
    \A k \in Cmds :
        /\ stage[k] = "inflight" <=> \E s \in Sockets : k \in pending[s]
        /\ stage[k] = "inflight" => outcome[k] = "waiting" /\ k \in pending[target[k]]

\* The channel implements the promise made to callers.
Caller == INSTANCE CommandPromise WITH Cmds <- Cmds, outcome <- outcome
CallersPromise == Caller!Promise
-----------------------------------------------------------------------------
(* The inductive strengthening the proofs rest on. *)

\* A command whose step is queued or running has a connection and a caller.
StepHasCaller ==
    \A k \in Cmds : stage[k] \in {"queued", "signing"} =>
        target[k] \in Sockets /\ outcome[k] = "waiting"

\* A command being signed is the head of its connection's chain.
SigningIsHead ==
    \A k \in Cmds : stage[k] = "signing" =>
        /\ chain[target[k]] # <<>>
        /\ Head(chain[target[k]]) = k

\* Entries and in-flight commands correspond.
PendingInv ==
    /\ \A k \in Cmds : stage[k] = "inflight" =>
          target[k] \in Sockets /\ k \in pending[target[k]] /\ outcome[k] = "waiting"
    /\ \A s \in Sockets : \A k \in pending[s] : stage[k] = "inflight" /\ target[k] = s

\* A promise exists exactly from the call on.
IssuedInv == \A k \in Cmds : stage[k] = "unissued" <=> outcome[k] = "unissued"

ChainInv == StepHasCaller /\ SigningIsHead /\ PendingInv /\ IssuedInv

\* No frame on a socket outruns its counter, and the command being signed
\* holds the newest number.
OrderInv ==
    /\ WireOrder
    /\ \A s \in Sockets : \A i \in 1..Len(sent[s]) : sent[s][i].seq <= seq[s]
    /\ \A k \in Cmds : stage[k] = "signing" =>
          /\ number[k] = seq[target[k]]
          /\ \A i \in 1..Len(sent[target[k]]) : sent[target[k]][i].seq < number[k]

\* A step past the re-check holds its link.
SealInv ==
    /\ EncryptedStaysSealed
    /\ \A k \in Cmds : stage[k] = "signing" /\ target[k] \in Handshake => link[target[k]]
=============================================================================
