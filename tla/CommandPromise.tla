--------------------------- MODULE CommandPromise ---------------------------
(***************************************************************************)
(* What sendCommand of node-rpc.ts promises its callers: every command     *)
(* issued is answered, once, and the answer never changes.                 *)
(***************************************************************************)
CONSTANT Cmds       \* the commands callers may issue

VARIABLE outcome    \* outcome[k]: what the caller of k has been told

\* NodeRpcErrorCode and success ("unsupported" is a spelling of "failed").
Answers == {"ok", "failed", "timeout", "offline"}

PromiseTypeOK == outcome \in [Cmds -> Answers \cup {"unissued", "waiting"}]

PromiseInit == outcome = [k \in Cmds |-> "unissued"]

\* The command is refused on the spot or a promise is handed out.
Issue(k) ==
    /\ outcome[k] = "unissued"
    /\ \E o \in {"waiting", "offline"} : outcome' = [outcome EXCEPT ![k] = o]

Settle(k) ==
    /\ outcome[k] = "waiting"
    /\ \E o \in Answers : outcome' = [outcome EXCEPT ![k] = o]

\* One event may settle several commands (a closed socket drains them all).
SettleAll(K) ==
    /\ K # {}
    /\ \A k \in K : outcome[k] = "waiting"
    /\ outcome' = [k \in Cmds |-> IF k \in K THEN "offline" ELSE outcome[k]]

PromiseNext ==
    \/ \E k \in Cmds : Issue(k) \/ Settle(k)
    \/ \E K \in SUBSET Cmds : SettleAll(K)

PromiseSafety == PromiseInit /\ [][PromiseNext]_outcome

Promise ==
    /\ PromiseSafety
    /\ \A k \in Cmds : WF_outcome(Settle(k))
=============================================================================
