---------------------------- MODULE NodeRegistry ----------------------------
(***************************************************************************)
(* The control plane's registry of node sockets,                           *)
(* apps/server/api/src/modules/nodes/node-registry.ts, for ONE node.       *)
(*                                                                         *)
(* Both maps of the file are keyed by node id and no operation reads or    *)
(* writes another node's entry, so one node with several sockets is the    *)
(* whole registry: a fleet is an independent product of copies of it.      *)
(* A socket and the NodeConnection record that attachConnection makes for  *)
(* it are one and the same element of Sockets.                             *)
(*                                                                         *)
(* The module holds no Next of its own.  The socket handler (NodeLink) and *)
(* the command channel (NodeRpc) extend it and call its operations, as     *)
(* node-ws-handler.ts and node-rpc.ts import the file.                     *)
(***************************************************************************)
CONSTANTS
    Sockets,    \* websocket connections the node's daemon may ever dial
    None        \* "no entry in the map"

ASSUME NoneIsNoSocket == None \notin Sockets

VARIABLES
    live,       \* the `live` map's entry: a socket or None
    held,       \* the `held` map's entry: a socket or None
    closing,    \* closing[s]: the record's `closing` flag, set by an eviction
    wire        \* wire[s]: the websocket under the record

registryVars == <<live, held, closing, wire>>

(***************************************************************************)
(* A websocket is dialed ("new"), passes the upgrade gate ("upgraded"),    *)
(* opens ("open"), has its closure begun by either end ("closing"), and is *)
(* gone once the server's close event was dispatched ("closed").           *)
(***************************************************************************)
WireStates == {"new", "upgraded", "open", "closing", "closed"}

RegistryTypeOK ==
    /\ live \in Sockets \cup {None}
    /\ held \in Sockets \cup {None}
    /\ closing \in [Sockets -> BOOLEAN]
    /\ wire \in [Sockets -> WireStates]

RegistryInit ==
    /\ live = None
    /\ held = None
    /\ closing = [s \in Sockets |-> FALSE]
    /\ wire = [s \in Sockets |-> "new"]

(***************************************************************************)
(* ws.close(): it begins the closure of an open socket and is a no-op (or  *)
(* a swallowed throw) on one that is already going or gone.                *)
(***************************************************************************)
Closed(w, gone) ==
    [s \in Sockets |-> IF s \in gone /\ w[s] = "open" THEN "closing" ELSE w[s]]

Disowned(flags, gone) == [s \in Sockets |-> flags[s] \/ s \in gone]

\* holdConnection: live gives the record up if it has it, any OTHER held
\* record is superseded, and the idle timer is armed with the new entry.
HoldConnection(s) ==
    LET superseded == {held} \ {None, s}
    IN  /\ live' = IF live = s THEN None ELSE live
        /\ held' = s
        /\ closing' = Disowned(closing, superseded)
        /\ wire' = Closed(wire, superseded)

\* The idle timer's callback: it drops its own entry, then closes the socket.
\* The timer is armed exactly as long as the entry stands.
HeldIdleFires(s) ==
    /\ held = s
    /\ held' = None
    /\ wire' = Closed(wire, {s})
    /\ UNCHANGED <<live, closing>>

\* releaseHeld, identity-guarded.
HeldAfterRelease(s) == IF held = s THEN None ELSE held

\* detachConnection, identity-guarded.
LiveAfterDetach(s) == IF live = s THEN None ELSE live

\* Mutant of AttachConnection: the sockets that lost their entry stay open.
AttachLeavesSuperseded(s) ==
    LET superseded == {held, live} \ {None, s}
    IN  /\ live' = s
        /\ held' = IF held = s THEN held ELSE None
        /\ closing' = Disowned(closing, superseded)
        /\ wire' = [wire EXCEPT ![s] = "open"]

\* attachConnection: the newest socket wins over the held and the live one.
AttachConnection(s) ==
    LET superseded == {held, live} \ {None, s}
    IN  /\ live' = s
        /\ held' = IF held = s THEN held ELSE None
        /\ closing' = Disowned(closing, superseded)
        /\ wire' = [Closed(wire, superseded) EXCEPT ![s] = "open"]

\* What disconnectNode evicts, `only` being every socket or just one.
Evicted(only) == {held, live} \cap only

\* disconnectNode's synchronous half: it empties the maps of its targets and
\* closes them.  The caller's projection follows in the same turn.
DisconnectNode(only) ==
    LET gone == Evicted(only)
    IN  /\ live' = IF live \in gone THEN None ELSE live
        /\ held' = IF held \in gone THEN None ELSE held
        /\ closing' = Disowned(closing, gone)
        /\ wire' = Closed(wire, gone)

\* A new process begins with empty maps and no socket.
RegistryReset ==
    /\ live' = None
    /\ held' = None
    /\ closing' = [s \in Sockets |-> FALSE]
    /\ wire' = [s \in Sockets |-> "new"]
=============================================================================
