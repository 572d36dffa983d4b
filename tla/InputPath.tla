------------------------------ MODULE InputPath ------------------------------
(***************************************************************************)
(* The way of a keystroke from the page to the pane: the browser's queue   *)
(* (web/src/lib/input-queue.ts), the message handler of                    *)
(* api/ws/subshell-ws.ts, the holds of api/ws/input-hold.ts, their budget  *)
(* (input-budget.ts) and the window of completed ids (input-window.ts).    *)
(*                                                                         *)
(* A frame is its id.  Every session is one page whose &sid= outlives its  *)
(* sockets; a socket is used once.  All panes are on one agent node.       *)
(***************************************************************************)
EXTENDS Naturals, Sequences, FiniteSets, FiniteSetsExt, SequencesExt

CONSTANTS
    Sessions,       \* pages, by their &sid=
    Sockets,        \* browser sockets, each opened at most once
    None,           \* no socket
    Owner,          \* Owner[k]: the page that opens socket k
    MaxId,          \* frames a page may type (a bound)
    Quotas,         \* how the frames may be spread over the pages (a bound)
    Inflight,       \* INFLIGHT_MAX
    MaxPending,     \* MAX_PENDING
    NodeCap,        \* INPUT_NODE_MAX_FRAMES
    Window,         \* WINDOW_SIZE
    MaxFaults       \* write failures and link drops that may happen (a bound)

ASSUME NoneAssumption == None \notin Sockets
ASSUME SessionsAssumption == IsFiniteSet(Sessions)
ASSUME OwnerAssumption == Owner \in [Sockets -> Sessions]
ASSUME BoundsAssumption ==
    /\ MaxId \in Nat
    /\ Quotas \subseteq [Sessions -> 0..MaxId]
    /\ {Inflight, MaxPending, NodeCap, Window} \subseteq Nat \ {0}
    /\ MaxFaults \in Nat

VARIABLES
    quota,      \* quota[s]: what the page of s will type, chosen at the start
    typed,      \* typed[s]: nextId of the page's queue
    pending,    \* pending[s]: ids the page has not retired
    sent,       \* sent[s]: those of them that left at least once
    sock,       \* sock[s]: the page's attached socket
    status,     \* status[k]: the plane's view ("refused" is inputClosed)
    inbox,      \* inbox[k]: frames on their way to the plane
    hold,       \* hold[s]: the SessionHold, its queue and its drain guard
    window,     \* window[s]: IdWindow.order
    used,       \* frames charged to the node's share of the budget
    up,         \* the node's connection is live
    calls,      \* sendInput commands, in the order of the node's input chain
    pane,       \* pane[s]: ids the pane was written with, in order
    faults,     \* history: faults so far
    moved,      \* history: sessions that lost a socket
    dropped,    \* history: ids the page's own cap made it forget
    doubted,    \* history: ids with a write whose outcome the plane misread
    stranded    \* history: ids whose hold was lost under a live socket

client == <<quota, typed, pending, sent, sock>>
wire == <<status, inbox>>
plane == <<hold, window, used>>
history == <<faults, moved, dropped, doubted, stranded>>
vars == <<client, wire, plane, up, calls, pane, history>>

Ids == 1..MaxId
Entry == [id : Ids, sock : Sockets]

\* via: the message handler's write, the drain's, or the drain's of a hold
\* that was dropped meanwhile.
Call == [sess : Sessions, id : Ids, sock : Sockets,
         via : {"fresh", "drain", "dropped"}, waiting : BOOLEAN, written : BOOLEAN]

NoHold == [queue |-> <<>>, draining |-> FALSE]

TypeOK ==
    /\ quota \in Quotas
    /\ typed \in [Sessions -> 0..MaxId]
    /\ pending \in [Sessions -> SUBSET Ids]
    /\ sent \in [Sessions -> SUBSET Ids]
    /\ sock \in [Sessions -> Sockets \cup {None}]
    /\ status \in [Sockets -> {"unused", "open", "refused", "closed"}]
    /\ inbox \in [Sockets -> Seq(Ids)]
    /\ hold \in [Sessions -> [queue : Seq(Entry), draining : BOOLEAN]]
    /\ window \in [Sessions -> Seq(Ids)]
    /\ \A s \in Sessions : Len(window[s]) <= Window /\ Cardinality(pending[s]) <= MaxPending
    /\ used \in Nat
    /\ up \in BOOLEAN
    /\ calls \in Seq(Call)
    /\ pane \in [Sessions -> Seq(Ids)]
    /\ faults \in Nat
    /\ moved \subseteq Sessions
    /\ dropped \in [Sessions -> SUBSET Ids]
    /\ doubted \in [Sessions -> SUBSET Ids]
    /\ stranded \in [Sessions -> SUBSET Ids]

Init ==
    /\ quota \in Quotas
    /\ typed = [s \in Sessions |-> 0]
    /\ pending = [s \in Sessions |-> {}]
    /\ sent = [s \in Sessions |-> {}]
    /\ sock = [s \in Sessions |-> None]
    /\ status = [k \in Sockets |-> "unused"]
    /\ inbox = [k \in Sockets |-> <<>>]
    /\ hold = [s \in Sessions |-> NoHold]
    /\ window = [s \in Sessions |-> <<>>]
    /\ used = 0
    /\ up = TRUE
    /\ calls = <<>>
    /\ pane = [s \in Sessions |-> <<>>]
    /\ faults = 0 /\ moved = {}
    /\ dropped = [s \in Sessions |-> {}]
    /\ doubted = [s \in Sessions |-> {}]
    /\ stranded = [s \in Sessions |-> {}]

-----------------------------------------------------------------------------
(* The page's queue. *)

\* (Mutant: the re-send takes the newest first.)
NewestFirst(S) ==
    CHOOSE q \in [1..Cardinality(S) -> S] : \A m, n \in DOMAIN q : m < n => q[m] > q[n]

InOrder(S) ==
    CHOOSE q \in [1..Cardinality(S) -> S] : \A m, n \in DOMAIN q : m < n => q[m] < q[n]

Oldest(n, S) == {i \in S : Cardinality({j \in S : j < i}) < n}

\* flushUpToCap: the unsent frames that leave next.
Flushable(unretired, left) ==
    IF Cardinality(left) >= Inflight THEN {}
    ELSE Oldest(Inflight - Cardinality(left), unretired \ left)

\* enqueue: alone it leaves at once, otherwise it joins the backlog.  Past
\* MAX_PENDING the oldest frame is forgotten (track).
Type(s) ==
    LET id  == typed[s] + 1
        all == pending[s] \cup {id}
        old == IF Cardinality(all) > MaxPending THEN Oldest(1, all) ELSE {}
        out == IF pending[s] = {} /\ sock[s] # None THEN {id} ELSE {}
    IN  /\ typed[s] < quota[s]
        /\ typed' = [typed EXCEPT ![s] = id]
        /\ pending' = [pending EXCEPT ![s] = all \ old]
        /\ sent' = [sent EXCEPT ![s] = (@ \cup out) \ old]
        /\ dropped' = [dropped EXCEPT ![s] = @ \cup old]
        /\ inbox' = IF out = {} THEN inbox ELSE [inbox EXCEPT ![sock[s]] = Append(@, id)]
        /\ UNCHANGED <<quota, sock, status, plane, up, calls, pane, faults, moved, doubted, stranded>>

\* The coalesce window expires.
WindowFires(s) ==
    /\ sock[s] # None
    /\ Flushable(pending[s], sent[s]) # {}
    /\ LET next == Flushable(pending[s], sent[s]) IN
          /\ sent' = [sent EXCEPT ![s] = @ \cup next]
          /\ inbox' = [inbox EXCEPT ![sock[s]] = @ \o InOrder(next)]
    /\ UNCHANGED <<quota, typed, pending, sock, status, plane, up, calls, pane, history>>

\* (Mutant: the freed slot's frame is marked sent whether it left or not.)
AckMarksOnly(s, k, id, box) ==
    /\ inbox' = box
    /\ IF sock[s] = k /\ status[k] = "open"
       THEN LET left == sent[s] \ {id} IN
            /\ pending' = [pending EXCEPT ![s] = @ \ {id}]
            /\ sent' = [sent EXCEPT ![s] = left \cup Flushable(pending[s] \ {id}, left)]
       ELSE UNCHANGED <<pending, sent>>

\* sendToSocket's ack, with the plane's view of the wire in box.  A page that
\* left k, or a socket the plane closed, does not get it; otherwise the id is
\* retired and the freed slot is used.  (Its travel is not a step of its own: a
\* page that acts before the ack arrives might as well have acted before it
\* left.)
Ack(s, k, id, box) ==
    IF sock[s] = k /\ status[k] = "open"
    THEN LET left == sent[s] \ {id}
             next == Flushable(pending[s] \ {id}, left)
         IN  /\ pending' = [pending EXCEPT ![s] = @ \ {id}]
             /\ sent' = [sent EXCEPT ![s] = left \cup next]
             /\ inbox' = [box EXCEPT ![k] = @ \o InOrder(next)]
    ELSE inbox' = box /\ UNCHANGED <<pending, sent>>

\* A fresh socket attaches; its first frame makes the page re-send everything
\* it ever sent, uncapped and in id order, then fill the free slots.
Attach(s, k) ==
    /\ quota[s] > 0
    /\ sock[s] = None
    /\ Owner[k] = s
    /\ status[k] = "unused"
    /\ sock' = [sock EXCEPT ![s] = k]
    /\ status' = [status EXCEPT ![k] = "open"]
    /\ LET next == Flushable(pending[s], sent[s]) IN
          /\ sent' = [sent EXCEPT ![s] = @ \cup next]
          /\ inbox' = [inbox EXCEPT ![k] = InOrder(sent[s]) \o InOrder(next)]
    /\ stranded' = [stranded EXCEPT ![s] = {}]
    /\ UNCHANGED <<quota, typed, pending, plane, up, calls, pane, faults, moved, dropped, doubted>>

\* The page loses its socket, or learns that the plane closed it.  The plane
\* may not know yet.  (Bound: a page keeps the last socket it has, unless the
\* plane closed that.)
PageLosesSocket(s) ==
    /\ sock[s] # None
    /\ \/ status[sock[s]] # "open"
       \/ \E k \in Sockets : Owner[k] = s /\ status[k] = "unused"
    /\ sock' = [sock EXCEPT ![s] = None]
    /\ moved' = moved \cup {s}
    /\ UNCHANGED <<quota, typed, pending, sent, status, inbox, plane, up, calls, pane,
                   faults, dropped, doubted, stranded>>

-----------------------------------------------------------------------------
(* The plane's holds, their drain and the budget. *)

\* (Mutant: the window is trimmed one id late.)
RememberOneMore(w, id) ==
    IF Contains(w, id) THEN w
    ELSE IF Len(w) <= Window THEN Append(w, id) ELSE Append(Tail(w), id)

\* (Mutant: a full window takes no more.)
RememberUntilFull(w, id) ==
    IF Contains(w, id) \/ Len(w) = Window THEN w ELSE Append(w, id)

Remember(w, id) ==
    IF Contains(w, id) THEN w
    ELSE IF Len(w) < Window THEN Append(w, id) ELSE Append(Tail(w), id)

Forgets(w, id) == ToSet(w) \ ToSet(Remember(w, id))

\* Ids the plane may still be asked to write: the page holds them, or a copy
\* is on the wire.
Outstanding(s) == pending[s] \cup UNION {ToSet(inbox[k]) : k \in {x \in Sockets : Owner[x] = s}}

Dispatch(s, e, via) ==
    [sess |-> s, id |-> e.id, sock |-> e.sock, via |-> via, waiting |-> TRUE, written |-> FALSE]

\* The entries of s whose loss leaves the page's live socket without them.
Strands(s, entries) == {e.id : e \in {x \in entries : x.sock = sock[s]}}

\* drain's loop up to its next await: the entries of a refused socket are
\* released, the first other one is written again.
Servable(q) == LET ok == {i \in DOMAIN q : status[q[i].sock] = "open"}
               IN  IF ok = {} THEN <<>> ELSE SubSeq(q, Min(ok), Len(q))

Draining(s, q) == [queue |-> Servable(q), draining |-> Servable(q) # <<>>]
Refires(s, q) == IF Servable(q) = <<>> THEN <<>> ELSE <<Dispatch(s, Head(Servable(q)), "drain")>>
Purged(q) == Len(q) - Len(Servable(q))

\* drain(hold): a no-op while the hold's drain runs.
Kick(s, q, cs, charge) ==
    IF hold[s].draining
    THEN /\ hold' = [hold EXCEPT ![s].queue = q]
         /\ calls' = cs
         /\ used' = charge
    ELSE /\ hold' = [hold EXCEPT ![s] = Draining(s, q)]
         /\ calls' = cs \o Refires(s, q)
         /\ used' = charge - Purged(q)

\* (Mutant: the entry being written is released with the others.)
DropHoldAll(s, cs, charge) ==
    /\ hold' = [hold EXCEPT ![s] = NoHold]
    /\ calls' = [j \in DOMAIN cs |->
                   IF cs[j].sess = s /\ cs[j].via = "drain" THEN [cs[j] EXCEPT !.via = "dropped"]
                   ELSE cs[j]]
    /\ used' = charge - Len(hold[s].queue)

\* dropInputHolds: the entry being written is left to its drain.
DropHold(s, cs, charge) ==
    LET h == hold[s] IN
    /\ hold' = [hold EXCEPT ![s] = NoHold]
    /\ calls' = [j \in DOMAIN cs |->
                   IF cs[j].sess = s /\ cs[j].via = "drain" THEN [cs[j] EXCEPT !.via = "dropped"]
                   ELSE cs[j]]
    /\ used' = charge - (IF h.draining THEN Len(h.queue) - 1 ELSE Len(h.queue))

\* holdFailedInput on a socket that still takes input.  An id that is already
\* held keeps the entry it has, with the socket that one came on.
HoldFailed(s, e, cs, charge) ==
    LET q    == hold[s].queue
        held == {x \in ToSet(q) : x.id = e.id}
    IN  \/ /\ held # {}
           /\ Kick(s, q, cs, charge)
           /\ stranded' = [stranded EXCEPT ![s] = @ \cup
                             (IF e \in held THEN {} ELSE Strands(s, {e}))]
        \/ /\ held = {}
           /\ charge < NodeCap
           /\ Kick(s, Append(q, e), cs, charge + 1)
           /\ UNCHANGED stranded

\* The budget is full: the socket pays, and the session's holds go with it.
\* (A write that failed gave its own charge back first, so only a frame that
\* joins a hold can meet this.)
HoldOverflows(s, e) ==
    /\ e.id \notin {x.id : x \in ToSet(hold[s].queue)}
    /\ used >= NodeCap
    /\ status' = [status EXCEPT ![e.sock] = "refused"]
    /\ DropHold(s, calls, used)
    /\ stranded' = [stranded EXCEPT ![s] = @ \cup Strands(s, ToSet(hold[s].queue))]

-----------------------------------------------------------------------------
(* The message handler. *)

Frame(k) == [id |-> Head(inbox[k]), sock |-> k]

\* A frame is on the handler's desk, on a socket that still takes input.
Takes(k) ==
    /\ inbox[k] # <<>>
    /\ inbox' = [inbox EXCEPT ![k] = Tail(@)]

\* A socket whose input is closed: the frame is dropped.
IgnoreFrame(k) ==
    /\ Takes(k)
    /\ status[k] # "open"
    /\ UNCHANGED <<client, status, plane, up, calls, pane, history>>

\* The id is in the window: acked without touching the pane.
AckAgain(k) ==
    LET s == Owner[k] IN
    /\ inbox[k] # <<>>
    /\ status[k] = "open"
    /\ Contains(window[s], Frame(k).id)
    /\ Ack(s, k, Frame(k).id, [inbox EXCEPT ![k] = Tail(@)])
    /\ UNCHANGED <<quota, typed, sock, status, plane, up, calls, pane, history>>

\* A second write of an id while the first may still land.
Rewrites(s, id) == \E j \in DOMAIN calls : calls[j].sess = s /\ calls[j].id = id

Joins(s, id) == id \notin {x.id : x \in ToSet(hold[s].queue)}

\* (Mutant: a held frame is acked as if it had been written.)
JoinHoldAcks(k) ==
    LET s == Owner[k] IN
    /\ inbox[k] # <<>>
    /\ status[k] = "open"
    /\ ~Contains(window[s], Frame(k).id)
    /\ hold[s].queue # <<>>
    /\ HoldFailed(s, Frame(k), calls, used)
    /\ UNCHANGED status
    /\ Ack(s, k, Frame(k).id, [inbox EXCEPT ![k] = Tail(@)])
    /\ UNCHANGED <<quota, typed, sock, window, up, pane, faults, moved, dropped, doubted>>

\* Failed writes wait ahead of it: it joins them.
JoinHold(k) ==
    LET s == Owner[k] IN
    /\ Takes(k)
    /\ status[k] = "open"
    /\ ~Contains(window[s], Frame(k).id)
    /\ hold[s].queue # <<>>
    /\ \/ /\ HoldFailed(s, Frame(k), calls, used)
          /\ doubted' = IF Joins(s, Frame(k).id) /\ Rewrites(s, Frame(k).id)
                        THEN [doubted EXCEPT ![s] = @ \cup {Frame(k).id}] ELSE doubted
          /\ UNCHANGED status
       \/ HoldOverflows(s, Frame(k)) /\ UNCHANGED doubted
    /\ UNCHANGED <<client, window, up, pane, faults, moved, dropped>>

\* Otherwise it is written, if the budget takes it.
Fresh(k) ==
    /\ Takes(k)
    /\ status[k] = "open"
    /\ ~Contains(window[Owner[k]], Frame(k).id)
    /\ hold[Owner[k]].queue = <<>>

Write(k) ==
    LET s == Owner[k] IN
    /\ calls' = Append(calls, Dispatch(s, Frame(k), "fresh"))
    /\ doubted' = IF Rewrites(s, Frame(k).id) THEN [doubted EXCEPT ![s] = @ \cup {Frame(k).id}]
                  ELSE doubted

WriteFrame(k) ==
    /\ Fresh(k)
    /\ used < NodeCap
    /\ Write(k)
    /\ used' = used + 1
    /\ UNCHANGED <<client, status, hold, window, up, pane, faults, moved, dropped, stranded>>

\* reclaimOneHeldInput: another page's oldest entry that is not being written
\* gives its place up.
Idle(s) == IF hold[s].draining THEN 2..Len(hold[s].queue) ELSE DOMAIN hold[s].queue

WriteReclaiming(k) ==
    /\ Fresh(k)
    /\ used >= NodeCap
    /\ \E s \in {x \in Sessions : Idle(x) # {}} :
          LET i == Min(Idle(s)) q == hold[s].queue IN
          /\ hold' = [hold EXCEPT ![s].queue = RemoveAt(q, i)]
          /\ stranded' = [stranded EXCEPT ![s] = @ \cup Strands(s, {q[i]})]
    /\ Write(k)
    /\ UNCHANGED <<client, status, window, used, up, pane, faults, moved, dropped>>

\* Nothing can be reclaimed: the connection pays for it.
RefuseFrame(k) ==
    /\ Fresh(k)
    /\ used >= NodeCap
    /\ \A s \in Sessions : Idle(s) = {}
    /\ status' = [status EXCEPT ![k] = "refused"]
    /\ UNCHANGED <<client, plane, up, calls, pane, history>>

\* cleanupSubshellWs: the close event of a socket the page has left, or that
\* the plane closed itself.  It drops the holds of the SESSION.
PlaneSeesClose(k) ==
    LET s == Owner[k] IN
    /\ status[k] \in {"open", "refused"}
    /\ sock[s] # k
    /\ status' = [status EXCEPT ![k] = "closed"]
    /\ inbox' = [inbox EXCEPT ![k] = <<>>]
    /\ DropHold(s, calls, used)
    /\ stranded' = [stranded EXCEPT ![s] = @ \cup Strands(s, ToSet(hold[s].queue))]
    /\ UNCHANGED <<client, window, up, pane, faults, moved, dropped, doubted>>

-----------------------------------------------------------------------------
(* The node: one input chain, and the link to it. *)

\* The chain's next write reaches its pane.
NodeWrites ==
    \E j \in DOMAIN calls :
       /\ ~calls[j].written
       /\ \A i \in 1..(j - 1) : calls[i].written
       /\ pane' = [pane EXCEPT ![calls[j].sess] = Append(@, calls[j].id)]
       /\ calls' = IF calls[j].waiting THEN [calls EXCEPT ![j].written = TRUE]
                   ELSE RemoveAt(calls, j)
       /\ UNCHANGED <<client, wire, plane, up, history>>

\* Answers and deadlines of one connection come in the order of its commands.
NextToSettle(j) == calls[j].waiting /\ \A i \in 1..(j - 1) : ~calls[i].waiting

\* sendInput resolves.  The id is committed to the window before it is acked.
Resolved(j) ==
    LET c == calls[j] q == hold[c.sess].queue IN
    /\ up
    /\ NextToSettle(j)
    /\ c.written
    /\ window' = [window EXCEPT ![c.sess] = Remember(@, c.id)]
    /\ doubted' = [doubted EXCEPT ![c.sess] = @ \cup (Forgets(window[c.sess], c.id) \cap Outstanding(c.sess))]
    /\ Ack(c.sess, c.sock, c.id, inbox)
    /\ IF c.via = "drain"
       THEN /\ hold' = [hold EXCEPT ![c.sess] = Draining(c.sess, Tail(q))]
            /\ calls' = RemoveAt(calls, j) \o Refires(c.sess, Tail(q))
            /\ used' = used - 1 - Purged(Tail(q))
       ELSE /\ calls' = RemoveAt(calls, j)
            /\ used' = used - 1
            /\ UNCHANGED hold
    /\ UNCHANGED <<quota, typed, sock, status, up, pane, faults, moved, dropped, stranded>>

\* The rejected write may be gone, still in the node's chain, or done.
AfterRejection(j) ==
    {RemoveAt(calls, j)} \cup (IF calls[j].written THEN {} ELSE {[calls EXCEPT ![j].waiting = FALSE]})

\* sendInput rejects: the node is offline, or the write failed or timed out.
Rejected(j) ==
    LET c == calls[j] IN
    /\ NextToSettle(j)
    /\ IF up THEN faults < MaxFaults /\ faults' = faults + 1 ELSE UNCHANGED faults
    /\ \E cs \in AfterRejection(j) :
          /\ doubted' = IF c.written \/ Len(cs) = Len(calls)
                        THEN [doubted EXCEPT ![c.sess] = @ \cup {c.id}] ELSE doubted
          /\ \/ /\ c.via = "fresh"
                /\ status[c.sock] = "open"
                /\ HoldFailed(c.sess, [id |-> c.id, sock |-> c.sock], cs, used - 1)
             \/ /\ c.via = "drain"
                /\ hold' = [hold EXCEPT ![c.sess].draining = FALSE]
                /\ calls' = cs
                /\ UNCHANGED <<used, stranded>>
             \/ /\ c.via = "dropped" \/ (c.via = "fresh" /\ status[c.sock] # "open")
                /\ calls' = cs
                /\ used' = used - 1
                /\ UNCHANGED <<hold, stranded>>
    /\ UNCHANGED <<client, wire, window, up, pane, moved, dropped>>

\* The daemon's socket goes; every waiting write rejects before it is back.
LinkDrops ==
    /\ up
    /\ faults < MaxFaults
    /\ up' = FALSE
    /\ faults' = faults + 1
    /\ UNCHANGED <<client, wire, plane, calls, pane, moved, dropped, doubted, stranded>>

\* A daemon that restarted has an empty chain.
ChainIsLost ==
    /\ ~up
    /\ \E j \in DOMAIN calls : ~calls[j].waiting
    /\ LET kept == InOrder({j \in DOMAIN calls : calls[j].waiting})
       IN  calls' = [n \in DOMAIN kept |-> calls[kept[n]]]
    /\ UNCHANGED <<client, wire, plane, up, pane, history>>

\* The node's ready frame re-fires every hold (refireInputHoldsForNode), in the
\* order the holds were made, which is not kept here.
NodeReady ==
    LET queue(s) == hold[s].queue
        refired == {s \in Sessions : Servable(queue(s)) # <<>>}
        purged == UNION {{s} \X (1..Purged(queue(s))) : s \in Sessions}
    IN
    /\ ~up
    /\ \A j \in DOMAIN calls : ~calls[j].waiting
    /\ up' = TRUE
    /\ hold' = [s \in Sessions |-> Draining(s, queue(s))]
    /\ used' = used - Cardinality(purged)
    /\ \E order \in [1..Cardinality(refired) -> refired] :
          /\ \A m, n \in DOMAIN order : order[m] = order[n] => m = n
          /\ calls' = calls \o [n \in DOMAIN order |->
                Dispatch(order[n], Head(Servable(queue(order[n]))), "drain")]
    /\ UNCHANGED <<client, wire, window, pane, history>>

-----------------------------------------------------------------------------
Page(s) == \/ Type(s) \/ WindowFires(s) \/ PageLosesSocket(s)
           \/ \E k \in Sockets : Attach(s, k)
Handler(k) == \/ IgnoreFrame(k) \/ AckAgain(k) \/ JoinHold(k)
              \/ WriteFrame(k) \/ WriteReclaiming(k) \/ RefuseFrame(k) \/ PlaneSeesClose(k)
Node == NodeWrites \/ LinkDrops \/ ChainIsLost \/ NodeReady
Answer == \E j \in DOMAIN calls : Resolved(j) \/ Rejected(j)

Next == (\E s \in Sessions : Page(s)) \/ (\E k \in Sockets : Handler(k)) \/ Node \/ Answer

Spec == Init /\ [][Next]_vars
-----------------------------------------------------------------------------
(* Properties. *)

Waiting(vias) == {j \in DOMAIN calls : calls[j].waiting /\ calls[j].via \in vias}

Retained == UNION {{s} \X DOMAIN hold[s].queue : s \in Sessions}

\* The budget counts exactly the writes in flight and the retained retries: a
\* charge leaked by any settlement, drop or reclaim would shrink the node's
\* share for good (input-budget.ts).
BudgetIsExact ==
    /\ used = Cardinality(Waiting({"fresh", "dropped"})) + Cardinality(Retained)
    /\ used <= NodeCap

\* input-queue.ts: an unacked id "still means not yet".  A frame the page put
\* on its live socket is on the wire, being written or held with that socket,
\* unless its hold was lost under that socket.
OnItsWay(s, k) ==
    ToSet(inbox[k])
    \cup {calls[j].id : j \in {i \in Waiting({"fresh", "drain"}) : calls[i].sess = s /\ calls[i].sock = k}}
    \cup {e.id : e \in {x \in ToSet(hold[s].queue) : x.sock = k}}

UnackedMeansNotYet ==
    \A s \in Sessions : sock[s] # None /\ status[sock[s]] = "open" =>
        sent[s] \subseteq OnItsWay(s, sock[s]) \cup stranded[s]

\* On a link without faults and a page that keeps its socket, the pane takes
\* every frame the page did not forget, once and in the order it was typed.
HealthyPathIsExact ==
    faults = 0 => \A s \in Sessions \ moved : \A n \in DOMAIN pane[s] :
        LET before == {pane[s][m] : m \in 1..(n - 1)} IN
        /\ before \subseteq 1..(pane[s][n] - 1)
        /\ 1..(pane[s][n] - 1) \subseteq before \cup dropped[s]

\* The window and the hold leave one way to a second copy: a write whose
\* result the plane never saw, two writes of one id in flight at once, or an
\* id that left the window while a copy could still arrive.
CopiesNeedDoubt ==
    \A s \in Sessions : \A i \in Ids \ doubted[s] :
        Cardinality({n \in DOMAIN pane[s] : pane[s][n] = i}) <= 1

\* The path implements what the person typing relies on.
Keys == Sessions \X Ids
Promise == INSTANCE InputPromise WITH
    Keys <- Keys,
    typed <- {k \in Keys : k[2] <= typed[k[1]]},
    landed <- {k \in Keys : k[2] \in ToSet(pane[k[1]])},
    retired <- {k \in Keys : k[2] <= typed[k[1]] /\ k[2] \notin pending[k[1]] \cup dropped[k[1]]}
KeystrokesAreNotLost == Promise!Spec
=============================================================================
