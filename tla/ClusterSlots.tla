---------------------------- MODULE ClusterSlots ----------------------------
(***************************************************************************)
(* Moving a hash slot of Redis Cluster from one master to another           *)
(* (cluster.c): SETSLOT, MIGRATE and RESTORE-ASKING, and how getNodeByQuery *)
(* serves or redirects clients meanwhile.                                   *)
(*                                                                         *)
(* One slot and its keys.  A value is the number of the write that made it. *)
(* A node is one thread and MIGRATE blocks it until the target has answered *)
(* or the timeout is over.  The tool that moves the slot (redis-trib) and   *)
(* the clients, which follow redirections, are external.                    *)
(***************************************************************************)
EXTENDS Integers, FiniteSets, FiniteSetsExt

CONSTANTS Nodes, Src, Dst,  \* the slot moves from Src to Dst
          Keys, Clients,
          Pairs,            \* clients may ask for all keys in one command
          Ops,              \* what clients do: get, set, del, pop (which may block)
          MaxWrites, MaxTimeouts  \* bounds

SlotsAssumption ==
    /\ IsFiniteSet(Nodes) /\ {Src, Dst} \subseteq Nodes /\ Src # Dst /\ "none" \notin Nodes
    /\ IsFiniteSet(Keys) /\ Keys # {}
    /\ Pairs \in BOOLEAN /\ Ops \subseteq {"get", "set", "del", "pop"}
    /\ MaxWrites \in Nat /\ MaxTimeouts \in Nat

VARIABLES
    slots,     \* per node, who serves the slot in its table
    epoch,     \* per node, the configEpoch of that owner in its table
    mine,      \* per node, its own configEpoch
    migrating, \* per node, migrating_slots_to
    importing, \* per node, importing_slots_from
    db,        \* per node and key, its value or NoKey
    call,      \* MIGRATE in progress at Src
    tool,      \* where redis-trib is
    cl,        \* per client, its request
    last,      \* history: per key, the value of the last write that was done
    stale,     \* history: a client got another value than the last one
    writes, timeouts

nodes == <<slots, epoch, mine, migrating, importing>>
vars == <<nodes, db, call, tool, cl, last, stale, writes, timeouts>>

NoNode == "none"
NoKey  == 0
Idle   == [st |-> "idle", op |-> "none", keys |-> {}, at |-> NoNode, asking |-> FALSE]
NoCall == [st |-> "none", key |-> NoNode, value |-> NoKey]

Blocked(n) == n = Src /\ call.st # "none"     \* inside MIGRATE

-----------------------------------------------------------------------------
(* Who serves a command for these keys at node n.                          *)

Missing(n, keys) == {k \in keys : db[n][k] = NoKey}

getNodeByQuery_NoAsk(n, keys, asking) ==
    LET importingSlot == importing[n] # NoNode
    IN  IF importingSlot /\ asking THEN [to |-> n, how |-> "serve"]
        ELSE IF slots[n] = n THEN [to |-> n, how |-> "serve"]
        ELSE [to |-> slots[n], how |-> "moved"]
getNodeByQuery(n, keys, asking) ==
    LET migratingSlot == slots[n] = n /\ migrating[n] # NoNode
        importingSlot == ~migratingSlot /\ importing[n] # NoNode
    IN  IF migratingSlot /\ Missing(n, keys) # {} THEN [to |-> migrating[n], how |-> "ask"]
        ELSE IF importingSlot /\ asking
             THEN IF Cardinality(keys) > 1 /\ Missing(n, keys) # {}
                  THEN [to |-> n, how |-> "tryagain"] ELSE [to |-> n, how |-> "serve"]
        ELSE IF slots[n] = n THEN [to |-> n, how |-> "serve"]
        ELSE [to |-> slots[n], how |-> "moved"]

-----------------------------------------------------------------------------
(* Clients                                                                 *)

KeySets == {{k} : k \in Keys} \cup (IF Pairs THEN {Keys} ELSE {})

\* A client sends a request to a node of its own choice.
Ask(c, n, op, keys) ==
    /\ cl[c].st = "idle"
    /\ op \in {"set", "del"} => writes < MaxWrites
    /\ op = "pop" => Cardinality(keys) = 1
    /\ writes' = IF op \in {"set", "del"} THEN writes + 1 ELSE writes
    /\ cl' = [cl EXCEPT ![c] = [st |-> "sent", op |-> op, keys |-> keys, at |-> n, asking |-> FALSE]]
    /\ UNCHANGED <<nodes, db, call, tool, last, stale, timeouts>>

\* processCommand, when getNodeByQuery says another node, or no one.
\* clusterRedirectClient; the client follows.
Redirect(c) ==
    LET r == cl[c]
        q == getNodeByQuery(r.at, r.keys, r.asking)
    IN  /\ r.st = "sent" /\ ~Blocked(r.at) /\ q.how # "serve"
        /\ cl' = [cl EXCEPT ![c] = [r EXCEPT !.at = q.to,
                                             !.asking = q.how \in {"ask", "tryagain"}]]
        /\ UNCHANGED <<nodes, db, call, tool, last, stale, writes, timeouts>>

\* The command runs.  A write gives its keys a new value; a pop of a key that is
\* there takes it away, otherwise the client blocks.
New(r) == IF r.op = "set" THEN Max({last[k] : k \in Keys}) + 1 ELSE NoKey
Wrong(r) == \E k \in r.keys : db[r.at][k] # last[k]
Serve(c) ==
    LET r == cl[c]
        writesKeys == r.op \in {"set", "del"} \/ (r.op = "pop" /\ Missing(r.at, r.keys) = {})
        blocks == r.op = "pop" /\ Missing(r.at, r.keys) # {}
        put(f) == [k \in Keys |-> IF k \in r.keys /\ writesKeys THEN New(r) ELSE f[k]]
    IN  /\ r.st = "sent" /\ ~Blocked(r.at)
        /\ getNodeByQuery(r.at, r.keys, r.asking).how = "serve"
        /\ stale' = (stale \/ (r.op # "set" /\ Wrong(r)))
        /\ db' = [db EXCEPT ![r.at] = put(@)]
        /\ last' = put(last)
        /\ cl' = [cl EXCEPT ![c] = IF blocks THEN [r EXCEPT !.st = "blocked", !.asking = FALSE]
                                   ELSE Idle]
        /\ UNCHANGED <<nodes, call, tool, writes, timeouts>>

\* The key a client is blocked for was written at its node.
ServeBlocked(c) ==
    LET r == cl[c]
    IN  /\ r.st = "blocked" /\ ~Blocked(r.at) /\ Missing(r.at, r.keys) = {}
        /\ stale' = (stale \/ Wrong(r))
        /\ db' = [db EXCEPT ![r.at] = [k \in Keys |-> IF k \in r.keys THEN NoKey ELSE @[k]]]
        /\ last' = [k \in Keys |-> IF k \in r.keys THEN NoKey ELSE last[k]]
        /\ cl' = [cl EXCEPT ![c] = Idle]
        /\ UNCHANGED <<nodes, call, tool, writes, timeouts>>

\* The slot is served elsewhere now: the client is unblocked with MOVED.
MustRedirect(n) == slots[n] # n /\ importing[n] = NoNode
clusterRedirectBlockedClientIfNeeded(c) ==
    LET r == cl[c]
    IN  /\ r.st = "blocked" /\ ~Blocked(r.at) /\ MustRedirect(r.at)
        /\ cl' = [cl EXCEPT ![c] = [r EXCEPT !.st = "sent", !.at = slots[r.at]]]
        /\ UNCHANGED <<nodes, db, call, tool, last, stale, writes, timeouts>>

-----------------------------------------------------------------------------
(* CLUSTER SETSLOT, as redis-trib uses it                                   *)

setslotImporting ==
    /\ tool = "start" /\ slots[Dst] # Dst
    /\ importing' = [importing EXCEPT ![Dst] = Src]
    /\ tool' = "importing"
    /\ UNCHANGED <<slots, epoch, mine, migrating, db, call, cl, last, stale, writes, timeouts>>

setslotMigrating ==
    /\ tool = "importing" /\ slots[Src] = Src /\ ~Blocked(Src)
    /\ migrating' = [migrating EXCEPT ![Src] = Dst]
    /\ tool' = "migrating"
    /\ UNCHANGED <<slots, epoch, mine, importing, db, call, cl, last, stale, writes, timeouts>>

\* All keys were moved: the tool closes the slot at every node.
Moved == tool \in {"migrating", "closing"} /\ Missing(Src, Keys) = Keys /\ ~Blocked(Src)

\* SETSLOT NODE Dst at node n.
setslotNode(n) ==
    LET e == IF n = Dst /\ importing[n] # NoNode THEN Max({mine[k] : k \in Nodes}) + 1 ELSE mine[Dst]
    IN  /\ Moved /\ slots[n] # Dst
        /\ slots[n] = n => Missing(n, Keys) = Keys
        /\ migrating' = [migrating EXCEPT ![n] = IF Missing(n, Keys) = Keys THEN NoNode ELSE @]
        /\ importing' = [importing EXCEPT ![n] = IF n = Dst THEN NoNode ELSE @]
        /\ mine' = [mine EXCEPT ![Dst] = e]
        /\ slots' = [slots EXCEPT ![n] = Dst]
        /\ epoch' = [epoch EXCEPT ![n] = e]
        /\ tool' = "closing"
        /\ UNCHANGED <<db, call, cl, last, stale, writes, timeouts>>

\* A heartbeat of m, which serves the slot, at n: clusterUpdateSlotsConfigWith.
\* A master that loses a slot deletes the keys it still has in it.
Heartbeat(m, n) ==
    /\ slots[m] = m /\ slots[n] # m /\ importing[n] = NoNode /\ epoch[n] < mine[m] /\ ~Blocked(n)
    /\ slots' = [slots EXCEPT ![n] = m]
    /\ epoch' = [epoch EXCEPT ![n] = mine[m]]
    /\ db' = [db EXCEPT ![n] = IF slots[n] = n THEN [k \in Keys |-> NoKey] ELSE @]
    /\ UNCHANGED <<mine, migrating, importing, call, tool, cl, last, stale, writes, timeouts>>

-----------------------------------------------------------------------------
(* MIGRATE, with REPLACE, of one key after the other                        *)

migrateCommand(k) ==
    /\ tool = "migrating" /\ ~Blocked(Src) /\ db[Src][k] # NoKey
    /\ call' = [st |-> "sent", key |-> k, value |-> db[Src][k]]
    /\ UNCHANGED <<nodes, db, tool, cl, last, stale, writes, timeouts>>

\* RESTORE-ASKING at the target: it is served, or answered with an error.
restoreCommand ==
    /\ call.st = "sent"
    /\ IF getNodeByQuery(Dst, {call.key}, TRUE).how = "serve"
       THEN /\ db' = [db EXCEPT ![Dst][call.key] = call.value]
            /\ call' = [call EXCEPT !.st = "ok"]
       ELSE call' = [call EXCEPT !.st = "error"] /\ UNCHANGED db
    /\ UNCHANGED <<nodes, tool, cl, last, stale, writes, timeouts>>

migrateReply ==
    /\ call.st \in {"ok", "error"}
    /\ db' = IF call.st = "ok" THEN [db EXCEPT ![Src][call.key] = NoKey] ELSE db
    /\ call' = NoCall
    /\ UNCHANGED <<nodes, tool, cl, last, stale, writes, timeouts>>

\* The timeout, before or after the target has run the command: the key stays.
migrateTimeout ==
    /\ call.st \in {"sent", "ok", "error"} /\ timeouts < MaxTimeouts
    /\ call' = NoCall /\ timeouts' = timeouts + 1
    /\ UNCHANGED <<nodes, db, tool, cl, last, stale, writes>>

-----------------------------------------------------------------------------
Init ==
    /\ slots = [n \in Nodes |-> Src]
    /\ mine = [n \in Nodes |-> IF n = Src THEN 2 ELSE 1]
    /\ epoch = [n \in Nodes |-> 2]
    /\ migrating = [n \in Nodes |-> NoNode] /\ importing = [n \in Nodes |-> NoNode]
    /\ \E k \in Keys : last = [j \in Keys |-> IF j = k THEN 1 ELSE NoKey]
    /\ db = [n \in Nodes |-> IF n = Src THEN last ELSE [k \in Keys |-> NoKey]]
    /\ call = NoCall /\ tool = "start" /\ cl = [c \in Clients |-> Idle]
    /\ stale = FALSE /\ writes = 0 /\ timeouts = 0

Next ==
    \/ \E c \in Clients, n \in Nodes, op \in Ops, ks \in KeySets :
          Ask(c, n, op, ks)
    \/ \E c \in Clients : Redirect(c)
    \/ \E c \in Clients : Serve(c)
    \/ \E c \in Clients : ServeBlocked(c)
    \/ \E c \in Clients : clusterRedirectBlockedClientIfNeeded(c)
    \/ setslotImporting
    \/ setslotMigrating
    \/ \E n \in Nodes : setslotNode(n)
    \/ \E m, n \in Nodes : Heartbeat(m, n)
    \/ \E k \in Keys : migrateCommand(k)
    \/ restoreCommand
    \/ migrateReply
    \/ migrateTimeout

Spec == Init /\ [][Next]_vars

\* Nodes serve what they have received, the tool goes on until the slot is moved,
\* and serverCron looks after blocked clients.
Weak(i) ==
    \/ i = 1 /\ setslotImporting
    \/ i = 2 /\ setslotMigrating
    \/ i = 3 /\ restoreCommand
    \/ i = 4 /\ migrateReply
WeakNode(n) == setslotNode(n)
WeakClient(c) == Redirect(c) \/ clusterRedirectBlockedClientIfNeeded(c)
Strong(c) == Serve(c)
StrongTool == \E k \in Keys : migrateCommand(k)

-----------------------------------------------------------------------------
Requests == [st : {"idle", "sent", "blocked"}, op : {"none", "get", "set", "del", "pop"},
             keys : SUBSET Keys, at : Nodes \cup {NoNode}, asking : BOOLEAN]

\* The tables, the databases and the requests are what they can be.
TypeOK ==
    /\ slots \in [Nodes -> Nodes] /\ epoch \in [Nodes -> Nat] /\ mine \in [Nodes -> Nat]
    /\ migrating \in [Nodes -> Nodes \cup {NoNode}] /\ importing \in [Nodes -> Nodes \cup {NoNode}]
    /\ db \in [Nodes -> [Keys -> Nat]] /\ last \in [Keys -> Nat]
    /\ call.st \in {"none", "sent", "ok", "error"}
    /\ tool \in {"start", "importing", "migrating", "closing"}
    /\ cl \in [Clients -> Requests] /\ (\A c \in Clients : cl[c].st # "idle" => cl[c].at \in Nodes)
    /\ stale \in BOOLEAN
    /\ writes \in 0..MaxWrites /\ timeouts \in 0..MaxTimeouts

\* While the slot moves, a client that follows the redirections never sees another
\* value of a key than the last one written, wherever that was.
NoStaleValue == ~stale

\* The last value of every key is at the node that serves it, whoever is asked.
NothingLost ==
    \A k \in Keys : last[k] # NoKey =>
        \/ db[Src][k] = last[k] /\ slots[Src] = Src
        \/ db[Dst][k] = last[k] /\ (slots[Dst] = Dst \/ importing[Dst] = Src)

\* Two nodes do not both serve the slot as owners, unless one has no keys left.
OneOwner == ~(slots[Src] = Src /\ slots[Dst] = Dst /\ Missing(Src, Keys) # Keys)

\* A request waits, however often it is redirected, or a client is blocked at a node that
\* does not serve the slot any more: neither for ever.
Unfinished(c) ==
    \/ cl[c].st = "sent"
    \/ cl[c].st = "blocked" /\ slots[cl[c].at] # cl[c].at
=============================================================================
