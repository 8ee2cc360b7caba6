---------------------------- MODULE ClusterNodes ----------------------------
(***************************************************************************)
(* The table of nodes that one node (Me) of Redis Cluster keeps             *)
(* (cluster.c): handshakes, gossip about unknown and moved nodes, FORGET    *)
(* and the blacklist, roles, and the pointers between the nodes, the slots  *)
(* and the table.                                                          *)
(*                                                                         *)
(* The other nodes are external: who lives at an address, and what it says  *)
(* of itself and of others.  A pointer to a node that was freed is Freed.   *)
(* A link and its packets are one step: whoever lives at the address        *)
(* answers.  What a heartbeat says of slots is in ClusterElection.          *)
(***************************************************************************)
EXTENDS Integers, FiniteSets, FiniteSetsExt

CONSTANTS
    Me, Peers,
    Masters, Slaves, \* peers that say they are masters, or slaves; one in both changes
    Known,           \* peers that Me knows at the start
    NumAddrs,        \* addresses 0..NumAddrs; Me lives at 0
    Slots,
    Events,          \* "meet", "forget", "replicate", "reset", "slots", "move", "gossip"
    MaxMoves         \* bound

ClusterNodesAssumption ==
    /\ Me \notin Peers /\ IsFiniteSet(Peers) /\ IsFiniteSet(Slots)
    /\ Masters \subseteq Peers /\ Slaves \subseteq Peers /\ Known \subseteq Peers
    /\ NumAddrs \in Nat /\ NumAddrs >= Cardinality(Peers) /\ MaxMoves \in Nat

VARIABLES
    table,     \* server.cluster->nodes: per name, its node or Absent
    hs,        \* nodes in handshake: <<address, number>>
    black,     \* nodes_black_list
    slots, importing, migrating,  \* per slot, a node or Nobody
    data,      \* Me has keys
    at,        \* per address, who lives there
    been,      \* history: where each peer has lived, which gossip may still tell
    moves,
    told,      \* history: <<handshake, peer>>, what gossip said of the peer has started
               \* the handshake, and the peer has not been forgotten since
    crashed    \* an assertion has failed

world == <<at, been, moves>>
vars == <<table, hs, black, slots, importing, migrating, data, world, told, crashed>>

Names  == Peers \cup {Me}
Addrs  == 0..NumAddrs
Nobody == "nobody"
Freed  == "freed"
Absent == [role |-> "absent", slaveof |-> Nobody, slaves |-> {}, bits |-> {}, addr |-> -1, pfail |-> FALSE]
Present(t, n) == t[n] # Absent
NoAddr == -1
Where(p) == CHOOSE a \in Addrs : at[a] = p

-----------------------------------------------------------------------------
(* The node API, on a table t (and the slot tables)                         *)

createClusterNode(role, a) == [Absent EXCEPT !.role = role, !.addr = a]

\* clusterDelSlot for the slots of one node.
clusterDelNodeSlots(t, n) == [t EXCEPT ![n].bits = {}]
Unassigned(n) == [j \in Slots |-> IF slots[j] = n THEN Nobody ELSE slots[j]]

clusterNodeRemoveSlave(t, m, s) == IF m \in Names THEN [t EXCEPT ![m].slaves = @ \ {s}] ELSE t
clusterNodeAddSlave(t, m, s) == [t EXCEPT ![m].slaves = @ \cup {s}]

\* What still points to n once n is gone.
Dangle(t, n) ==
    [k \in Names |-> [t[k] EXCEPT !.slaveof = IF @ = n THEN Freed ELSE @,
                                  !.slaves = {IF s = n THEN Freed ELSE s : s \in @}]]
freeClusterNode(t, n) ==
    LET t1 == IF t[n].role = "master"
              THEN [k \in Names |-> IF k \in t[n].slaves THEN [t[k] EXCEPT !.slaveof = Nobody] ELSE t[k]]
              ELSE t
        t2 == IF t[n].role = "slave" THEN clusterNodeRemoveSlave(t1, t[n].slaveof, n) ELSE t1
    IN  Dangle([t2 EXCEPT ![n] = Absent], n)
Without(f, gone) == [j \in Slots |-> IF f[j] \in gone THEN Nobody ELSE f[j]]
clusterDelNode(gone) ==
    /\ table' = FoldSet(LAMBDA n, t : freeClusterNode(t, n), table, gone)
    /\ importing' = Without(importing, gone) /\ migrating' = Without(migrating, gone)
    /\ slots' = Without(slots, gone)

\* A node that says it is a master, or a slave of m.
clusterSetNodeAsMaster(t, n) ==
    IF t[n].role = "master" THEN t
    ELSE [clusterNodeRemoveSlave(t, t[n].slaveof, n) EXCEPT ![n].role = "master", ![n].slaveof = Nobody]
SlaveOf(t, n, m) ==
    LET t1 == IF t[n].role = "master"
              THEN [clusterDelNodeSlots(t, n) EXCEPT ![n].role = "slave", ![n].slaves = {}] ELSE t
    IN  IF Present(t, m) /\ t1[n].slaveof # m
        THEN [clusterNodeAddSlave(clusterNodeRemoveSlave(t1, t1[n].slaveof, n), m, n) EXCEPT ![n].slaveof = m]
        ELSE t1
RoleSwitch(t, n, m) == IF m = Nobody THEN clusterSetNodeAsMaster(t, n) ELSE SlaveOf(t, n, m)
\* A master that turns into a slave loses its slots.
SlotsAfterRole(n, m) == IF m # Nobody /\ table[n].role = "master" THEN Unassigned(n) ELSE slots

\* What a peer may say of its role: Nobody, or its master.
SaysSlaveOf(p) ==
    (IF p \in Masters THEN {Nobody} ELSE {}) \cup (IF p \in Slaves THEN (Masters \cup {Me}) \ {p} ELSE {})

nodeUpdateAddressIfNeeded(t, n, a) == [t EXCEPT ![n].addr = a]

-----------------------------------------------------------------------------
(* Handshakes and packets                                                   *)

clusterHandshakeInProgress(h, a) == \E x \in h : x[1] = a
clusterStartHandshake(h, a) == IF clusterHandshakeInProgress(h, a) THEN h ELSE h \cup {<<a, 1>>}

\* The gossip section: one other node n, said to live at a.
NoGossip == <<Nobody, 0>>
Gossips(p) == {NoGossip} \cup (IF "gossip" \in Events THEN {g \in been : g[1] # p} ELSE {})
clusterProcessGossipSection_NoBlacklist(t, h, known, g) ==
    IF g = NoGossip THEN h
    ELSE IF Present(t, g[1])
         THEN IF t[g[1]].pfail /\ t[g[1]].addr # g[2] THEN clusterStartHandshake(h, g[2]) ELSE h
         ELSE IF known THEN clusterStartHandshake(h, g[2]) ELSE h
clusterProcessGossipSection(t, h, known, g) ==
    IF g = NoGossip THEN h
    ELSE IF Present(t, g[1])
         THEN IF t[g[1]].pfail /\ t[g[1]].addr # g[2] THEN clusterStartHandshake(h, g[2]) ELSE h
         ELSE IF known /\ g[1] \notin black THEN clusterStartHandshake(h, g[2]) ELSE h

\* For the history: h are the handshakes before the gossip about g was read.
Told(h, g) == told \cup {<<x, g[1]>> : x \in hs' \ h}

\* Whoever lives where a handshake was started answers.
handshakePong(x) ==
    LET s == at[x[1]] IN
    /\ x \in hs /\ s # Nobody /\ hs' = hs \ {x} /\ told' = {y \in told : y[1] # x}
    /\ IF Present(table, s)
       THEN table' = (IF s = Me THEN table ELSE nodeUpdateAddressIfNeeded(table, s, x[1]))
       ELSE \E m \in SaysSlaveOf(s) :
                table' = [table EXCEPT ![s] = createClusterNode(IF m = Nobody THEN "master" ELSE "slave", x[1])]
    /\ UNCHANGED <<black, slots, importing, migrating, data, world, crashed>>
handshakeTimeout_Never(x) == FALSE /\ UNCHANGED vars
handshakeTimeout(x) ==
    /\ x \in hs /\ hs' = hs \ {x} /\ told' = {y \in told : y[1] # x}
    /\ UNCHANGED <<table, black, slots, importing, migrating, data, world, crashed>>

\* PING from a peer, which comes from where it lives; MEET when it does not know Me yet.
receivePing(p, m, g) ==
    /\ Present(table, p) /\ m \in SaysSlaveOf(p)
    /\ LET t == RoleSwitch(nodeUpdateAddressIfNeeded(table, p, Where(p)), p, m)
       IN  table' = t /\ hs' = clusterProcessGossipSection(t, hs, TRUE, g) /\ told' = Told(hs, g)
    /\ slots' = SlotsAfterRole(p, m)
    /\ UNCHANGED <<black, importing, migrating, data, world, crashed>>
receiveMeet(p, g) ==
    /\ "meet" \in Events /\ ~Present(table, p)
    /\ LET n == Cardinality({x \in hs : x[1] = Where(p)})
           h == hs \cup {<<Where(p), n + 1>>}
       IN  /\ n < 2
           /\ hs' = clusterProcessGossipSection(table, h, FALSE, g) /\ told' = Told(h, g)
    /\ UNCHANGED <<table, black, slots, importing, migrating, data, world, crashed>>
\* PONG on the link to a node of the table: another node may live there now.
receivePong(n, m, g) ==
    /\ n # Me /\ Present(table, n) /\ table[n].addr # NoAddr /\ at[table[n].addr] # Nobody
    /\ IF at[table[n].addr] = n
       THEN /\ m \in SaysSlaveOf(n)
            /\ LET t == RoleSwitch([table EXCEPT ![n].pfail = FALSE], n, m)
               IN  table' = t /\ hs' = clusterProcessGossipSection(t, hs, TRUE, g) /\ told' = Told(hs, g)
            /\ slots' = SlotsAfterRole(n, m)
       ELSE /\ m = Nobody /\ g = NoGossip
            /\ table' = [table EXCEPT ![n].addr = NoAddr] /\ UNCHANGED <<hs, told, slots>>
    /\ UNCHANGED <<black, importing, migrating, data, world, crashed>>
\* clusterCron: nobody has answered in time.
pingTimeout(n) ==
    /\ n # Me /\ Present(table, n) /\ table[n].addr # NoAddr /\ at[table[n].addr] # n /\ ~table[n].pfail
    /\ table' = [table EXCEPT ![n].pfail = TRUE]
    /\ UNCHANGED <<hs, black, slots, importing, migrating, data, world, told, crashed>>
\* A peer gets another address (external).
move(p, a) ==
    /\ "move" \in Events /\ moves < MaxMoves /\ at[a] = Nobody
    /\ at' = [at EXCEPT ![Where(p)] = Nobody, ![a] = p] /\ moves' = moves + 1 /\ been' = been \cup {<<p, a>>}
    /\ UNCHANGED <<table, hs, black, slots, importing, migrating, data, told, crashed>>

-----------------------------------------------------------------------------
(* CLUSTER commands                                                         *)

meetCommand(a) ==
    /\ "meet" \in Events /\ hs' = clusterStartHandshake(hs, a)
    /\ UNCHANGED <<table, black, slots, importing, migrating, data, world, told, crashed>>
forgetCommand(n) ==
    /\ "forget" \in Events /\ n # Me /\ Present(table, n) /\ table[Me].slaveof # n
    /\ black' = black \cup {n} /\ clusterDelNode({n})
    /\ told' = {y \in told : y[2] # n}
    /\ UNCHANGED <<hs, data, world, crashed>>
clusterBlacklistCleanup(n) ==
    /\ n \in black /\ black' = black \ {n}
    /\ UNCHANGED <<table, hs, slots, importing, migrating, data, world, told, crashed>>
clusterSetMaster(n) ==
    LET t == IF table[Me].role = "master" THEN table ELSE clusterNodeRemoveSlave(table, table[Me].slaveof, Me)
    IN  /\ table' = [clusterNodeAddSlave(t, n, Me) EXCEPT ![Me].role = "slave", ![Me].slaveof = n]
        /\ IF table[Me].role = "master" THEN importing' = [j \in Slots |-> Nobody] /\ migrating' = [j \in Slots |-> Nobody]
           ELSE UNCHANGED <<importing, migrating>>
replicateCommand(n) ==
    /\ "replicate" \in Events /\ n # Me /\ Present(table, n) /\ table[n].role = "master"
    /\ table[Me].role = "master" => table[Me].bits = {} /\ ~data
    /\ crashed' = (table[Me].bits # {})
    /\ clusterSetMaster(n)
    /\ UNCHANGED <<hs, black, slots, data, world, told>>
clusterReset ==
    /\ "reset" \in Events
    /\ table[Me].role = "master" => ~data
    /\ LET t == clusterDelNodeSlots(clusterSetNodeAsMaster(table, Me), Me)
       IN  table' = FoldSet(LAMBDA n, u : freeClusterNode(u, n), t, {n \in Peers : Present(table, n)})
    /\ slots' = [j \in Slots |-> Nobody] /\ importing' = slots' /\ migrating' = slots'
    /\ hs' = {} /\ told' = {} /\ data' = (data /\ table[Me].role = "master")
    /\ UNCHANGED <<black, world, crashed>>

addslots(j) ==
    /\ "slots" \in Events /\ slots[j] = Nobody
    /\ slots' = [slots EXCEPT ![j] = Me] /\ table' = [table EXCEPT ![Me].bits = @ \cup {j}]
    /\ importing' = [importing EXCEPT ![j] = Nobody]
    /\ UNCHANGED <<hs, black, migrating, data, world, told, crashed>>
delslots(j) ==
    /\ "slots" \in Events /\ slots[j] # Nobody
    /\ table' = [table EXCEPT ![slots[j]].bits = @ \ {j}] /\ slots' = [slots EXCEPT ![j] = Nobody]
    /\ importing' = [importing EXCEPT ![j] = Nobody]
    /\ UNCHANGED <<hs, black, migrating, data, world, told, crashed>>
flushslots ==
    /\ "slots" \in Events /\ ~data /\ table' = clusterDelNodeSlots(table, Me) /\ slots' = Unassigned(Me)
    /\ UNCHANGED <<hs, black, importing, migrating, data, world, told, crashed>>
setslotOpen(j, n) ==
    /\ "slots" \in Events /\ Present(table, n)
    /\ IF slots[j] = Me THEN migrating' = [migrating EXCEPT ![j] = n] /\ UNCHANGED importing
       ELSE importing' = [importing EXCEPT ![j] = n] /\ UNCHANGED migrating
    /\ UNCHANGED <<table, hs, black, slots, data, world, told, crashed>>
setslotStable(j) ==
    /\ "slots" \in Events
    /\ importing' = [importing EXCEPT ![j] = Nobody] /\ migrating' = [migrating EXCEPT ![j] = Nobody]
    /\ UNCHANGED <<table, hs, black, slots, data, world, told, crashed>>
setslotNode(j, n) ==
    /\ "slots" \in Events /\ Present(table, n)
    /\ slots[j] = Me /\ n # Me => ~data
    /\ migrating' = (IF data THEN migrating ELSE [migrating EXCEPT ![j] = Nobody])
    /\ importing' = (IF n = Me THEN [importing EXCEPT ![j] = Nobody] ELSE importing)
    /\ LET t == IF slots[j] = Nobody THEN table ELSE [table EXCEPT ![slots[j]].bits = @ \ {j}]
       IN  table' = [t EXCEPT ![n].bits = @ \cup {j}]
    /\ slots' = [slots EXCEPT ![j] = n]
    /\ UNCHANGED <<hs, black, data, world, told, crashed>>
\* Clients write and delete keys.
keys ==
    /\ table[Me].bits # {} /\ data' = ~data
    /\ UNCHANGED <<table, hs, black, slots, importing, migrating, world, told, crashed>>

-----------------------------------------------------------------------------
Init ==
    /\ \E f \in [Peers -> 1..NumAddrs] :
           /\ f = CHOOSE g \in [Peers -> 1..NumAddrs] : \A p, q \in Peers : p # q => g[p] # g[q]
           /\ at = [a \in Addrs |-> IF a = 0 THEN Me
                                    ELSE IF \E p \in Peers : f[p] = a THEN CHOOSE p \in Peers : f[p] = a ELSE Nobody]
           /\ been = {<<p, f[p]>> : p \in Peers}
           /\ table = [n \in Names |-> IF n = Me THEN createClusterNode("master", 0)
                                       ELSE IF n \in Known THEN createClusterNode(IF n \in Masters THEN "master" ELSE "slave", f[n])
                                       ELSE Absent]
    /\ hs = {} /\ black = {} /\ slots = [j \in Slots |-> Nobody] /\ importing = slots /\ migrating = slots
    /\ data = FALSE /\ moves = 0 /\ told = {} /\ crashed = FALSE

Packet ==
    \/ \E p \in Peers, m \in Names \cup {Nobody} : \E g \in Gossips(p) : receivePing(p, m, g) \/ receivePong(p, m, g)
    \/ \E p \in Peers : \E g \in Gossips(p) : receiveMeet(p, g)
    \/ \E x \in hs : handshakePong(x)
Timer == (\E x \in hs : handshakeTimeout(x)) \/ \E n \in Peers : pingTimeout(n) \/ clusterBlacklistCleanup(n)
Command ==
    \/ \E a \in Addrs : meetCommand(a)
    \/ \E n \in Peers : forgetCommand(n) \/ replicateCommand(n)
    \/ clusterReset \/ flushslots
    \/ \E j \in Slots : addslots(j) \/ delslots(j) \/ setslotStable(j)
                        \/ \E n \in Names : setslotOpen(j, n) \/ setslotNode(j, n)
Next ==
    /\ ~crashed
    /\ Packet \/ Timer \/ Command \/ keys \/ (\E p \in Peers, a \in 1..NumAddrs : move(p, a))
Spec == Init /\ [][Next]_vars
\* Peers go on pinging, and the cron runs.
Handshake(k) == <<(k + 1) \div 2, (k % 2) + 1>>
WeakPeer(p) == \E m \in Names \cup {Nobody}, g \in Gossips(p) : receivePing(p, m, g)
Weak(i) == handshakeTimeout(Handshake(i))

-----------------------------------------------------------------------------
TypeOK ==
    /\ \A n \in Names : /\ table[n].role \in {"absent", "master", "slave"} /\ table[n].bits \subseteq Slots
                        /\ table[n].addr \in Addrs \cup {NoAddr}
    /\ table[Me].role # "absent" /\ table[Me].slaveof \in Names \cup {Nobody}
    /\ hs \subseteq Addrs \X (1..2) /\ black \subseteq Peers

\* The table of slots and the bitmaps of the nodes tell the same, whoever leaves or changes its
\* role (redisAssert in clusterDelSlot, cluster.c:3363).
SlotsMatch == \A j \in Slots, n \in Names : slots[j] = n <=> j \in table[n].bits

\* A master lists exactly the slaves that point to it.
SlavesListed ==
    \A m, s \in Names : /\ s \in table[m].slaves => table[s].slaveof = m
                        /\ table[m].role = "master" /\ table[s].slaveof = m => s \in table[m].slaves

\* Nothing points to a node that was freed: no slaveof, no list of slaves, no slot.
NoDangling ==
    /\ \A n \in Names : table[n].slaveof # Freed /\ Freed \notin table[n].slaves
    /\ \A j \in Slots, f \in {slots, importing, migrating} : f[j] # Nobody => Present(table, f[j])

\* What gossip says of a node in the blacklist does not bring the node back: it comes
\* back only through a handshake that was under way when it was forgotten (the end of a
\* handshake, cluster.c:1702, does not look at the blacklist), that MEET has started, or
\* that gossip about another node, which has lived at this address, has started.
ForgottenStays ==
    \A n \in black \cap black' :
        ~Present(table, n) /\ Present(table', n) => \A x \in hs \ hs' : <<x, n>> \notin told

\* Without the exceptions, as cluster.c:1058 has it ("to ensure that a given node with a
\* given Node ID is not readded before some time elapsed"): not what the code guarantees.
NotReadded == \A n \in black \cap black' : ~Present(table, n) => ~Present(table', n)

\* The assertion of clusterSetMaster that Me serves no slot.
NeverAsserts == ~crashed

\* The table has the addresses of the peers: for good, once they stay where they are.
Settled == \A p \in Peers : Present(table, p) => table[p].addr = Where(p)

\* A handshake is going on, and must not be for ever.
Unfinished(k) == Handshake(k) \in hs
=============================================================================
