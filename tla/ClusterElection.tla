-------------------------- MODULE ClusterElection --------------------------
(***************************************************************************)
(* Redis Cluster (cluster.c): how a slave of a failing master is elected,   *)
(* how the new configuration (who serves which slot, under which            *)
(* configEpoch) spreads over the cluster bus, and how colliding epochs are  *)
(* resolved.                                                               *)
(*                                                                         *)
(* A node is one thread: an event handler together with                    *)
(* clusterBeforeSleep, which saves nodes.conf before anything the handler   *)
(* queued can be written to a socket, is one step.  Between two nodes there *)
(* are two connections, one opened by each side, so that packets from one   *)
(* to the other can overtake each other; a link may also be missing, or     *)
(* break with what is queued on it.                                         *)
(***************************************************************************)
EXTENDS Integers, FiniteSets, FiniteSetsExt

CONSTANTS Node,       \* natural numbers, in the order of the node ids
          Slot,       \* natural numbers: groups of hash slots
          Owner0,     \* who serves a slot at first
          SlaveOf0,   \* the master of a node at first, or None
          Failed0,    \* nodes all others have flagged FAIL at first
          Suspects,   \* nodes that may be flagged FAIL, rightly or not
          Recovers,   \* ... and cleared again
          Pings,      \* who pings whom, besides answers and broadcasts
          Commands,   \* CLUSTER FAILOVER options a user may give
          LateAcks,   \* a vote may arrive after the retry time of its election
          Killed,     \* nodes that may be killed and started again
          MaxEpoch, MaxNet, MaxRestarts  \* bounds: epochs, packets, restarts

None == 0

NodesAssumption ==
    /\ Node \subseteq Nat \ {None} /\ IsFiniteSet(Node)
    /\ Slot \subseteq Nat /\ IsFiniteSet(Slot)
    /\ Owner0 \in [Slot -> Node] /\ SlaveOf0 \in [Node -> Node \cup {None}]
    /\ \A s \in Slot : SlaveOf0[Owner0[s]] = None
    /\ Failed0 \cup Suspects \cup Killed \subseteq Node /\ Commands \subseteq {"force", "takeover"}
    /\ Pings \subseteq Node \X Node /\ {LateAcks, Recovers} \subseteq BOOLEAN
    /\ MaxEpoch \in Nat /\ MaxNet \in Nat /\ MaxRestarts \in Nat

VARIABLES
    view,     \* per node, its server.cluster
    disk,     \* per node, its nodes.conf
    net,      \* packets on the bus
    won,      \* history: the elections won, <<node, epoch>>
    restarts, \* restarts so far
    doubtful  \* history: epochs whose votes a restart forgot, or that were won
              \* with a vote of an earlier one

vars == <<view, disk, net, won, restarts, doubtful>>

nodeIsMaster(v, n) == v.slaveof[n] = None
SlotsOf(v, n) == {s \in Slot : v.slots[s] = n}
Voters(v) == {n \in Node : nodeIsMaster(v, n) /\ SlotsOf(v, n) # {}}  \* cluster->size

clusterGetMaxEpoch(v) == Max({v.currentEpoch} \cup {v.configEpoch[n] : n \in Node})

\* What nodes.conf holds, and whether a step made a node write it: every change
\* of the node table asks for it, a new currentEpoch or lastVoteEpoch does not.
Table(v) == <<v.configEpoch, v.slaveof, v.slots, v.fail>>
clusterSaveConfig(v) ==
    [currentEpoch |-> v.currentEpoch, lastVoteEpoch |-> v.lastVoteEpoch,
     configEpoch |-> v.configEpoch, slaveof |-> v.slaveof, slots |-> v.slots, fail |-> v.fail]

\* A node that has just read its nodes.conf.
clusterLoadConfig(d) ==
    [currentEpoch |-> Max({d.currentEpoch} \cup {d.configEpoch[n] : n \in Node}),
     lastVoteEpoch |-> d.lastVoteEpoch,
     configEpoch |-> d.configEpoch, slaveof |-> d.slaveof, slots |-> d.slots, fail |-> d.fail,
     auth |-> "idle",   \* idle, delayed, sent, expired
     auth_epoch |-> 0, auth_count |-> 0,
     manual |-> FALSE,  \* mf_end and mf_can_start
     voted |-> {},      \* masters with a voted_time
     late |-> FALSE]    \* history: auth_count has a vote of an earlier election

\* A cluster whose masters were created with different epochs and whose nodes
\* have exchanged heartbeats: a slave is known under the epoch of its master.
Disk0(me) ==
    LET e == [n \in Node |-> IF SlaveOf0[n] = None THEN n ELSE IF n = me THEN 0 ELSE SlaveOf0[n]]
    IN  [currentEpoch |-> Max({e[n] : n \in Node}), lastVoteEpoch |-> 0,
         configEpoch |-> e, slaveof |-> SlaveOf0, slots |-> Owner0, fail |-> Failed0 \ {me}]

\* clusterBuildMessageHdr: a slave sends the slots and the epoch of its master.
Packet(v, n, to, type) ==
    LET m == IF nodeIsMaster(v, n) THEN n ELSE v.slaveof[n]
    IN  [type |-> type, from |-> n, to |-> to,
         currentEpoch |-> v.currentEpoch, configEpoch |-> v.configEpoch[m],
         slaveof |-> v.slaveof[n], myslots |-> SlotsOf(v, m),
         force |-> type = "request" /\ v.manual,
         about |-> None, aboutEpoch |-> 0, aboutSlots |-> {}]

clusterSendUpdate(v, n, to, m) ==
    [Packet(v, n, to, "update") EXCEPT
        !.about = m, !.aboutEpoch = v.configEpoch[m], !.aboutSlots = SlotsOf(v, m)]

clusterBroadcastMessage(v, n, type) == {Packet(v, n, k, type) : k \in Node \ {n}}

-----------------------------------------------------------------------------
(* What a step of node n does with its new state and the packets it sends. *)

\* Links may be missing: any part of what is sent may go nowhere.
Send(rest, out) == \E sub \in SUBSET out :
    /\ Cardinality(rest \cup sub) <= MaxNet
    /\ net' = rest \cup sub

Save(n, v, forced) ==
    disk' = [disk EXCEPT ![n] = IF forced \/ Table(v) # Table(view[n])
                                THEN clusterSaveConfig(v) ELSE @]

Step(n, v, forced, rest, out) ==
    /\ view' = [view EXCEPT ![n] = v]
    /\ Save(n, v, forced)
    /\ Send(rest, out)

-----------------------------------------------------------------------------
(* The configuration: slots and roles.                                     *)

clusterSetNodeAsMaster(v, n) == [v EXCEPT !.slaveof[n] = None]

clusterSetMaster(v, me, n) == [v EXCEPT !.slaveof[me] = n, !.manual = FALSE]

\* Node me hears that snd serves these slots under this epoch.
clusterUpdateSlotsConfigWith(v, me, snd, epoch, slots) ==
    LET cur   == IF nodeIsMaster(v, me) THEN me ELSE v.slaveof[me]
        taken == {s \in slots : v.slots[s] # snd
                     /\ (v.slots[s] = None \/ v.configEpoch[v.slots[s]] < epoch)}
        w     == [v EXCEPT !.slots = [s \in Slot |-> IF s \in taken THEN snd ELSE v.slots[s]]]
    IN  IF snd = me THEN v
        ELSE IF taken \cap SlotsOf(v, cur) # {} /\ SlotsOf(w, cur) = {}
             THEN clusterSetMaster(w, me, snd) ELSE w

clusterHandleConfigEpochCollision(v, me, p) ==
    IF /\ nodeIsMaster(v, me) /\ nodeIsMaster(v, p.from)
       /\ p.configEpoch = v.configEpoch[me]
       /\ v.configEpoch[p.from] = v.configEpoch[me]
       /\ p.from > me
    THEN [v EXCEPT !.currentEpoch = @ + 1, !.configEpoch[me] = v.currentEpoch + 1]
    ELSE v

\* The first part of clusterProcessPacket, for a sender that is known.
SeeHeader(v, p) ==
    [v EXCEPT !.currentEpoch = Max({@, p.currentEpoch}),
              !.configEpoch[p.from] = Max({@, p.configEpoch})]

\* A role switch of the sender.
SeeRole(v, p) ==
    IF p.slaveof = None THEN clusterSetNodeAsMaster(v, p.from)
    ELSE [v EXCEPT !.slots = [s \in Slot |-> IF v.slots[s] = p.from /\ nodeIsMaster(v, p.from)
                                             THEN None ELSE v.slots[s]],
                   !.slaveof[p.from] = p.slaveof]

\* The UPDATE for a sender that claims what a newer configuration gave away.
DeprecatedClaims(v, p) ==
    {s \in p.myslots : v.slots[s] \notin {p.from, None}
                       /\ v.configEpoch[v.slots[s]] > p.configEpoch}

\* PING and PONG.
ProcessHeartbeat(v, me, p) ==
    LET v1 == SeeRole(SeeHeader(v, p), p)
        m  == IF nodeIsMaster(v1, p.from) THEN p.from ELSE v1.slaveof[p.from]
        dirty == SlotsOf(v1, m) # p.myslots
        v2 == IF dirty /\ nodeIsMaster(v1, p.from)
              THEN clusterUpdateSlotsConfigWith(v1, me, p.from, p.configEpoch, p.myslots)
              ELSE v1
        old == IF dirty THEN DeprecatedClaims(v2, p) ELSE {}
        v3 == clusterHandleConfigEpochCollision(v2, me, p)
    IN  [v |-> v3,
         out |-> (IF p.type = "ping" THEN {Packet(SeeHeader(v, p), me, p.from, "pong")} ELSE {})
                 \cup {clusterSendUpdate(v2, me, p.from, v2.slots[Min(old)]) : x \in old}]

ReceiveHeartbeat(p) ==
    LET r == ProcessHeartbeat(view[p.to], p.to, p)
    IN  /\ p.type \in {"ping", "pong"}
        /\ Step(p.to, r.v, FALSE, net \ {p}, r.out)
        /\ UNCHANGED <<won, restarts, doubtful>>

ProcessUpdate(v, me, p) ==
    LET v1 == SeeHeader(v, p)
        v2 == [clusterSetNodeAsMaster(v1, p.about) EXCEPT !.configEpoch[p.about] = p.aboutEpoch]
    IN  IF v1.configEpoch[p.about] >= p.aboutEpoch THEN v1
        ELSE clusterUpdateSlotsConfigWith(v2, me, p.about, p.aboutEpoch, p.aboutSlots)

ReceiveUpdate(p) ==
    /\ p.type = "update"
    /\ Step(p.to, ProcessUpdate(view[p.to], p.to, p), FALSE, net \ {p}, {})
    /\ UNCHANGED <<won, restarts, doubtful>>

\* clusterCron pings a node at random every second, and every node that has not
\* been heard of for half the node timeout.
clusterSendPing(n, k) ==
    /\ n # k /\ <<n, k>> \in Pings
    /\ Cardinality(net) < MaxNet
    /\ net' = net \cup {Packet(view[n], n, k, "ping")}
    /\ UNCHANGED <<view, disk, won, restarts, doubtful>>

\* External to this module: the failure detector flags, or clears, k.
MarkFail(n, k) ==
    /\ n # k /\ k \in Suspects \ view[n].fail
    /\ Step(n, [view[n] EXCEPT !.fail = @ \cup {k}], FALSE, net, {})
    /\ UNCHANGED <<won, restarts, doubtful>>
ClearFail(n, k) ==
    /\ Recovers /\ k \in view[n].fail
    /\ Step(n, [view[n] EXCEPT !.fail = @ \ {k}], FALSE, net, {})
    /\ UNCHANGED <<won, restarts, doubtful>>

-----------------------------------------------------------------------------
(* The election.                                                           *)

\* The conditions under which clusterHandleSlaveFailover goes on.  That the
\* slave's data may be too old is a step that is not taken.
MayFailover(v, n) ==
    /\ ~nodeIsMaster(v, n)
    /\ v.slaveof[n] \in v.fail \/ v.manual
    /\ SlotsOf(v, v.slaveof[n]) # {}

\* The retry time has passed: a new election is scheduled.
ScheduleElection(n) ==
    LET v == view[n]
    IN  /\ MayFailover(v, n) /\ v.auth \in {"idle", "expired"}
        /\ LateAcks \/ \A p \in net : ~(p.type = "ack" /\ p.to = n)
        /\ Step(n, [v EXCEPT !.auth = "delayed", !.auth_count = 0, !.late = FALSE], FALSE, net,
                {Packet(v, n, k, "pong") :
                    k \in {k \in Node \ {n} : v.slaveof[k] = v.slaveof[n]}})
        /\ UNCHANGED <<won, restarts, doubtful>>

clusterRequestFailoverAuth(n) ==
    LET v == view[n]
        w == [v EXCEPT !.auth = "sent", !.currentEpoch = @ + 1, !.auth_epoch = v.currentEpoch + 1]
    IN  /\ MayFailover(v, n) /\ v.auth = "delayed"
        /\ v.currentEpoch < MaxEpoch
        /\ Step(n, w, TRUE, net, clusterBroadcastMessage(w, n, "request"))
        /\ UNCHANGED <<won, restarts, doubtful>>

\* auth_timeout has passed.
ElectionExpires(n) ==
    /\ view[n].auth \in {"delayed", "sent"}
    /\ Step(n, [view[n] EXCEPT !.auth = "expired"], FALSE, net, {})
    /\ UNCHANGED <<won, restarts, doubtful>>

\* clusterSendFailoverAuthIfNeeded: whether node me votes for the sender of p.
Grants(v, me, p) ==
    /\ nodeIsMaster(v, me) /\ SlotsOf(v, me) # {}
    /\ p.currentEpoch >= v.currentEpoch
    /\ v.lastVoteEpoch # v.currentEpoch
    /\ ~nodeIsMaster(v, p.from)
    /\ v.slaveof[p.from] \in v.fail \/ p.force
    /\ \A s \in p.myslots : v.slots[s] = None \/ v.configEpoch[v.slots[s]] <= p.configEpoch

ReceiveAuthRequest(p) ==
    LET me == p.to
        v == SeeHeader(view[me], p)
        w == [v EXCEPT !.lastVoteEpoch = v.currentEpoch, !.voted = @ \cup {v.slaveof[p.from]}]
    IN  /\ p.type = "request"
        /\ \/ /\ Grants(v, me, p)
              /\ Step(me, w, FALSE, net \ {p}, {Packet(v, me, p.from, "ack")})
           \/ \* refused, perhaps because it voted less than two node timeouts ago
              /\ ~Grants(v, me, p) \/ v.slaveof[p.from] \in v.voted
              /\ Step(me, v, FALSE, net \ {p}, {})
        /\ UNCHANGED <<won, restarts, doubtful>>

ReceiveAuthAck(p) ==
    LET v == SeeHeader(view[p.to], p)
        counts == p.from \in Voters(v) /\ p.currentEpoch >= v.auth_epoch
    IN  /\ p.type = "ack"
        /\ Step(p.to, [v EXCEPT !.auth_count = @ + IF counts THEN 1 ELSE 0,
                                !.late = @ \/ (counts /\ v.auth # "sent")],
                FALSE, net \ {p}, {})
        /\ UNCHANGED <<won, restarts, doubtful>>

clusterFailoverReplaceYourMaster(v, n) ==
    LET old == v.slaveof[n]
    IN  [clusterSetNodeAsMaster(v, n) EXCEPT
            !.slots = [s \in Slot |-> IF v.slots[s] = old THEN n ELSE v.slots[s]],
            !.manual = FALSE]

needed_quorum(v) == Cardinality(Voters(v)) \div 2 + 1

WinElection(n) ==
    LET v == view[n]
        w == clusterFailoverReplaceYourMaster(
                [v EXCEPT !.configEpoch[n] = Max({@, v.auth_epoch})], n)
    IN  /\ MayFailover(v, n) /\ v.auth = "sent" /\ v.auth_count >= needed_quorum(v)
        /\ Step(n, w, TRUE, net, clusterBroadcastMessage(w, n, "pong"))
        /\ won' = won \cup {<<n, v.auth_epoch>>}
        /\ doubtful' = doubtful \cup (IF v.late THEN {v.auth_epoch} ELSE {})
        /\ UNCHANGED restarts

-----------------------------------------------------------------------------
(* CLUSTER FAILOVER FORCE and TAKEOVER, sent to a slave.                   *)

failoverForce(n) ==
    /\ "force" \in Commands
    /\ ~nodeIsMaster(view[n], n) /\ ~view[n].manual
    /\ Step(n, [view[n] EXCEPT !.manual = TRUE], FALSE, net, {})
    /\ UNCHANGED <<won, restarts, doubtful>>

manualFailoverCheckTimeout(n) ==
    /\ view[n].manual
    /\ Step(n, [view[n] EXCEPT !.manual = FALSE], FALSE, net, {})
    /\ UNCHANGED <<won, restarts, doubtful>>

clusterBumpConfigEpochWithoutConsensus(v, n) ==
    IF v.configEpoch[n] = 0 \/ v.configEpoch[n] # clusterGetMaxEpoch(v)
    THEN [v EXCEPT !.currentEpoch = @ + 1, !.configEpoch[n] = v.currentEpoch + 1]
    ELSE v

failoverTakeover(n) ==
    LET w == clusterFailoverReplaceYourMaster(
                clusterBumpConfigEpochWithoutConsensus(view[n], n), n)
    IN  /\ "takeover" \in Commands /\ view[n].currentEpoch < MaxEpoch
        /\ ~nodeIsMaster(view[n], n)
        /\ Step(n, w, TRUE, net, clusterBroadcastMessage(w, n, "pong"))
        /\ UNCHANGED <<won, restarts, doubtful>>

\* The process is killed and started again: it forgets the votes that no change
\* of its table has written to nodes.conf.
Restart(n) ==
    /\ n \in Killed /\ restarts < MaxRestarts
    /\ restarts' = restarts + 1
    /\ doubtful' = doubtful \cup (disk[n].lastVoteEpoch + 1 .. view[n].lastVoteEpoch)
    /\ view' = [view EXCEPT ![n] = clusterLoadConfig(disk[n])]
    /\ UNCHANGED <<disk, net, won>>

-----------------------------------------------------------------------------
Init ==
    /\ view = [n \in Node |-> clusterLoadConfig(Disk0(n))]
    /\ disk = [n \in Node |-> Disk0(n)]
    /\ net = {} /\ won = {} /\ restarts = 0 /\ doubtful = {}

Next ==
    \/ \E p \in net : ReceiveHeartbeat(p)
    \/ \E p \in net : ReceiveUpdate(p)
    \/ \E p \in net : ReceiveAuthRequest(p)
    \/ \E p \in net : ReceiveAuthAck(p)
    \/ \E n, k \in Node : clusterSendPing(n, k)
    \/ \E n, k \in Node : MarkFail(n, k)
    \/ \E n, k \in Node : ClearFail(n, k)
    \/ \E n \in Node : ScheduleElection(n)
    \/ \E n \in Node : clusterRequestFailoverAuth(n)
    \/ \E n \in Node : ElectionExpires(n)
    \/ \E n \in Node : WinElection(n)
    \/ \E n \in Node : failoverForce(n)
    \/ \E n \in Node : manualFailoverCheckTimeout(n)
    \/ \E n \in Node : failoverTakeover(n)
    \/ \E n \in Node : Restart(n)

Spec == Init /\ [][Next]_vars

-----------------------------------------------------------------------------
(* Properties.                                                             *)

Views == [currentEpoch : Nat, lastVoteEpoch : Nat, configEpoch : [Node -> Nat],
          slaveof : [Node -> Node \cup {None}], slots : [Slot -> Node \cup {None}],
          fail : SUBSET Node, auth : {"idle", "delayed", "sent", "expired"},
          auth_epoch : Nat, auth_count : Nat, manual : BOOLEAN, voted : SUBSET Node,
          late : BOOLEAN]
Confs == [currentEpoch : Nat, lastVoteEpoch : Nat, configEpoch : [Node -> Nat],
          slaveof : [Node -> Node \cup {None}], slots : [Slot -> Node \cup {None}],
          fail : SUBSET Node]
Packets == [type : {"ping", "pong", "update", "request", "ack"}, from : Node, to : Node,
            currentEpoch : Nat, configEpoch : Nat, slaveof : Node \cup {None},
            myslots : SUBSET Slot, force : BOOLEAN,
            about : Node \cup {None}, aboutEpoch : Nat, aboutSlots : SUBSET Slot]

\* The tables of the nodes, their files and the packets are well formed.
TypeOK ==
    /\ view \in [Node -> Views] /\ disk \in [Node -> Confs]
    /\ net \subseteq Packets
    /\ won \subseteq Node \X Nat /\ restarts \in Nat /\ doubtful \subseteq Nat

\* No two slaves win an election with the same epoch, as a majority votes and
\* nobody votes twice in an epoch (clusterSendFailoverAuthIfNeeded), unless a voter
\* was restarted before its vote was saved, or a winner has counted a vote that
\* was meant for its election before and came once the next was scheduled.
OneWinnerPerEpoch ==
    \A a, b \in won : a[2] = b[2] => a[1] = b[1] \/ a[2] \in doubtful

\* Without the exceptions, as cluster.c:999 has it ("It is not possible that
\* different slaves get the same config epoch during a failover election"): not
\* what the code guarantees.
EpochWonOnce == \A a, b \in won : a[2] = b[2] => a[1] = b[1]

\* No node knows a configEpoch greater than its currentEpoch, in memory or in
\* its file: clusterLoadConfig calls it "something that should never happen".
EpochsBehindCurrent ==
    \A n \in Node : /\ \A k \in Node : view[n].configEpoch[k] <= view[n].currentEpoch
                    /\ \A k \in Node : disk[n].configEpoch[k] <= disk[n].currentEpoch

\* A slave serves no slots in its own table: clusterSetMaster asserts it when it
\* makes the node follow another master.
SlavesServeNothing ==
    \A n \in Node : ~nodeIsMaster(view[n], n) => SlotsOf(view[n], n) = {}

\* Epoch e was won twice, by n and k (OneWinnerPerEpoch's exceptions).
WonTwice(n, k, e) == e \in doubtful /\ {<<n, e>>, <<k, e>>} \subseteq won

\* Two nodes that both take themselves for the owner of a slot have different
\* configEpochs, so that the others, and they, can tell who lost it, but for an
\* epoch that both have won.
RivalsDiffer ==
    \A n, k \in Node : n # k /\ SlotsOf(view[n], n) \cap SlotsOf(view[k], k) # {}
        => \/ view[n].configEpoch[n] # view[k].configEpoch[k]
           \/ WonTwice(n, k, view[n].configEpoch[n])

\* A heartbeat of n would change nothing at k, nor make it answer with an UPDATE.
Heard(n, k) ==
    LET r == ProcessHeartbeat(view[k], k, Packet(view[n], n, k, "pong"))
    IN  r.v = view[k] /\ r.out = {}

\* The exchange of heartbeats stops correcting only what is right: once k has
\* nothing more to learn from, or to tell, n, it takes n for the owner of the
\* slots n claims, also when n is a master that comes back after a failover.  Of
\* two winners of an epoch it may keep the other one, until the collision of their
\* epochs is resolved.
ClaimsSettle ==
    \A n, k \in Node : n # k /\ Heard(n, k) =>
        \A s \in SlotsOf(view[n], n) :
            view[k].slots[s] = n \/ WonTwice(n, view[k].slots[s], view[n].configEpoch[n])

\* A slave that replaces its master does so under a configEpoch greater than the
\* one it knows of that master: clusterFailoverReplaceYourMaster leaves it to its
\* caller "to be sure that the node got a new configuration epoch already".
NewMastersAreNewer ==
    \A n \in Node :
          ~nodeIsMaster(view[n], n) /\ SlotsOf(view[n]', n) # {}
          => view[n].configEpoch[n]' > view[n].configEpoch[view[n].slaveof[n]]
=============================================================================
