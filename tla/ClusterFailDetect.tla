------------------------- MODULE ClusterFailDetect -------------------------
(***************************************************************************)
(* The failure detector of Redis Cluster (cluster.c): a node that does not  *)
(* answer a PING within the node timeout is PFAIL for who sent it; masters  *)
(* gossip about that, and whoever holds it for PFAIL itself and has reports *)
(* of a majority of the masters makes it FAIL, and tells everybody.         *)
(*                                                                         *)
(* Timeouts are steps without a clock: the node timeout can pass only while *)
(* the other node is cut off, the life time of a report and the time after  *)
(* which a FAIL is old enough to be undone at any time.                     *)
(***************************************************************************)
EXTENDS Integers, FiniteSets

CONSTANTS Masters,    \* each serves slots
          Slaves,
          Suspects,   \* the nodes that are pinged: failures of others are left out
          MaxCuts,    \* bound on partitions
          MaxNet      \* bound on packets

Nodes == Masters \cup Slaves
Watchers(x) == Nodes \ {x}

NodesAssumption ==
    /\ IsFiniteSet(Nodes) /\ Masters # {} /\ Masters \cap Slaves = {}
    /\ Suspects \subseteq Masters
    /\ MaxCuts \in Nat /\ MaxNet \in Nat

VARIABLES
    flag,     \* flag[n][x]: "ok", "pfail" or "fail", what n holds x for
    old,      \* old[n][x]: the FAIL is older than FAIL_UNDO_TIME_MULT timeouts
    reports,  \* reports[n][x]: who told n that x fails (fail_reports)
    state,    \* per node, cluster->state
    minority, \* per node, it was in a minority less than rejoin_delay ago
    net,      \* packets on the bus: gossip about a node, and FAIL
    cut,      \* a set of nodes separated from the others
    cuts,     \* partitions so far
    hadPfail  \* history: <<n, x>> when n has had x for PFAIL

vars == <<flag, old, reports, state, minority, net, cut, cuts, hadPfail>>

Reach(n, x) == n \in cut <=> x \in cut
needed_quorum == Cardinality(Masters) \div 2 + 1     \* cluster->size / 2 + 1

-----------------------------------------------------------------------------
(* cluster->state, once the flags of node n are f.  All slots are covered   *)
(* by masters, and cluster_require_full_coverage is set.                    *)

Reachable(f) == {m \in Masters : f[m] = "ok"}
Uncovered(f) == \E m \in Masters : f[m] = "fail"

clusterUpdateState(n, f) ==
    LET few == Cardinality(Reachable(f)) < needed_quorum
        new == IF Uncovered(f) \/ few THEN "fail" ELSE "ok"
        waits == new = "ok" /\ n \in Masters /\ minority[n]
    IN  /\ state' = [state EXCEPT ![n] = IF waits THEN @ ELSE new]
        /\ minority' = [minority EXCEPT ![n] = @ \/ few]

\* Node n changes what it holds x for; every such change updates the state.
Flag(n, x, new) ==
    /\ flag' = [flag EXCEPT ![n][x] = new]
    /\ clusterUpdateState(n, flag'[n])

Keep == UNCHANGED <<flag, old, state, minority>>

-----------------------------------------------------------------------------
(* clusterCron                                                             *)

\* A PING was not answered for longer than the node timeout.
PingTimeout(n, x) ==
    /\ n # x /\ ~Reach(n, x) /\ flag[n][x] = "ok"
    /\ Flag(n, x, "pfail")
    /\ hadPfail' = hadPfail \cup {<<n, x>>}
    /\ UNCHANGED <<old, reports, net, cut, cuts>>

\* The rejoin delay is over; clusterCron evaluates the state while it is fail.
RejoinDelay(n) ==
    /\ minority[n]
    /\ Cardinality(Reachable(flag[n])) >= needed_quorum
    /\ minority' = [minority EXCEPT ![n] = FALSE]
    /\ state' = [state EXCEPT ![n] = IF Uncovered(flag[n]) THEN "fail" ELSE "ok"]
    /\ UNCHANGED <<flag, old, reports, net, cut, cuts, hadPfail>>

\* clearNodeFailureIfNeeded: x, a master that serves slots, stays FAIL until
\* that is old enough, so that there is time to fail over.
clearNodeFailureIfNeeded(n, x) == old[n][x]

\* A PONG of x.
ReceivePong(n, x) ==
    /\ n # x /\ Reach(n, x)
    /\ \/ flag[n][x] = "pfail"
       \/ flag[n][x] = "fail" /\ clearNodeFailureIfNeeded(n, x)
    /\ Flag(n, x, "ok")
    /\ UNCHANGED <<old, reports, net, cut, cuts, hadPfail>>

FailIsOld(n, x) ==
    /\ flag[n][x] = "fail" /\ ~old[n][x]
    /\ old' = [old EXCEPT ![n][x] = TRUE]
    /\ UNCHANGED <<flag, reports, state, minority, net, cut, cuts, hadPfail>>

-----------------------------------------------------------------------------
(* Gossip                                                                  *)

\* clusterSendPing: the gossip section says what the sender holds x for.
SendGossip(n, k, x) ==
    /\ n # k /\ k # x /\ n # x /\ Reach(n, k)
    /\ Cardinality(net) < MaxNet
    /\ net' = net \cup {[type |-> "gossip", from |-> n, to |-> k, about |-> x,
                         bad |-> flag[n][x] # "ok"]}
    /\ UNCHANGED <<flag, old, reports, state, minority, cut, cuts, hadPfail>>

clusterNodeAddFailureReport(n, x, from) == reports[n][x] \cup {from}
clusterNodeDelFailureReport(n, x, from) == reports[n][x] \ {from}

\* clusterNodeCleanupFailureReports: a report is too old to count.
ExpireReport(n, x, from) ==
    /\ from \in reports[n][x]
    /\ reports' = [reports EXCEPT ![n][x] = @ \ {from}]
    /\ UNCHANGED <<flag, old, state, minority, net, cut, cuts, hadPfail>>

clusterSendFail(n, x) ==
    {[type |-> "fail", from |-> n, to |-> k, about |-> x, bad |-> TRUE] :
        k \in {k \in Nodes \ {n, x} : Reach(n, k)}}

\* Whether n, with these reports, has to flag x, which it holds for PFAIL.
markNodeAsFailingIfNeeded_Half(n, x, rep) ==
    /\ flag[n][x] = "pfail"
    /\ Cardinality(rep) + (IF n \in Masters THEN 1 ELSE 0) >= needed_quorum - 1
markNodeAsFailingIfNeeded(n, x, rep) ==
    /\ flag[n][x] = "pfail"
    /\ Cardinality(rep) + (IF n \in Masters THEN 1 ELSE 0) >= needed_quorum

\* Only masters report.
Reports(p) == p.from \in Masters

\* clusterProcessGossipSection
ReceiveGossip(p) ==
    LET n == p.to
        x == p.about
        rep == IF ~Reports(p) THEN reports[n][x]
               ELSE IF p.bad THEN clusterNodeAddFailureReport(n, x, p.from)
               ELSE clusterNodeDelFailureReport(n, x, p.from)
        marks == Reports(p) /\ p.bad /\ markNodeAsFailingIfNeeded(n, x, rep)
    IN  /\ p.type = "gossip"
        /\ reports' = [reports EXCEPT ![n][x] = rep]
        /\ IF marks THEN /\ Flag(n, x, "fail")
                         /\ old' = [old EXCEPT ![n][x] = FALSE]
           ELSE Keep
        /\ net' = (net \ {p}) \cup (IF marks /\ n \in Masters THEN clusterSendFail(n, x) ELSE {})
        /\ UNCHANGED <<cut, cuts, hadPfail>>

ReceiveFail(p) ==
    LET n == p.to x == p.about
    IN  /\ p.type = "fail"
        /\ IF flag[n][x] # "fail" THEN /\ Flag(n, x, "fail")
                                       /\ old' = [old EXCEPT ![n][x] = FALSE]
           ELSE Keep
        /\ net' = net \ {p}
        /\ UNCHANGED <<reports, cut, cuts, hadPfail>>

\* A link breaks with what is on it.
Lose(p) ==
    /\ ~Reach(p.from, p.to)
    /\ net' = net \ {p}
    /\ UNCHANGED <<flag, old, reports, state, minority, cut, cuts, hadPfail>>

-----------------------------------------------------------------------------
(* External: the network is cut in two, and heals.                         *)

Cut(side) ==
    /\ cut = {} /\ cuts < MaxCuts
    /\ side # {} /\ cut' = side
    /\ cuts' = cuts + 1
    /\ UNCHANGED <<flag, old, reports, state, minority, net, hadPfail>>
Heal ==
    /\ cut # {} /\ cut' = {}
    /\ UNCHANGED <<flag, old, reports, state, minority, net, cuts, hadPfail>>

-----------------------------------------------------------------------------
Init ==
    /\ flag = [n \in Nodes |-> [x \in Masters |-> "ok"]]
    /\ old = [n \in Nodes |-> [x \in Masters |-> FALSE]]
    /\ reports = [n \in Nodes |-> [x \in Masters |-> {}]]
    /\ state = [n \in Nodes |-> "ok"]
    /\ minority = [n \in Nodes |-> FALSE]
    /\ net = {} /\ cut = {} /\ cuts = 0 /\ hadPfail = {}

Sides == {{x} : x \in Suspects}

Next ==
    \/ \E n \in Nodes, x \in Suspects : PingTimeout(n, x)
    \/ \E n \in Nodes, x \in Suspects : ReceivePong(n, x)
    \/ \E n \in Nodes, x \in Suspects : FailIsOld(n, x)
    \/ \E n \in Nodes : RejoinDelay(n)
    \/ \E n, k \in Nodes, x \in Suspects : SendGossip(n, k, x)
    \/ \E n, k \in Nodes, x \in Suspects : ExpireReport(n, x, k)
    \/ \E p \in net : ReceiveGossip(p)
    \/ \E p \in net : ReceiveFail(p)
    \/ \E p \in net : Lose(p)
    \/ \E side \in Sides : Cut(side)
    \/ Heal

Spec == Init /\ [][Next]_vars

\* Every node keeps pinging, its clock runs and it reads what arrives; and the
\* masters gossip about each suspect again and again.
Weak(n, x) == PingTimeout(n, x) \/ ReceivePong(n, x) \/ FailIsOld(n, x)
WeakNode(n) == RejoinDelay(n)
WeakNet == \E p \in net : ReceiveGossip(p) \/ ReceiveFail(p)
Strong(n, k) == \E x \in Suspects : SendGossip(n, k, x)

-----------------------------------------------------------------------------
\* Flags, reports, states and packets are what the tables can hold.
TypeOK ==
    /\ flag \in [Nodes -> [Masters -> {"ok", "pfail", "fail"}]]
    /\ old \in [Nodes -> [Masters -> BOOLEAN]]
    /\ reports \in [Nodes -> [Masters -> SUBSET Masters]]
    /\ state \in [Nodes -> {"ok", "fail"}] /\ minority \in [Nodes -> BOOLEAN]
    /\ net \subseteq [type : {"gossip", "fail"}, from : Nodes, to : Nodes,
                      about : Suspects, bad : BOOLEAN]
    /\ cut \subseteq Nodes /\ cuts \in 0..MaxCuts /\ hadPfail \subseteq Nodes \X Masters

\* Nobody holds a master for FAIL unless a majority of the masters, which is what
\* markNodeAsFailingIfNeeded asks for, could not reach it themselves.
FailHasMajority ==
    \A n \in Nodes, x \in Suspects : flag[n][x] = "fail" =>
        Cardinality({m \in Masters : <<m, x>> \in hadPfail}) >= needed_quorum

\* A node whose cluster is ok sees a majority of the masters, none of them FAIL.
OkHasMajority ==
    \A n \in Nodes : state[n] = "ok" =>
        Cardinality(Reachable(flag[n])) >= needed_quorum /\ ~Uncovered(flag[n])

\* A master that is cut off is FAIL for all that can be reached ("the FAIL state will
\* propagate to all the cluster"), and its own cluster is fail; when the network has
\* healed, every flag is cleared and every node's cluster is ok ("the FAIL flag will be
\* cleared after some time").  For good, as partitions are finitely many.
Settled ==
    /\ \A x \in Suspects : cut = {x} =>
          /\ \A n \in Watchers(x) : flag[n][x] = "fail"
          /\ Suspects = Masters => state[x] = "fail"
    /\ cut = {} => \A n \in Nodes : state[n] = "ok" /\ \A x \in Masters : flag[n][x] = "ok"
=============================================================================
