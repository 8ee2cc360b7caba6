----------------------------- MODULE MCCluster ------------------------------
(***************************************************************************)
(* Several redis servers and sentinels that decide together: votes, failure   *)
(* detection, tables of nodes, moving slots, failover by sentinels; and the   *)
(* ring that spreads keys over servers; on small instances.  A behaviour is   *)
(* one of one part: part says which, and x1, x2, ... are its variables.       *)
(***************************************************************************)
EXTENDS SentinelElection, Integers, Sequences, TLC

CONSTANTS Parts, s1, s2, s3   \* Parts: those that are checked

VARIABLES part, x1, x2, x3, x4, x5, x6, x7, x8, x9, x10, x11, x12, x13

allVars == <<part, x1, x2, x3, x4, x5, x6, x7, x8, x9, x10, x11, x12, x13, vars>>
Is(p) == part = p

\* Sentinels are interchangeable.
Symmetry == Permutations({s1, s2, s3})

\* Clusters for ClusterElection: masters 1, 2 and 3 with a slot each, whose slaves 4 and 5
\* follow 1; and master 1 with the slave 2.
Owner3 == (1 :> 1) @@ (2 :> 2) @@ (3 :> 3)
TwoSlaves == (1 :> 0) @@ (2 :> 0) @@ (3 :> 0) @@ (4 :> 1) @@ (5 :> 1)
Owner1 == (1 :> 1)
OneSlave == (1 :> 0) @@ (2 :> 1)
SlavePair == (1 :> 0) @@ (2 :> 1) @@ (3 :> 1)

\* Instances for SentinelFailover: the master and its slaves.
Three == {"m", "x", "y"}
Four == {"m", "x", "y", "z"}
Same == [i \in Three |-> 1]

Node2 == (1..2) \X (1..2)

\* The variables a part does not use.
Rest13 == x13
Rest12 == <<x12, Rest13>>
Rest11 == <<x11, Rest12>>
Rest10 == <<x10, Rest11>>
Rest9 == <<x9, Rest10>>
Rest8 == <<x8, Rest9>>
Rest7 == <<x7, Rest8>>
Rest6 == <<x6, Rest7>>
Rest5 == <<x5, Rest6>>
Rest4 == <<x4, Rest5>>
Blank13 == x13 = 0
Blank12 == x12 = 0 /\ Blank13
Blank11 == x11 = 0 /\ Blank12
Blank10 == x10 = 0 /\ Blank11
Blank9 == x9 = 0 /\ Blank10
Blank8 == x8 = 0 /\ Blank9
Blank7 == x7 = 0 /\ Blank8
Blank6 == x6 = 0 /\ Blank7
Blank5 == x5 = 0 /\ Blank6
Blank4 == x4 = 0 /\ Blank5

-----------------------------------------------------------------------------
\* Two slaves of a failed master compete for the votes of two others, one of which may restart.
A == INSTANCE ClusterElection WITH
    Node <- 1..5, Slot <- 1..3, Owner0 <- Owner3, SlaveOf0 <- TwoSlaves, Failed0 <- {1},
    Suspects <- {}, Recovers <- FALSE, Pings <- {}, Commands <- {}, LateAcks <- FALSE,
    Killed <- {2, 3}, MaxEpoch <- 4, MaxNet <- 2, MaxRestarts <- 1,
    view <- x1, disk <- x2, net <- x3, won <- x4, restarts <- x5, doubtful <- x6
ANext == Is("election") /\ A!Next /\ UNCHANGED <<part, vars, Rest7>>

\* Two slaves that are told to fail over, and votes that come late.
Q == INSTANCE ClusterElection WITH
    Node <- 1..3, Slot <- {1}, Owner0 <- Owner1, SlaveOf0 <- SlavePair, Failed0 <- {},
    Suspects <- {}, Recovers <- FALSE, Pings <- {}, Commands <- {"force"}, LateAcks <- TRUE,
    Killed <- {}, MaxEpoch <- 3, MaxNet <- 1, MaxRestarts <- 0,
    view <- x1, disk <- x2, net <- x3, won <- x4, restarts <- x5, doubtful <- x6
QNext == Is("election_late") /\ Q!Next /\ UNCHANGED <<part, vars, Rest7>>

\* Two slaves that are told to fail over, and a voter that may forget its vote.
R == INSTANCE ClusterElection WITH
    Node <- 1..3, Slot <- {1}, Owner0 <- Owner1, SlaveOf0 <- SlavePair, Failed0 <- {},
    Suspects <- {}, Recovers <- FALSE, Pings <- {}, Commands <- {"force"}, LateAcks <- FALSE,
    Killed <- {1}, MaxEpoch <- 2, MaxNet <- 1, MaxRestarts <- 1,
    view <- x1, disk <- x2, net <- x3, won <- x4, restarts <- x5, doubtful <- x6
RNext == Is("election_restart") /\ R!Next /\ UNCHANGED <<part, vars, Rest7>>

\* A master that fails and comes back, restarts, failovers by hand.
B == INSTANCE ClusterElection WITH
    Node <- 1..2, Slot <- {1}, Owner0 <- Owner1, SlaveOf0 <- OneSlave, Failed0 <- {},
    Suspects <- {1}, Recovers <- TRUE, Pings <- Node2, Commands <- {"force", "takeover"},
    LateAcks <- FALSE, Killed <- 1..2, MaxEpoch <- 2, MaxNet <- 2, MaxRestarts <- 1,
    view <- x1, disk <- x2, net <- x3, won <- x4, restarts <- x5, doubtful <- x6
BNext == Is("faults") /\ B!Next /\ UNCHANGED <<part, vars, Rest7>>

\* A master that is cut off.
C == INSTANCE ClusterFailDetect WITH
    Masters <- {"a", "b", "c"}, Slaves <- {"s"}, Suspects <- {"a"}, MaxCuts <- 1, MaxNet <- 1,
    flag <- x1, old <- x2, reports <- x3, state <- x4, minority <- x5, net <- x6, cut <- x7,
    cuts <- x8, hadPfail <- x9
CNext == Is("fail") /\ C!Next /\ UNCHANGED <<part, vars, Rest10>>

\* Any master may be cut off: a minority stops.
D == INSTANCE ClusterFailDetect WITH
    Masters <- {"a", "b", "c"}, Slaves <- {}, Suspects <- {"a", "b", "c"}, MaxCuts <- 1, MaxNet <- 1,
    flag <- x1, old <- x2, reports <- x3, state <- x4, minority <- x5, net <- x6, cut <- x7,
    cuts <- x8, hadPfail <- x9
DNext == Is("fail_all") /\ D!Next /\ UNCHANGED <<part, vars, Rest10>>

\* Slots, and nodes that are forgotten.
E == INSTANCE ClusterNodes WITH
    Me <- "me", Peers <- {"x", "y"}, Masters <- {"x"}, Slaves <- {"y"}, Known <- {"x", "y"},
    NumAddrs <- 2, Slots <- {0, 1}, Events <- {"forget", "reset", "slots", "gossip"}, MaxMoves <- 0,
    table <- x1, hs <- x2, black <- x3, slots <- x4, importing <- x5, migrating <- x6, data <- x7,
    at <- x8, been <- x9, moves <- x10, told <- x11, crashed <- x12
ENext == Is("nodes") /\ E!Next /\ UNCHANGED <<part, vars, Rest13>>

\* Handshakes, and nodes that change their address.
F == INSTANCE ClusterNodes WITH
    Me <- "me", Peers <- {"x", "y"}, Masters <- {"x"}, Slaves <- {"y"}, Known <- {}, NumAddrs <- 3,
    Slots <- {}, Events <- {"meet", "forget", "replicate", "reset", "gossip", "move"}, MaxMoves <- 1,
    table <- x1, hs <- x2, black <- x3, slots <- x4, importing <- x5, migrating <- x6, data <- x7,
    at <- x8, been <- x9, moves <- x10, told <- x11, crashed <- x12
FNext == Is("nodes_meet") /\ F!Next /\ UNCHANGED <<part, vars, Rest13>>

\* Requests of one or two keys while a slot moves from a to b.
G == INSTANCE ClusterSlots WITH
    Nodes <- {"a", "b", "c"}, Src <- "a", Dst <- "b", Keys <- {"k1", "k2"}, Clients <- {"c1", "c2"},
    Pairs <- TRUE, Ops <- {"get", "set", "del"}, MaxWrites <- 1, MaxTimeouts <- 0,
    slots <- x1, epoch <- x2, mine <- x3, migrating <- x4, importing <- x5, db <- x6, call <- x7,
    tool <- x8, cl <- x9, last <- x10, stale <- x11, writes <- x12, timeouts <- x13
GNext == Is("slots") /\ G!Next /\ UNCHANGED <<part, vars>>

\* The same, and MIGRATE times out.
H == INSTANCE ClusterSlots WITH
    Nodes <- {"a", "b", "c"}, Src <- "a", Dst <- "b", Keys <- {"k1", "k2"}, Clients <- {"c1", "c2"},
    Pairs <- FALSE, Ops <- {"get", "set"}, MaxWrites <- 2, MaxTimeouts <- 1,
    slots <- x1, epoch <- x2, mine <- x3, migrating <- x4, importing <- x5, db <- x6, call <- x7,
    tool <- x8, cl <- x9, last <- x10, stale <- x11, writes <- x12, timeouts <- x13
HNext == Is("slots_timeout") /\ H!Next /\ UNCHANGED <<part, vars>>

\* The same with keys that requests empty.
I == INSTANCE ClusterSlots WITH
    Nodes <- {"a", "b"}, Src <- "a", Dst <- "b", Keys <- {"k1", "k2"}, Clients <- {"c1", "c2"},
    Pairs <- FALSE, Ops <- {"get", "set", "pop"}, MaxWrites <- 1, MaxTimeouts <- 0,
    slots <- x1, epoch <- x2, mine <- x3, migrating <- x4, importing <- x5, db <- x6, call <- x7,
    tool <- x8, cl <- x9, last <- x10, stale <- x11, writes <- x12, timeouts <- x13
INext == Is("slots_pop") /\ I!Next /\ UNCHANGED <<part, vars>>

\* Two sentinels that vote for other masters too.
K == INSTANCE SentinelElection WITH
    Sentinels <- {s1, s2}, Quorum <- 2, OtherMasters <- TRUE, MaxEpoch <- 2, MaxLost <- 1,
    MaxRestarts <- 2,
    st <- x1, seen <- x2, disk <- x3, won <- x4, cast <- x5, lost <- x6, restarts <- x7
KNext == Is("leader_votes") /\ K!Next /\ UNCHANGED <<part, vars, Rest8>>

\* Failovers of two leaders.
L == INSTANCE SentinelFailover WITH
    Sentinels <- {s1, s2, s3}, Instances <- Three, Master <- "m", Priority <- Same, Offset <- Same,
    ParallelSyncs <- 1, MaxEpoch <- 2, MaxFails <- 1, MaxRestarts <- 0,
    st <- x1, rec <- x2, disk <- x3, role <- x4, up <- x5, orders <- x6, epoch <- x7, fails <- x8,
    restarts <- x9
LNext == Is("failover") /\ L!Next /\ UNCHANGED <<part, vars, Rest10>>

\* Three slaves and a restart: z has the most data, y must not be promoted.
M == INSTANCE SentinelFailover WITH
    Sentinels <- {s1, s2}, Instances <- Four, Master <- "m",
    Priority <- [i \in Four |-> IF i = "y" THEN 0 ELSE 1],
    Offset <- [i \in Four |-> IF i = "z" THEN 2 ELSE 1], ParallelSyncs <- 1, MaxEpoch <- 1,
    MaxFails <- 1, MaxRestarts <- 1,
    st <- x1, rec <- x2, disk <- x3, role <- x4, up <- x5, orders <- x6, epoch <- x7, fails <- x8,
    restarts <- x9
MNext == Is("failover_slaves") /\ M!Next /\ UNCHANGED <<part, vars, Rest10>>

\* An instance that answers or not, and a clock that jumps.
N == INSTANCE SentinelMonitor WITH
    Kind <- "redis", PingPeriod <- 1, InfoPeriod <- 2, PublishPeriod <- 1, DownAfter <- 6,
    TiltTrigger <- 2, TiltPeriod <- 2, MinReconnect <- 1, MaxPending <- 5, Forward <- 4, Back <- 2,
    MaxAge <- 7, MaxJumps <- 1, MaxErrors <- 1, MaxHangs <- 1,
    ri <- x1, age <- x2, tilt <- x3, alive <- x4, jumps <- x5, errors <- x6, hangs <- x7
NNext == Is("monitor") /\ N!Next /\ UNCHANGED <<part, vars, Rest8>>

\* Four nodes.
P == INSTANCE HashRing WITH
    Nodes <- {"w", "x", "y", "z"}, replicas_ <- 1, Circle <- 7,
    hash_ <- x1, ring_ <- x2, nodes <- x3
PNext == Is("ring_moves") /\ P!Next /\ UNCHANGED <<part, vars, Rest4>>

\* Three sentinels, lost replies, a restart.
BaseNext == Is("leader") /\ Next /\ UNCHANGED <<part, x1, x2, x3, x4, x5, x6, x7, x8, x9, x10, x11, x12, x13>>

ASSUME Assumptions ==
    /\ A!NodesAssumption /\ Q!NodesAssumption /\ R!NodesAssumption /\ B!NodesAssumption
    /\ C!NodesAssumption /\ D!NodesAssumption /\ E!ClusterNodesAssumption
    /\ F!ClusterNodesAssumption /\ G!SlotsAssumption /\ H!SlotsAssumption /\ I!SlotsAssumption
    /\ K!SentinelElectionAssumption /\ L!SentinelFailoverAssumption /\ M!SentinelFailoverAssumption
    /\ N!SentinelMonitorAssumption /\ P!RingAssumption /\ SentinelElectionAssumption

AllInit ==
    /\ part \in Parts
    /\ Init
    /\ \/ Is("election") /\ A!Init /\ Blank7
       \/ Is("election_late") /\ Q!Init /\ Blank7
       \/ Is("election_restart") /\ R!Init /\ Blank7
       \/ Is("faults") /\ B!Init /\ Blank7
       \/ Is("fail") /\ C!Init /\ Blank10
       \/ Is("fail_all") /\ D!Init /\ Blank10
       \/ Is("nodes") /\ E!Init /\ Blank13
       \/ Is("nodes_meet") /\ F!Init /\ Blank13
       \/ Is("slots") /\ G!Init
       \/ Is("slots_timeout") /\ H!Init
       \/ Is("slots_pop") /\ I!Init
       \/ Is("leader_votes") /\ K!Init /\ Blank8
       \/ Is("failover") /\ L!Init /\ Blank10
       \/ Is("failover_slaves") /\ M!Init /\ Blank10
       \/ Is("monitor") /\ N!Init /\ Blank8
       \/ Is("ring_moves") /\ P!Init /\ Blank4
       \/ Is("leader") /\ x1 = 0 /\ x2 = 0 /\ x3 = 0 /\ Blank4

AllNext ==
    \/ ANext \/ QNext \/ RNext \/ BNext \/ CNext \/ DNext \/ ENext \/ FNext \/ GNext \/ HNext
    \/ INext \/ KNext \/ LNext \/ MNext \/ NNext \/ PNext \/ BaseNext

AllSpec == AllInit /\ [][AllNext]_allVars

-----------------------------------------------------------------------------
(* What needs a majority has one: one slave wins the votes of an epoch,       *)
(* unless a voter was restarted before its vote was saved (cluster.c:2551)    *)
(* or a winner counted a vote for its election before (cluster.c:1923), and   *)
(* two that claim the same slots differ in their epochs, but for an epoch     *)
(* won twice like that; a FAIL has been seen by a majority of the masters,    *)
(* and a node whose cluster is ok sees most of them; sentinels vote once per  *)
(* epoch, so that an epoch has one leader, who has the votes of most of them  *)
(* and, if none was restarted, replaces a master that was down for quorum of  *)
(* them.                                                                      *)
MajorityDecides ==
    /\ Is("election") => A!TypeOK /\ A!OneWinnerPerEpoch /\ A!RivalsDiffer
    /\ Is("election_late") => Q!OneWinnerPerEpoch /\ Q!RivalsDiffer
    /\ Is("election_restart") => R!OneWinnerPerEpoch /\ R!RivalsDiffer
    /\ Is("fail") => C!TypeOK /\ C!FailHasMajority
    /\ Is("fail_all") => D!OkHasMajority
    /\ Is("leader_votes") => /\ K!TypeOK /\ K!OneVotePerEpoch /\ K!OneLeaderPerEpoch
                             /\ K!LeaderHasMajority /\ K!DownForQuorum
    /\ Is("leader") => TypeOK /\ OneVotePerEpoch

(* There is one configuration, and the tables of a node agree with one        *)
(* another: a slave serves no slot, no configEpoch is ahead of currentEpoch,  *)
(* nodes whose heartbeats have nothing more to say agree on who owns the      *)
(* slots; the bits of a node are those of the slots the table gives it,       *)
(* slaves are in the list of their master, nothing points to a node that was  *)
(* freed; sentinels with the same configuration epoch have the same master,   *)
(* reconfigure slaves only for a promoted one, parallel_syncs at a time, and  *)
(* promote none with priority 0.                                              *)
OneConfiguration ==
    /\ Is("election") => A!SlavesServeNothing /\ A!ClaimsSettle
    /\ Is("faults") => B!TypeOK /\ B!EpochsBehindCurrent /\ B!SlavesServeNothing /\ B!ClaimsSettle
    /\ Is("nodes") => E!TypeOK /\ E!SlotsMatch /\ E!NoDangling
    /\ Is("nodes_meet") => F!TypeOK /\ F!SlavesListed
    /\ Is("failover") => L!TypeOK /\ L!SameEpochSameMaster /\ L!ReconfOfPromoted
    /\ Is("failover_slaves") => M!TypeOK /\ M!PriorityZeroNotPromoted /\ M!ReconfOfPromoted
    /\ Is("monitor") => N!TypeOK

(* Moving a slot loses no key and answers no request from a copy that is out  *)
(* of date, whatever the order of SETSLOT, MIGRATE, requests and              *)
(* redirections; with a MIGRATE that times out the same is checked of reads   *)
(* and writes of one key; with keys that requests empty, two nodes own the    *)
(* slot only once the one it moves from has none of its keys left.            *)
KeysSurviveMigration ==
    /\ Is("slots") => G!TypeOK /\ G!NoStaleValue /\ G!NothingLost
    /\ Is("slots_timeout") => H!NoStaleValue /\ H!NothingLost
    /\ Is("slots_pop") => I!TypeOK /\ I!OneOwner

(* No step goes back on what was settled: what gossip says of a node that     *)
(* was forgotten does not bring it back, though a handshake that was under    *)
(* way at FORGET may (cluster.c:1702), or one that MEET or gossip about       *)
(* another node has started; a sentinel never returns to an older             *)
(* configuration, none takes an instance for down that answers, also if the   *)
(* clock jumps, and a key moves only to a node that was added or away from    *)
(* one that was removed.                                                      *)
NoStepBack ==
    [][ /\ Is("nodes") => E!ForgottenStays
        /\ Is("nodes_meet") => F!ForgottenStays
        /\ Is("failover") => L!ConfigEpochGrows
        /\ Is("failover_slaves") => M!ConfigEpochGrows
        /\ Is("monitor") => N!NoFalseSDown
        /\ Is("ring_moves") => P!KeysStay ]_allVars
=============================================================================
