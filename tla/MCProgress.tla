----------------------------- MODULE MCProgress -----------------------------
(***************************************************************************)
(* What must happen in the end, in every component that must get something    *)
(* done, on small instances.  A behaviour is one of one part: part says       *)
(* which, and x1, x2, ... are its variables.                                  *)
(***************************************************************************)
EXTENDS EpollServer, Integers, Sequences, TLC

CONSTANTS Parts   \* Parts: those that are checked

VARIABLES part, x1, x2, x3, x4, x5, x6, x7, x8, x9, x10, x11, x12, x13, x14, x15, x16, x17, x18,
          x19, x20

allVars == <<part, x1, x2, x3, x4, x5, x6, x7, x8, x9, x10, x11, x12, x13, x14, x15, x16, x17, x18,
             x19, x20, vars>>
Is(p) == part = p

\* Instances for SentinelFailover: z has the most data, y has priority 0.
Four == {"m", "x", "y", "z"}

\* Text files for AsciiTransfer.
UpTo(m, S) == UNION {[1..k -> S] : k \in 0..m}

\* The variables a part does not use.
Rest20 == x20
Rest19 == <<x19, Rest20>>
Rest18 == <<x18, Rest19>>
Rest17 == <<x17, Rest18>>
Rest16 == <<x16, Rest17>>
Rest15 == <<x15, Rest16>>
Rest14 == <<x14, Rest15>>
Rest13 == <<x13, Rest14>>
Rest12 == <<x12, Rest13>>
Rest11 == <<x11, Rest12>>
Rest10 == <<x10, Rest11>>
Rest9 == <<x9, Rest10>>
Rest8 == <<x8, Rest9>>
Rest7 == <<x7, Rest8>>
Rest6 == <<x6, Rest7>>
Rest5 == <<x5, Rest6>>
Blank20 == x20 = 0
Blank19 == x19 = 0 /\ Blank20
Blank18 == x18 = 0 /\ Blank19
Blank17 == x17 = 0 /\ Blank18
Blank16 == x16 = 0 /\ Blank17
Blank15 == x15 = 0 /\ Blank16
Blank14 == x14 = 0 /\ Blank15
Blank13 == x13 = 0 /\ Blank14
Blank12 == x12 = 0 /\ Blank13
Blank11 == x11 = 0 /\ Blank12
Blank10 == x10 = 0 /\ Blank11
Blank9 == x9 = 0 /\ Blank10
Blank8 == x8 = 0 /\ Blank9
Blank7 == x7 = 0 /\ Blank8
Blank6 == x6 = 0 /\ Blank7
Blank5 == x5 = 0 /\ Blank6

-----------------------------------------------------------------------------
\* AOF that is switched on while another rewrite runs.
A == INSTANCE Aof WITH
    Dbs <- {0, 1}, Policy <- "everysec", MaxCmds <- 1, MaxFaults <- 1, MaxRewrites <- 2,
    MaxSwitches <- 1, MaxCrashes <- 0, PowerFails <- FALSE, CrashInSwap <- FALSE,
    StartInRewrite <- TRUE,
    hist <- x1, aof <- x2, file <- x3, synced <- x4, jobs <- x5, child <- x6, pipe <- x7,
    rwbuf <- x8, swap <- x9, acked <- x10, ghost <- x11
ANext == Is("aof") /\ A!Next /\ UNCHANGED <<part, vars, Rest12>>

\* Clients that are closed, blocked and paused.
D == INSTANCE Clients WITH
    Ids <- 1..2, Master <- 0, MaxClients <- 2, MaxCmds <- 3,
    Cmds <- {"block", "push", "pause", "publish"},
    S <- x1, pend <- x2, cmds <- x3, phase <- x4, fired <- x5
DNext == Is("clients") /\ D!Next /\ UNCHANGED <<part, vars, Rest6>>

\* One master is cut off and comes back.
F == INSTANCE ClusterFailDetect WITH
    Masters <- {"a", "b", "c"}, Slaves <- {"s"}, Suspects <- {"a"}, MaxCuts <- 1, MaxNet <- 1,
    flag <- x1, old <- x2, reports <- x3, state <- x4, minority <- x5, net <- x6, cut <- x7,
    cuts <- x8, hadPfail <- x9
FNext == Is("fail") /\ F!Next /\ UNCHANGED <<part, vars, Rest10>>

\* Peers that are met or heard of; one changes its address.
G == INSTANCE ClusterNodes WITH
    Me <- "me", Peers <- {"x", "y"}, Masters <- {"x"}, Slaves <- {"y"}, Known <- {}, NumAddrs <- 3,
    Slots <- {}, Events <- {"meet", "gossip", "move"}, MaxMoves <- 1,
    table <- x1, hs <- x2, black <- x3, slots <- x4, importing <- x5, migrating <- x6, data <- x7,
    at <- x8, been <- x9, moves <- x10, told <- x11, crashed <- x12
GNext == Is("nodes") /\ G!Next /\ UNCHANGED <<part, vars, Rest13>>

\* Requests while a slot moves.
H == INSTANCE ClusterSlots WITH
    Nodes <- {"a", "b"}, Src <- "a", Dst <- "b", Keys <- {"k1", "k2"}, Clients <- {"c1", "c2"},
    Pairs <- FALSE, Ops <- {"set", "pop"}, MaxWrites <- 1, MaxTimeouts <- 0,
    slots <- x1, epoch <- x2, mine <- x3, migrating <- x4, importing <- x5, db <- x6, call <- x7,
    tool <- x8, cl <- x9, last <- x10, stale <- x11, writes <- x12, timeouts <- x13
HNext == Is("slots") /\ H!Next /\ UNCHANGED <<part, vars, Rest14>>

\* Rehashing, with iterators that hold it up.
I == INSTANCE Dict WITH
    Keys <- {0, 1, 2}, InitialSize <- 1, MaxSize <- 8, EmptyVisits <- 2, ForceRatio <- 1,
    MaxOps <- 2,
    ht <- x1, size <- x2, rehashidx <- x3, canResize <- x4, keys <- x5, iter <- x6, scan <- x7,
    ops <- x8
INext == Is("dict") /\ I!Next /\ UNCHANGED <<part, vars, Rest9>>

\* Eviction by age.
J == INSTANCE Eviction WITH
    Keys <- 1..3, policy <- "allkeys-lru", maxmemory <- 1, maxmemory_samples <- 2, PoolSize <- 2,
    ClockMax <- 2, Word <- 65536, Slaves <- 0, Aof <- FALSE, MaxSteps <- 3,
    dict <- x1, ttl <- x2, lru <- x3, idle <- x4, clock <- x5, pool <- x6, buf <- x7, job <- x8,
    steps <- x9
JNext == Is("eviction") /\ J!Next /\ UNCHANGED <<part, vars, Rest10>>

\* Keys that nobody reads.
K == INSTANCE Expire WITH
    Keys <- {1, 2}, dbnum <- 2, DbsPerCall <- 1, TimeFor <- {1}, Ttls <- {1},
    Ops <- {"set", "expire", "cycle", "persist"}, MaxNow <- 3, MaxCmds <- 3,
    now <- x1, m <- x2, sl <- x3, stream <- x4, n <- x5, cycle <- x6, rnd <- x7, read <- x8
KNext == Is("expire") /\ K!Next /\ UNCHANGED <<part, vars, Rest9>>

\* Clients that block on lists and push to the next.
L == INSTANCE Lists WITH
    Keys <- {"a", "b"}, Values <- {"v", "w"}, Clients <- {"c1", "c2"}, Long <- {"w"},
    MaxZiplist <- 2, MaxLen <- 3, MaxCmds <- 3, SortOverwrites <- FALSE,
    db <- x1, rep <- x2, bpop <- x3, blocking <- x4, ready <- x5, phase <- x6, run <- x7, cmds <- x8
LNext == Is("lists") /\ L!Next /\ UNCHANGED <<part, vars, Rest9>>

\* Save points, and saves that fail.
M == INSTANCE RdbSave WITH
    Changes <- 1, Seconds <- 0, RetryDelay <- 1, Events <- {"bgsave", "cron"}, MaxWrites <- 3,
    MaxAge <- 2, MaxFaults <- 2,
    data <- x1, writes <- x2, file <- x3, dirty <- x4, before <- x5, child <- x6, last <- x7,
    faults <- x8, run <- x9, sent <- x10
MNext == Is("rdb") /\ M!Next /\ UNCHANGED <<part, vars, Rest11>>

\* A slave whose link drops, without a file.
N == INSTANCE Replication WITH
    Slaves <- {"s"}, Sizes <- {2, 3}, InitSize <- 2, Diskless <- TRUE, UserBgsave <- FALSE,
    ForkFails <- FALSE, MaxLog <- 2, MaxOff <- 4, MaxDrops <- 1,
    log <- x1, runid <- x2, moff <- x3, seldb <- x4, bl <- x5, child <- x6, sl <- x7, wire <- x8,
    rs <- x9, cached <- x10, master <- x11, initial <- x12, data <- x13, hist <- x14, late <- x15,
    drops <- x16
NNext == Is("repl") /\ N!Next /\ UNCHANGED <<part, vars, Rest17>>

\* SCRIPT KILL.
P == INSTANCE ScriptRun WITH
    Conns <- {"c1", "c2"}, NoConn <- "none", lua_time_limit <- 1, Catches <- FALSE,
    Pipelines <- FALSE, cluster_enabled <- FALSE, MaxCalls <- 2, MaxScripts <- 1,
    lua_caller <- x1, lua_random_dirty <- x2, lua_write_dirty <- x3, lua_timedout <- x4,
    lua_kill <- x5, hook <- x6, inHook <- x7, readable <- x8, pending <- x9, connected <- x10,
    executed <- x11, refusedOOM <- x12, outcome <- x13, unkillable <- x14, caught <- x15,
    masterhost <- x16, lastbgsave_ok <- x17, scripts <- x18, up <- x19
PNext == Is("script") /\ P!Next /\ UNCHANGED <<part, vars, Rest20>>

\* A failover and its aftermath.
Q == INSTANCE SentinelFailover WITH
    Sentinels <- {"s1", "s2"}, Instances <- Four, Master <- "m",
    Priority <- [i \in Four |-> IF i = "y" THEN 0 ELSE 1],
    Offset <- [i \in Four |-> IF i = "z" THEN 2 ELSE 1], ParallelSyncs <- 1, MaxEpoch <- 1,
    MaxFails <- 1, MaxRestarts <- 0,
    st <- x1, rec <- x2, disk <- x3, role <- x4, up <- x5, orders <- x6, epoch <- x7, fails <- x8,
    restarts <- x9
QNext == Is("failover") /\ Q!Next /\ UNCHANGED <<part, vars, Rest10>>

\* An instance that hangs, and a clock that jumps.
R == INSTANCE SentinelMonitor WITH
    Kind <- "sentinel", PingPeriod <- 1, InfoPeriod <- 2, PublishPeriod <- 1, DownAfter <- 6,
    TiltTrigger <- 2, TiltPeriod <- 2, MinReconnect <- 1, MaxPending <- 8, Forward <- 3, Back <- 2,
    MaxAge <- 7, MaxJumps <- 1, MaxErrors <- 0, MaxHangs <- 1,
    ri <- x1, age <- x2, tilt <- x3, alive <- x4, jumps <- x5, errors <- x6, hangs <- x7
RNext == Is("monitor") /\ R!Next /\ UNCHANGED <<part, vars, Rest8>>

\* Transactions, read by a slave.
S == INSTANCE Transactions WITH
    Clients <- {1}, Keys <- {1}, Dbs <- 1..2, Ops <- {"set", "move"},
    Events <- {"slaveof", "resync"}, HasSlave <- TRUE, MaxCmds <- 3, MaxQueue <- 2,
    s <- x1, stream <- x2, rep <- x3, hist <- x4
SNext == Is("multi") /\ S!Next /\ UNCHANGED <<part, vars, Rest5>>

\* FTP commands whose messages arrive one by one.
T == INSTANCE FtpDialogue WITH
    Merge <- FALSE, TRY_TIMES <- 1, Simple <- {},
    phase <- x1, sent <- x2, conn <- x3, req <- x4, auth <- x5, stype <- x6, good <- x7, reqs <- x8,
    reps <- x9, cpc <- x10, op <- x11, multi <- x12, ctype <- x13, tries <- x14, dsock <- x15,
    local <- x16, result <- x17, slipped <- x18, lost <- x19, blind <- x20
TNext == Is("dialogue") /\ T!Next /\ UNCHANGED <<part, vars>>

\* Two transfers.
U == INSTANCE AsciiTransfer WITH
    Files <- UpTo(3, {"LF", "a"}), BUFSIZ <- 4, MAXLINE <- 4, Window <- 4, MaxTransfers <- 2,
    MaxOut <- 8, Aborts <- FALSE,
    file <- x1, pos <- x2, buff <- x3, chan <- x4, closed <- x5, aborted <- x6, read_buf <- x7,
    c <- x8, loop <- x9, out <- x10, transfers <- x11
UNext == Is("ascii") /\ U!Next /\ UNCHANGED <<part, vars, Rest12>>

\* Debug output of a parent and a child.
V == INSTANCE DebugLock WITH
    Children <- {"c1"}, Parent <- "p", Debug <- TRUE, Record <- TRUE, Interrupt <- TRUE,
    stack <- x1, mutex <- x2, sem <- x3, life <- x4, sent <- x5
VNext == Is("debuglock") /\ V!Next /\ UNCHANGED <<part, vars, Rest6>>

\* Two peers of the echo server, one event at a time.
BaseNext == Is("epoll") /\ Next /\ UNCHANGED <<part, x1, x2, x3, x4, x5, x6, x7, x8, x9, x10, x11, x12, x13, x14, x15, x16, x17, x18,
              x19, x20>>

ASSUME Assumptions ==
    /\ A!AofAssumption /\ D!ClientsAssumption /\ F!NodesAssumption /\ G!ClusterNodesAssumption
    /\ H!SlotsAssumption /\ I!DictAssumption /\ J!EvictionAssumption /\ K!ExpireAssumption
    /\ L!ListsAssumption /\ M!RdbSaveAssumption /\ N!BoundsAssumption /\ P!ScriptRunAssumption
    /\ Q!SentinelFailoverAssumption /\ R!SentinelMonitorAssumption /\ S!TransactionsAssumption
    /\ T!DialogueAssumption /\ U!AsciiAssumption /\ V!LockAssumption /\ EpollAssumption

AllInit ==
    /\ part \in Parts
    /\ Init
    /\ \/ Is("aof") /\ A!Init /\ Blank12
       \/ Is("clients") /\ D!Init /\ Blank6
       \/ Is("fail") /\ F!Init /\ Blank10
       \/ Is("nodes") /\ G!Init /\ Blank13
       \/ Is("slots") /\ H!Init /\ Blank14
       \/ Is("dict") /\ I!Init /\ Blank9
       \/ Is("eviction") /\ J!Init /\ Blank10
       \/ Is("expire") /\ K!Init /\ Blank9
       \/ Is("lists") /\ L!Init /\ Blank9
       \/ Is("rdb") /\ M!Init /\ Blank11
       \/ Is("repl") /\ N!Init /\ Blank17
       \/ Is("script") /\ P!Init /\ Blank20
       \/ Is("failover") /\ Q!Init /\ Blank10
       \/ Is("monitor") /\ R!Init /\ Blank8
       \/ Is("multi") /\ S!Init /\ Blank5
       \/ Is("dialogue") /\ T!Init
       \/ Is("ascii") /\ U!Init /\ Blank12
       \/ Is("debuglock") /\ V!Init /\ Blank6
       \/ Is("epoll") /\ x1 = 0 /\ x2 = 0 /\ x3 = 0 /\ x4 = 0 /\ Blank5

AllNext ==
    \/ ANext \/ DNext \/ FNext \/ GNext \/ HNext \/ INext \/ JNext \/ KNext \/ LNext \/ MNext
    \/ NNext \/ PNext \/ QNext \/ RNext \/ SNext \/ TNext \/ UNext \/ VNext \/ BaseNext

(* A behaviour stays in its part, so that fairness to the i-th action of      *)
(* whichever part it is in is fairness to the actions of each part.           *)
AllWeak(i) ==
    \/ Is("aof") /\ A!Weak(i) /\ UNCHANGED <<part, vars, Rest12>>
    \/ Is("clients") /\ D!Weak(i) /\ UNCHANGED <<part, vars, Rest6>>
    \/ /\ Is("fail") /\ UNCHANGED <<part, vars, Rest10>>
       /\ \/ i = 1 /\ F!WeakNode("a")
          \/ i = 2 /\ F!WeakNode("b")
          \/ i = 3 /\ F!WeakNode("c")
          \/ i = 4 /\ F!WeakNode("s")
          \/ i = 5 /\ F!Weak("b", "a")
          \/ i = 6 /\ F!Weak("c", "a")
          \/ i = 7 /\ F!Weak("s", "a")
          \/ i = 8 /\ F!WeakNet
    \/ /\ Is("nodes") /\ UNCHANGED <<part, vars, Rest13>>
       /\ \/ G!Weak(i)
          \/ i = 7 /\ G!WeakPeer("x")
          \/ i = 8 /\ G!WeakPeer("y")
    \/ /\ Is("slots") /\ UNCHANGED <<part, vars, Rest14>>
       /\ \/ H!Weak(i)
          \/ i = 5 /\ H!WeakNode("a")
          \/ i = 6 /\ H!WeakNode("b")
          \/ i = 7 /\ H!WeakClient("c1")
          \/ i = 8 /\ H!WeakClient("c2")
    \/ Is("dict") /\ I!Weak(i) /\ UNCHANGED <<part, vars, Rest9>>
    \/ Is("eviction") /\ J!Weak(i) /\ UNCHANGED <<part, vars, Rest10>>
    \/ Is("expire") /\ K!Weak(i) /\ UNCHANGED <<part, vars, Rest9>>
    \/ Is("lists") /\ L!Weak(i) /\ UNCHANGED <<part, vars, Rest9>>
    \/ Is("rdb") /\ M!Weak(i) /\ UNCHANGED <<part, vars, Rest11>>
    \/ /\ Is("repl") /\ UNCHANGED <<part, vars, Rest17>>
       /\ \/ N!Weak(i)
          \/ i = 2 /\ N!WeakSlave("s")
    \/ Is("script") /\ P!Weak(i) /\ UNCHANGED <<part, vars, Rest20>>
    \/ /\ Is("failover") /\ UNCHANGED <<part, vars, Rest10>>
       /\ \/ Q!Weak(i)
          \/ i = 3 /\ Q!WeakSentinel("s1")
          \/ i = 4 /\ Q!WeakSentinel("s2")
          \/ i = 5 /\ Q!WeakPromoted("s1")
          \/ i = 6 /\ Q!WeakPromoted("s2")
          \/ i = 7 /\ Q!WeakInfo("s1")
          \/ i = 8 /\ Q!WeakInfo("s2")
          \/ i = 9 /\ Q!WeakHello("s1")
          \/ i = 10 /\ Q!WeakHello("s2")
    \/ Is("monitor") /\ R!Weak(i) /\ UNCHANGED <<part, vars, Rest8>>
    \/ Is("multi") /\ S!Weak(i) /\ UNCHANGED <<part, vars, Rest5>>
    \/ Is("dialogue") /\ T!Weak(i) /\ UNCHANGED <<part, vars>>
    \/ Is("ascii") /\ U!Weak(i) /\ UNCHANGED <<part, vars, Rest12>>
    \/ /\ Is("debuglock") /\ UNCHANGED <<part, vars, Rest6>>
       /\ \/ V!Weak(i)
          \/ i = 2 /\ V!WeakProcess("p")
          \/ i = 3 /\ V!WeakProcess("c1")
    \/ Is("epoll") /\ Weak(i) /\ UNCHANGED <<part, x1, x2, x3, x4, x5, x6, x7, x8, x9, x10, x11, x12, x13, x14, x15, x16, x17, x18, x19, x20>>
AllStrong(i) ==
    \/ Is("clients") /\ D!Strong(i) /\ UNCHANGED <<part, vars, Rest6>>
    \/ /\ Is("fail") /\ UNCHANGED <<part, vars, Rest10>>
       /\ \/ i = 1 /\ F!Strong("b", "c")
          \/ i = 2 /\ F!Strong("c", "b")
          \/ i = 3 /\ F!Strong("b", "s")
          \/ i = 4 /\ F!Strong("c", "s")
    \/ /\ Is("slots") /\ UNCHANGED <<part, vars, Rest14>>
       /\ \/ i = 2 /\ H!Strong("c1")
          \/ i = 3 /\ H!Strong("c2")
          \/ i = 1 /\ H!StrongTool
    \/ Is("dict") /\ I!Strong(i) /\ UNCHANGED <<part, vars, Rest9>>
    \/ Is("expire") /\ K!Strong(i) /\ UNCHANGED <<part, vars, Rest9>>
    \/ /\ Is("epoll") /\ UNCHANGED <<part, x1, x2, x3, x4, x5, x6, x7, x8, x9, x10, x11, x12, x13, x14, x15, x16, x17, x18, x19, x20>>
       /\ \/ i = 1 /\ Strong("a")
          \/ i = 2 /\ Strong("b")
          \/ i = 3 /\ Strong("listenfd")

AllSpec ==
    /\ AllInit /\ [][AllNext]_allVars
    /\ \A i \in 1..10 : WF_allVars(AllWeak(i))
    /\ \A i \in 1..4 : SF_allVars(AllStrong(i))

-----------------------------------------------------------------------------
AllUnfinished(k) ==
    \/ Is("aof") /\ A!Unfinished(k)
    \/ Is("clients") /\ D!Unfinished(k)
    \/ Is("nodes") /\ G!Unfinished(k)
    \/ /\ Is("slots")
       /\ \/ k = 1 /\ H!Unfinished("c1")
          \/ k = 2 /\ H!Unfinished("c2")
    \/ Is("dict") /\ I!Unfinished(k)
    \/ Is("eviction") /\ J!Unfinished(k)
    \/ Is("lists") /\ L!Unfinished(k)
    \/ Is("rdb") /\ M!Unfinished(k)
    \/ Is("script") /\ P!Unfinished(k)
    \/ Is("multi") /\ S!Unfinished(k)
    \/ Is("dialogue") /\ T!Unfinished(k)
    \/ Is("ascii") /\ U!Unfinished(k)
    \/ Is("debuglock") /\ V!Unfinished(k)
    \/ /\ Is("epoll")
       /\ \/ k = 1 /\ Unfinished("a")
          \/ k = 2 /\ Unfinished("b")

(* No work goes on, or waits, for ever: a rewrite that switches AOF on,       *)
(* clients to be closed, handshakes, requests that are redirected and         *)
(* clients blocked at a node that has given the slot away, rehashing,         *)
(* eviction, clients blocked on lists, changes that are enough to save, a     *)
(* script that was killed, the stream to a slave, commands of the FTP         *)
(* client, transfers, the mutex of ftpd_debug unless its holder waits for     *)
(* itself or was killed (ftpd.c:154), and peers of the echo server: what      *)
(* they send is read, and their close answered unless it came with the last   *)
(* data or as an error (my_epoll.c:157, :162).                                *)
WorkEnds == \A k \in 1..6 : []<>~AllUnfinished(k)

(* Faults being finitely many, what they have upset comes right for good:     *)
(* nodes agree on who fails and know each other's addresses, keys that have   *)
(* expired are gone, slaves are connected, sentinels and instances have one   *)
(* master, an instance is down if and only if it does not answer.             *)
FailuresHealed ==
    <>[](
        /\ Is("fail") => F!Settled
        /\ Is("nodes") => G!Settled
        /\ Is("expire") => K!Settled
        /\ Is("repl") => N!Settled
        /\ Is("failover") => Q!Settled
        /\ Is("monitor") => R!Settled)
=============================================================================
