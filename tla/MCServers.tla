----------------------------- MODULE MCServers ------------------------------
(***************************************************************************)
(* How the servers of the repository serve their clients, on small            *)
(* instances: redis with its input and output buffers, the lists of clients,  *)
(* MULTI and WATCH, scripts, Pub/Sub and eviction; FTP with the dialogue of   *)
(* client and server, ASCII transfers and the locks around debug output; the  *)
(* epoll echo server.  A behaviour is one of one part: part says which, and   *)
(* x1, x2, ... are its variables.                                             *)
(***************************************************************************)
EXTENDS DebugLock, Integers, Sequences, SequencesExt, TLC

CONSTANTS Parts, n1, n2, n3, c1, c2   \* Parts: those that are checked

VARIABLES part, x1, x2, x3, x4, x5, x6, x7, x8, x9, x10, x11, x12, x13, x14, x15, x16, x17, x18,
          x19, x20

allVars == <<part, x1, x2, x3, x4, x5, x6, x7, x8, x9, x10, x11, x12, x13, x14, x15, x16, x17, x18,
             x19, x20, vars>>
Is(p) == part = p

\* Peers are interchangeable, and so are the clients with transactions.
Symmetry == Permutations({n1, n2, n3}) \cup Permutations({c1, c2})

\* Files for AsciiTransfer, which do not end with CR.
UpTo(n, S) == UNION {[1..k -> S] : k \in 0..n}
EndsWell(f) == f # <<>> => Last(f) # "CR"
\* Any mixture of CR and LF; NUL and 0xFF as well, but not after a CR.
LineFiles == {f \in UpTo(4, {"CR", "LF", "a"}) : EndsWell(f)}
Plain(f) == \A i \in 1..Len(f) - 1 : f[i] = "CR" => f[i + 1] \notin {"NUL", "EOF"}
ByteFiles == {f \in UpTo(3, {"CR", "LF", "NUL", "EOF", "a"}) : EndsWell(f) /\ Plain(f)}

\* What clients send: requests of both kinds.
Multi(args) == [kind |-> "multi", args |-> args]
Inline(line) == [kind |-> "inline", args |-> IF line = <<>> THEN <<>> ELSE <<line>>]
Bad == [kind |-> "bad", args |-> <<>>]

\* Pipelines with data that looks like the protocol, empty requests and arguments, and
\* commands that block ("b").
Pipelines ==
    { <<Multi(<<<<"a">>, <<"cr", "lf">>>>), Multi(<<<<"b">>>>), Inline(<<"a", "a">>)>>,
      <<Multi(<<<<"b">>, <<>>>>), Multi(<<>>), Multi(<<<<"a">>, <<"$1", "cr">>>>)>>,
      <<Inline(<<"b">>), Inline(<<>>), Multi(<<<<"a", "*1">>>>)>>,
      <<Multi(<<<<"a">>>>), Bad, Multi(<<<<"a">>>>)>> }
\* A large argument.
Large == { <<Multi(<<<<"a", "a", "a">>, <<"a", "a", "a">>>>), Multi(<<<<"a">>>>)>> }

\* The variables a part does not use.
Rest20 == x20
Rest19 == <<x19, Rest20>>
Rest18 == <<x18, Rest19>>
Rest17 == <<x17, Rest18>>
Rest16 == <<x16, Rest17>>
Rest15 == <<x15, Rest16>>
Rest14 == <<x14, Rest15>>
Rest13 == <<x13, Rest14>>
Rest12 == <<x12, Rest13>>
Rest11 == <<x11, Rest12>>
Rest10 == <<x10, Rest11>>
Rest9 == <<x9, Rest10>>
Rest8 == <<x8, Rest9>>
Rest7 == <<x7, Rest8>>
Rest6 == <<x6, Rest7>>
Rest5 == <<x5, Rest6>>
Blank20 == x20 = 0
Blank19 == x19 = 0 /\ Blank20
Blank18 == x18 = 0 /\ Blank19
Blank17 == x17 = 0 /\ Blank18
Blank16 == x16 = 0 /\ Blank17
Blank15 == x15 = 0 /\ Blank16
Blank14 == x14 = 0 /\ Blank15
Blank13 == x13 = 0 /\ Blank14
Blank12 == x12 = 0 /\ Blank13
Blank11 == x11 = 0 /\ Blank12
Blank10 == x10 = 0 /\ Blank11
Blank9 == x9 = 0 /\ Blank10
Blank8 == x8 = 0 /\ Blank9
Blank7 == x7 = 0 /\ Blank8
Blank6 == x6 = 0 /\ Blank7
Blank5 == x5 = 0 /\ Blank6

-----------------------------------------------------------------------------
\* Reads of up to four tokens, with pauses.
I == INSTANCE ClientInput WITH
    Streams <- Pipelines, ReadLen <- 4, Big <- 9, InlineMax <- 40, QbMax <- 50, MaxPauses <- 2,
    IsMaster <- FALSE,
    stream <- x1, net <- x2, cl <- x3, executed <- x4, paused <- x5, pauses <- x6
INext == Is("input") /\ I!Next /\ UNCHANGED <<part, vars, Rest7>>

\* Limits that are reached: a large argument, an inline request that is too long, a full buffer.
J == INSTANCE ClientInput WITH
    Streams <- Pipelines \cup Large, ReadLen <- 3, Big <- 3, InlineMax <- 3, QbMax <- 12,
    MaxPauses <- 0, IsMaster <- FALSE,
    stream <- x1, net <- x2, cl <- x3, executed <- x4, paused <- x5, pauses <- x6
JNext == Is("input_large") /\ J!Next /\ UNCHANGED <<part, vars, Rest7>>

\* A buffer of two bytes and then a list.
O == INSTANCE ClientOutput WITH
    BufSize <- 2, Chunk <- 3, MaxWrite <- 4, Item <- 1, Hard <- 9, Soft <- 5, SoftSecs <- 1,
    ValLen <- 2, Embedded <- FALSE, MaxBytes <- 5, MaxTime <- 1,
    c <- x1, made <- x2, out <- x3, nb <- x4, now <- x5, below <- x6
ONext == Is("output") /\ O!Next /\ UNCHANGED <<part, vars, Rest7>>

\* Time enough for the soft limit.
P == INSTANCE ClientOutput WITH
    BufSize <- 1, Chunk <- 3, MaxWrite <- 2, Item <- 1, Hard <- 8, Soft <- 5, SoftSecs <- 1,
    ValLen <- 2, Embedded <- TRUE, MaxBytes <- 4, MaxTime <- 3,
    c <- x1, made <- x2, out <- x3, nb <- x4, now <- x5, below <- x6
PNext == Is("output_limits") /\ P!Next /\ UNCHANGED <<part, vars, Rest7>>

\* Three clients, one more than are admitted, that kill one another.
C == INSTANCE Clients WITH
    Ids <- 1..3, Master <- 0, MaxClients <- 2, MaxCmds <- 3,
    Cmds <- {"block", "kill", "killtype", "quit", "publish", "sync"},
    S <- x1, pend <- x2, cmds <- x3, phase <- x4, fired <- x5
CNext == Is("clients") /\ C!Next /\ UNCHANGED <<part, vars, Rest6>>

\* A server with a master, pauses and blocked clients.
K == INSTANCE Clients WITH
    Ids <- 1..3, Master <- 1, MaxClients <- 3, MaxCmds <- 3,
    Cmds <- {"pause", "block", "push", "killtype", "sync", "quit"},
    S <- x1, pend <- x2, cmds <- x3, phase <- x4, fired <- x5
KNext == Is("clients_pause") /\ K!Next /\ UNCHANGED <<part, vars, Rest6>>

\* Two clients with transactions of up to two commands on the same two keys.
M == INSTANCE Transactions WITH
    Clients <- {c1, c2}, Keys <- 1..2, Dbs <- {1}, Ops <- {"set", "rename"},
    Events <- {"watch", "expire"}, HasSlave <- FALSE, MaxCmds <- 3, MaxQueue <- 2,
    s <- x1, stream <- x2, rep <- x3, hist <- x4
MNext == Is("multi") /\ M!Next /\ UNCHANGED <<part, vars, Rest5>>

\* A key in each of two databases, with every way to change it that nobody is told of.
U == INSTANCE Transactions WITH
    Clients <- {c1, c2}, Keys <- {1}, Dbs <- 1..2, Ops <- {"set", "del", "move", "flush"},
    Events <- {"watch", "evict", "slaveof", "resync"}, HasSlave <- FALSE, MaxCmds <- 2,
    MaxQueue <- 2,
    s <- x1, stream <- x2, rep <- x3, hist <- x4
UNext == Is("multi_dbs") /\ U!Next /\ UNCHANGED <<part, vars, Rest5>>

\* Every reason to refuse a command, in any order.
V == INSTANCE Transactions WITH
    Clients <- {c1}, Keys <- {1}, Dbs <- {1}, Ops <- {"set", "get", "del", "bad"},
    Events <- {"watch", "diskerr", "slaveof", "resync"}, HasSlave <- FALSE, MaxCmds <- 4,
    MaxQueue <- 3,
    s <- x1, stream <- x2, rep <- x3, hist <- x4
VNext == Is("multi_refused") /\ V!Next /\ UNCHANGED <<part, vars, Rest5>>

\* Scripts of up to two calls that run into the time limit.
R == INSTANCE ScriptRun WITH
    Conns <- {"c1", "c2"}, NoConn <- "none", lua_time_limit <- 1, Catches <- TRUE,
    Pipelines <- FALSE, cluster_enabled <- FALSE, MaxCalls <- 2, MaxScripts <- 2,
    lua_caller <- x1, lua_random_dirty <- x2, lua_write_dirty <- x3, lua_timedout <- x4,
    lua_kill <- x5, hook <- x6, inHook <- x7, readable <- x8, pending <- x9, connected <- x10,
    executed <- x11, refusedOOM <- x12, outcome <- x13, unkillable <- x14, caught <- x15,
    masterhost <- x16, lastbgsave_ok <- x17, scripts <- x18, up <- x19
RNext == Is("script") /\ R!Next /\ UNCHANGED <<part, vars, Rest20>>

\* Two channels that are also those of the notifications; the pattern matches one of them.
S == INSTANCE Pubsub WITH
    Clients <- {"c1", "c2"}, Channels <- {"a", "b"}, Patterns <- {"p1"}, Matched <- [p1 |-> {"b"}],
    Keyspace <- "a", Keyevent <- "b", MaxPublish <- 1, MaxConnects <- 2,
    pubsub_channels <- x1, pubsub_patterns <- x2, c_channels <- x3, c_patterns <- x4, c_flags <- x5,
    got <- x6, receivers <- x7, notify_keyspace_events <- x8, published <- x9, connects <- x10
SNext == Is("pubsub") /\ S!Next /\ UNCHANGED <<part, vars, Rest11>>

\* Two patterns that match the same channel.
W == INSTANCE Pubsub WITH
    Clients <- {"c1", "c2"}, Channels <- {"a"}, Patterns <- {"p1", "p2"},
    Matched <- [p1 |-> {"a"}, p2 |-> {"a"}], Keyspace <- "a", Keyevent <- "a", MaxPublish <- 1,
    MaxConnects <- 2,
    pubsub_channels <- x1, pubsub_patterns <- x2, c_channels <- x3, c_patterns <- x4, c_flags <- x5,
    got <- x6, receivers <- x7, notify_keyspace_events <- x8, published <- x9, connects <- x10
WNext == Is("pubsub_patterns") /\ W!Next /\ UNCHANGED <<part, vars, Rest11>>

\* Eviction by each policy; the clock wraps at 2.
E == INSTANCE Eviction WITH
    Keys <- 1..3, policy <- "allkeys-lru", maxmemory <- 1, maxmemory_samples <- 3, PoolSize <- 3,
    ClockMax <- 2, Word <- 65536, Slaves <- 1, Aof <- FALSE, MaxSteps <- 4,
    dict <- x1, ttl <- x2, lru <- x3, idle <- x4, clock <- x5, pool <- x6, buf <- x7, job <- x8,
    steps <- x9
ENext == Is("evict_lru") /\ E!Next /\ UNCHANGED <<part, vars, Rest10>>

F == INSTANCE Eviction WITH
    Keys <- 1..3, policy <- "volatile-lru", maxmemory <- 1, maxmemory_samples <- 2, PoolSize <- 2,
    ClockMax <- 2, Word <- 65536, Slaves <- 0, Aof <- FALSE, MaxSteps <- 5,
    dict <- x1, ttl <- x2, lru <- x3, idle <- x4, clock <- x5, pool <- x6, buf <- x7, job <- x8,
    steps <- x9
FNext == Is("evict_volatile") /\ F!Next /\ UNCHANGED <<part, vars, Rest10>>

G == INSTANCE Eviction WITH
    Keys <- 1..3, policy <- "volatile-ttl", maxmemory <- 1, maxmemory_samples <- 2, PoolSize <- 2,
    ClockMax <- 2, Word <- 65536, Slaves <- 1, Aof <- FALSE, MaxSteps <- 4,
    dict <- x1, ttl <- x2, lru <- x3, idle <- x4, clock <- x5, pool <- x6, buf <- x7, job <- x8,
    steps <- x9
GNext == Is("evict_ttl") /\ G!Next /\ UNCHANGED <<part, vars, Rest10>>

H == INSTANCE Eviction WITH
    Keys <- 1..3, policy <- "volatile-random", maxmemory <- 1, maxmemory_samples <- 2,
    PoolSize <- 2, ClockMax <- 2, Word <- 65536, Slaves <- 1, Aof <- TRUE, MaxSteps <- 4,
    dict <- x1, ttl <- x2, lru <- x3, idle <- x4, clock <- x5, pool <- x6, buf <- x7, job <- x8,
    steps <- x9
HNext == Is("evict_random") /\ H!Next /\ UNCHANGED <<part, vars, Rest10>>

\* Messages arrive one by one.
N == INSTANCE FtpDialogue WITH
    Merge <- FALSE, TRY_TIMES <- 1, Simple <- {"CWD"},
    phase <- x1, sent <- x2, conn <- x3, req <- x4, auth <- x5, stype <- x6, good <- x7, reqs <- x8,
    reps <- x9, cpc <- x10, op <- x11, multi <- x12, ctype <- x13, tries <- x14, dsock <- x15,
    local <- x16, result <- x17, slipped <- x18, lost <- x19, blind <- x20
NNext == Is("dialogue") /\ N!Next /\ UNCHANGED <<part, vars>>

\* Messages may arrive together.
Q == INSTANCE FtpDialogue WITH
    Merge <- TRUE, TRY_TIMES <- 2, Simple <- {"PWD"},
    phase <- x1, sent <- x2, conn <- x3, req <- x4, auth <- x5, stype <- x6, good <- x7, reqs <- x8,
    reps <- x9, cpc <- x10, op <- x11, multi <- x12, ctype <- x13, tries <- x14, dsock <- x15,
    local <- x16, result <- x17, slipped <- x18, lost <- x19, blind <- x20
QNext == Is("dialogue_merge") /\ Q!Next /\ UNCHANGED <<part, vars>>

\* Two transfers, whose sender may go away.
A == INSTANCE AsciiTransfer WITH
    Files <- LineFiles \cup ByteFiles, BUFSIZ <- 4, MAXLINE <- 3, Window <- 3, MaxTransfers <- 2,
    MaxOut <- 6, Aborts <- TRUE,
    file <- x1, pos <- x2, buff <- x3, chan <- x4, closed <- x5, aborted <- x6, read_buf <- x7,
    c <- x8, loop <- x9, out <- x10, transfers <- x11
ANext == Is("ascii") /\ A!Next /\ UNCHANGED <<part, vars, Rest12>>

\* Two transfers that run to their end.
B == INSTANCE AsciiTransfer WITH
    Files <- ByteFiles, BUFSIZ <- 4, MAXLINE <- 4, Window <- 4, MaxTransfers <- 2, MaxOut <- 8,
    Aborts <- FALSE,
    file <- x1, pos <- x2, buff <- x3, chan <- x4, closed <- x5, aborted <- x6, read_buf <- x7,
    c <- x8, loop <- x9, out <- x10, transfers <- x11
BNext == Is("ascii_twice") /\ B!Next /\ UNCHANGED <<part, vars, Rest12>>

\* More peers than epoll_wait returns or the backlog holds.
T == INSTANCE EpollServer WITH
    Peers <- {n1, n2, n3}, MAX_EVENTS <- 2, MaxSends <- 1, Backlog <- 2,
    conn <- x1, data <- x2, sends <- x3, eof <- x4, err <- x5, missed <- x6, ready <- x7,
    events <- x8, fd <- x9, n <- x10
TNext == Is("epoll") /\ T!Next /\ UNCHANGED <<part, vars, Rest11>>

\* Two children, a log and an interrupt.
BaseNext == Is("debuglock") /\ Next /\ UNCHANGED <<part, x1, x2, x3, x4, x5, x6, x7, x8, x9, x10, x11, x12, x13, x14, x15, x16, x17, x18,
              x19, x20>>

ASSUME Assumptions ==
    /\ I!ClientInputAssumption /\ J!ClientInputAssumption /\ O!ClientOutputAssumption
    /\ P!ClientOutputAssumption /\ C!ClientsAssumption /\ K!ClientsAssumption
    /\ M!TransactionsAssumption /\ U!TransactionsAssumption /\ V!TransactionsAssumption
    /\ R!ScriptRunAssumption /\ S!PubsubAssumption /\ W!PubsubAssumption /\ E!EvictionAssumption
    /\ F!EvictionAssumption /\ G!EvictionAssumption /\ H!EvictionAssumption /\ N!DialogueAssumption
    /\ Q!DialogueAssumption /\ A!AsciiAssumption /\ B!AsciiAssumption /\ T!EpollAssumption
    /\ LockAssumption

AllInit ==
    /\ part \in Parts
    /\ Init
    /\ \/ Is("input") /\ I!Init /\ Blank7
       \/ Is("input_large") /\ J!Init /\ Blank7
       \/ Is("output") /\ O!Init /\ Blank7
       \/ Is("output_limits") /\ P!Init /\ Blank7
       \/ Is("clients") /\ C!Init /\ Blank6
       \/ Is("clients_pause") /\ K!Init /\ Blank6
       \/ Is("multi") /\ M!Init /\ Blank5
       \/ Is("multi_dbs") /\ U!Init /\ Blank5
       \/ Is("multi_refused") /\ V!Init /\ Blank5
       \/ Is("script") /\ R!Init /\ Blank20
       \/ Is("pubsub") /\ S!Init /\ Blank11
       \/ Is("pubsub_patterns") /\ W!Init /\ Blank11
       \/ Is("evict_lru") /\ E!Init /\ Blank10
       \/ Is("evict_volatile") /\ F!Init /\ Blank10
       \/ Is("evict_ttl") /\ G!Init /\ Blank10
       \/ Is("evict_random") /\ H!Init /\ Blank10
       \/ Is("dialogue") /\ N!Init
       \/ Is("dialogue_merge") /\ Q!Init
       \/ Is("ascii") /\ A!Init /\ Blank12
       \/ Is("ascii_twice") /\ B!Init /\ Blank12
       \/ Is("epoll") /\ T!Init /\ Blank11
       \/ Is("debuglock") /\ x1 = 0 /\ x2 = 0 /\ x3 = 0 /\ x4 = 0 /\ Blank5

AllNext ==
    \/ INext \/ JNext \/ ONext \/ PNext \/ CNext \/ KNext \/ MNext \/ UNext \/ VNext \/ RNext
    \/ SNext \/ WNext \/ ENext \/ FNext \/ GNext \/ HNext \/ NNext \/ QNext \/ ANext \/ BNext
    \/ TNext \/ BaseNext

AllSpec == AllInit /\ [][AllNext]_allVars

-----------------------------------------------------------------------------
(* Tables that say the same from two sides agree, and none keeps what is      *)
(* gone: the lists of clients and the flags of a client ("When client was     *)
(* just unblocked because of a blocking operation, remove it from the list    *)
(* of unblocked clients", networking.c:750), the subscriptions by channel     *)
(* and by client, watched keys by key and by client, reply_bytes and the      *)
(* reply list, the descriptor of a script's caller and the event loop.  With  *)
(* pauses a client that was queued twice is used after it was freed           *)
(* (blocked.c:145), and no other is.                                          *)
TablesAgree ==
    /\ Is("input_large") => J!TypeOK
    /\ Is("output") => O!TypeOK /\ O!Accounted
    /\ Is("output_limits") => P!TypeOK /\ P!HandlerRight
    /\ Is("clients_pause") => K!DanglingQueuedTwice
    /\ Is("clients") => C!TypeOK /\ C!NoDangling /\ C!FlagsMatchLists
    /\ Is("multi") => M!TypeOK /\ M!WatchersMatch
    /\ Is("multi_dbs") => U!WatchersMatch
    /\ Is("script") => R!TypeOK /\ R!CallersReadable /\ R!CallerStays
    /\ Is("pubsub") => S!TypeOK /\ S!TablesAgree /\ S!ModeExact /\ S!FlagsRoundTrip
    /\ Is("pubsub_patterns") => W!TablesAgree /\ W!ModeExact
    /\ Is("evict_lru") => E!TypeOK /\ E!PoolSorted
    /\ Is("debuglock") => TypeOK /\ HeldOnlyWhilePrinting

(* However reads and writes are split and whenever a client is blocked,       *)
(* paused or unblocked: what is executed is what was asked for, in order,     *)
(* nothing that has arrived in full is left lying, and what was replied is    *)
(* written whole and in order ("force the re-processing of the input          *)
(* buffer", networking.c:1727).  Client and server of FTP stay in step: at    *)
(* the prompt no reply is unread and no request unanswered (unless a get      *)
(* could not open its local file after 150), so that a reply is never taken   *)
(* for that of another request; they wait for each other for ever only after  *)
(* a message was swallowed (150 and 226 in one Recv, which does happen), and  *)
(* never if messages arrive one by one; they convert by the same TYPE; a get  *)
(* that left its local file empty or half is reported to have failed.  What   *)
(* RETR in ASCII has sent is what STOR has written, and nothing of the        *)
(* transfer before.  The echo server leaves no data and no end of a           *)
(* connection that no event will announce, but an end that comes with the     *)
(* last data or as an error.                                                  *)
StreamsWhole ==
    /\ Is("input") => I!ParsedRight /\ I!NothingLeft /\ I!CloseScheduled
    /\ Is("input_large") => J!ParsedRight /\ J!ClosedForCause
    /\ Is("output") => O!InOrder /\ O!ValueKept
    /\ Is("output_limits") => P!InOrder
    /\ Is("clients_pause") => K!NotForgotten
    /\ Is("dialogue") => /\ N!TypeOK /\ N!InStep /\ N!PartialFileReported
                         /\ N!TypesAgree /\ N!CrashExplained /\ (ENABLED N!Next)
    /\ Is("dialogue_merge") => Q!WaitsOnlyIfLost /\ Q!InStep
    /\ Is("ascii") => A!TypeOK /\ A!ReceivedIsSent
    /\ Is("ascii_twice") => B!WrittenIsPrefix
    /\ Is("epoll") => T!TypeOK /\ T!NothingForgotten

(* A transaction runs only if no key its client watches has changed, but by   *)
(* a change that nobody signals: MOVE (db.c:757), eviction (redis.c:3330),    *)
(* expiry (db.c:849) or the data set of a new master (multi.c:299).  None of  *)
(* its commands was refused, but a write at a read-only slave (redis.c:2251)  *)
(* or a MULTI or WATCH inside it (multi.c:88).  A script does not write       *)
(* after what is random, is refused memory only before it has written, and    *)
(* is killed only before it has written, unless it has caught that error      *)
(* once (scripting.c:563).                                                    *)
AllOrNothing ==
    /\ Is("multi") => M!WatchHonoured /\ M!RefusedAborts
    /\ Is("multi_dbs") => U!WatchHonoured
    /\ Is("multi_refused") => V!WatchHonoured /\ V!RefusedAborts
    /\ Is("script") => /\ R!WritesAreDeterministic /\ R!MemoryOnlyAtStart
                       /\ R!KilledWroteNothing /\ R!UnkillableWrote

(* Memory is bounded: freeMemoryIfNeeded answers OK only below the limit and  *)
(* gives up only with nothing left to evict, within two rounds of sampling    *)
(* (redis.c:3101), by idle times that are never too high, if there is at      *)
(* most one slave (redis.c:3219 counts a buffer that several share more than  *)
(* once); and a client whose output is over the hard limit is on its way      *)
(* out.                                                                       *)
MemoryBounded ==
    /\ Is("evict_lru") => E!OkMeansUnder /\ E!TwoRounds /\ E!IdleNotAbove
    /\ Is("evict_volatile") => F!OkMeansUnder /\ F!ErrMeansNothing
    /\ Is("evict_ttl") => G!OkMeansUnder /\ G!ErrMeansNothing
    /\ Is("evict_random") => H!OkMeansUnder /\ H!ErrMeansNothing
    /\ Is("output_limits") => P!LimitEnforced

(* No command is executed while its client is paused, blocked or closing;     *)
(* the slaves of a server that loses its master go with it                    *)
(* (networking.c:675); a message reaches each subscriber once per             *)
(* subscription that matches; eviction stops when enough is freed and takes   *)
(* what its policy allows.                                                    *)
OnlyWhatIsDue ==
    [][ /\ Is("input") => I!NotWhilePaused
        /\ Is("clients_pause") => K!SlavesFollow
        /\ Is("pubsub") => S!DeliveredOnce
        /\ Is("pubsub_patterns") => W!DeliveredOnce
        /\ Is("evict_ttl") => G!NeverTooMuch
        /\ Is("evict_random") => H!NeverTooMuch ]_allVars
=============================================================================
