# TLA+ models of `cplusplus`

The repository is a collection of C, C++ and Go programs. Its own programs are
an FTP server and client, an epoll server, a consistent hash ring and exercises;
the largest body of code in it is redis 3.0.3 with Redis Cluster and Sentinel.
The models take from both the parts whose behaviour depends on what a test
hardly reaches: signal handlers that interrupt a loop at any instruction,
crashes between two writes, messages lost, delayed and overtaken, clients freed
while others use them, encodings converted in the middle of a traversal.

Contents: [inventory](#inventory), [modules](#modules), [runs](#runs),
[theorems](#theorems), [disagreements](#disagreements-seen-while-modelling),
[what is left out](#what-is-left-out), [plan](#plan).

## Inventory

`redis` stands for `src/redis-3.0.3/src/`. `PROJECT.json` has the same list in
full (`components`), the hazards by line (`hazards`), and for every definition
the lines it stands for (`map`).

| component | state | operations | interacts with | what makes it correct |
|---|---|---|---|---|
| FTP server, parent (`ftpd.c`) | `pids`, `ftpd_nchild`, the accepted descriptor | accept, fork, record, reap, kill all | signals, process table, sessions | the scan stays inside `pids`; running children are recorded; zombies are reaped; no descriptor leaks |
| FTP server, session (`ftpd.c`) | user, type, working directory, sockets, files | one handler per command | client, file system | one final reply per request; 226 after everything is closed; nothing without a user |
| FTP server, debug and log (`ftpd.c`, `record.c`, `dxyh_thread_lib.c`) | a mutex all processes share, a semaphore per process | lock, print, unlock | loops, handlers, children | one prints at a time; nobody waits for ever |
| FTP client (`ftp.c`, `login.c`) | control and data socket, type, local file | one function per command | the server's session | each reply is taken for its request; local files are not silently lost |
| ASCII conversion (RETR, STOR, put, get) | the static buffer of `Read1` | LF to CR LF and back | both ends of a data connection | what is written is what was sent |
| epoll server (`my_epoll.c`) | connections, the kernel's ready list | accept, read, close | peers | what arrived is read; a close is answered |
| hash ring (`hashring/consistent.h`) | points and nodes | add, remove, look up | none | keys belong to the nearest point and move only if they must |
| redis, clients (`networking.c`, `blocked.c`) | lists of clients, query and output buffers | read, parse, reply, pause, block, free | every command, replication | commands are executed and replies sent once, whole and in order; lists and flags agree |
| redis, commands (`redis.c`, `multi.c`, `scripting.c`, `pubsub.c`) | queues, watched keys, the running script, subscriptions | call, EXEC, EVAL, PUBLISH | AOF, slaves | transactions and scripts are all or nothing |
| redis, memory (`redis.c`, `db.c`) | clocks, pool of candidates, times to live | evict, expire | slaves, AOF | memory is bounded; a key expires once for all |
| redis, data types (`dict.c`, `ziplist.c`, `t_*.c`, `hyperloglog.c`) | values in several encodings | all commands on them | replication, blocked clients | values survive conversions; both encodings answer alike |
| redis, durability (`aof.c`, `rdb.c`, `config.c`) | files, buffers, children | append, rewrite, save, load | file system, fork, background thread | nothing acknowledged is lost; files are whole |
| redis, replication (`replication.c`) | backlog, offsets, state per slave | PSYNC, SYNC, ACK | slaves, RDB children | a slave has its master's data; offsets mean the same at both ends |
| Redis Cluster (`cluster.c`) | epochs, tables of nodes and slots, failure reports | vote, gossip, fail, SETSLOT, MIGRATE | other nodes, clients | majorities decide; slots lose no key; tables are consistent |
| Redis Sentinel (`sentinel.c`) | epochs, votes, failover state, links | ask, vote, reconfigure | sentinels, instances | one leader per epoch; no return to older configurations |

Not modelled, with the reason in `PROJECT.json`: console user interfaces, the
mini C runtime (its `malloc` and `free` leave the block list inconsistent after
two calls, and nothing else could be stated), the binary tree, the earlier FTP
server, exercises, vendored libraries and tools, replica migration, the memory
of integer sets, Sentinel's script queue.

## Modules

A module stands for one component; its action or operator has the name of the
function it models. The state of one C structure is one record, as in the code.
A step is what the code does without giving anyone else a chance to run: an
event handler with everything it calls, or, where a signal handler, another
process or a crash can come between, the part up to there.

### The FTP programs

#### `FtpdParent`: the parent process

One action per step that a signal handler can separate from the next one.
`run` names the frame the process executes, `"main"`, `"chld"` (SIGCHLD handler)
or `"int"` (SIGINT handler); a handler returns to the frame in `ret`. The loop
stands at `mpc`: `accept`, `fork`, `add` (`add2pids` takes a slot), `load` and
`store` (the two halves of `++ftpd_nchild`), `close`. The handlers' own
`--ftpd_nchild` cannot be interrupted by a frame that changes the counter, and
is one step with the deletion. `proc` is the kernel's process table: a pid is
free, a running child, a zombie or a foreign process. A child is modelled by
its existence only; `FtpdSession` is its inside.

What the code does and one might overlook: `dele_from_pids` is called after the
`waitpid` loop with the value that ended it, 0 while children run and -1 when
none is left. 0 matches nothing; -1 matches the first *empty* slot, which stays
empty while `ftpd_nchild` is decremented. So no entry is ever removed, stale
pids stay and the counter drifts downwards.

#### `FtpdSession`: one client's session

A handler that does everything between two reads of the control connection is
one action (`User`, `Cwd`, `Pasv`, ...). LIST, NLST, RETR and STOR block on the
data connection and are split where they block or where the file system may
change: `conn` (in `ftpd_get_connfd`), `s150`, `work`, `list` and `back` (the
excursion of LIST into the directory), `xfer` (copying a file), `xdir` (RETR of
a directory), `fin` (the closing steps, whose order differs between handlers
and is data in `todo`). Descriptors are taken from `Fds`, lowest first;
`leaked` are those nothing refers to any more: the directory stream of every
LIST and the file of an ASCII transfer that failed. `sent` is the list of
replies since the request was read. `home` is an auxiliary variable, the last
directory chosen with CWD.

Every system-call wrapper (`Socket`, `Chdir`, ...) ends the process on error.
`Dies` stands for that at any point, and for SIGQUIT. `WrapperFails` are the
calls that are bound to fail, so that they are not overlooked by the liveness
property. Other sessions are `OthersChange`: any path becomes absent, a file or
a directory between any two steps.

Abstracted: the contents of files and messages; names (a path is a model
value, `RETR` distinguishes an argument of one and of two words because the
handler does); `ftp`, a user like `anonymous`; CWD to `/`; lstat failing on a
path that exists.

#### `FtpReplies`: what a session promises

The control connection as a client sees it: a greeting, then for each request
one final reply, after at most one 150 that is sent while a data connection is
open; 226 only after 150 and after the data connection was closed; no request
is taken while a data connection is open. Three variables: `phase`, the replies
`sent` since the last request, and whether a data connection is open.
`FtpdSession` implements it with `phase` read off `pc` and `todo` (`Phase`) and
`conn` as `connfd # NoFd`. A RETR or STOR that fails replies before it closes,
so `Disconnect` may follow the final reply. `FtpDialogue`
uses it in place of the session.

`FtpDialogue` is the client, composed with any session that `FtpReplies`
allows. The client takes what one `Recv` returns as one reply: with `Merge`
several messages may arrive together, as TCP may deliver them.
`AsciiTransfer` has sender and receiver with the static buffer of `Read1`
that outlives a transfer. `DebugLock` has a stack of frames for each process:
a handler that prints runs on top of a frame that may hold the mutex. `stack`,
`mutex`, `sem` name processes and frames; `life` is the kernel's process table.

### Other programs

`EpollServer` has the kernel's ready list (edge-triggered connections, the
listening socket level-triggered), what `epoll_wait` returned, and the
connection that is being read; a reset is an error that `read` reports after
the data (`ReadFails`). `missed` is a history variable: the peers whose end came
with the last data or as an error, after which no event comes. `HashRing` is the ring for every hash function
without collisions; `GetNode` is `lower_bound` with the wrap-around.

### redis: one server

| module | what its state is | what is abstracted |
|---|---|---|
| `ClientInput` | the bytes on their way, the query buffer and the parser's position | tokens instead of bytes; quoting |
| `ClientOutput` | static buffer, reply list with shared objects, the soft limit's clock | bytes are numbers; a failure of `aeCreateFileEvent` |
| `Clients` | the server's lists (and who was queued twice), each client's flags, the phase of the event loop | what commands do |
| `Transactions` | `server`: data, clients' queues and watched keys, who of them was not told of a change; the slave | values are numbers of writes |
| `ScriptRun` | the `lua_*` flags, the hook, which events are installed | the script's text: a sequence of calls |
| `ScriptCache` | scripts known to primary, replicas and file, the cache of the former | scripts compile |
| `Pubsub` | channels and patterns on both sides | payloads |
| `Eviction` | keys, clocks, the pool, output and AOF buffers | a key takes one unit of memory |
| `Expire` | data and times at a master and its slave, the stream between | sample sizes |
| `Dict` | two tables, `rehashidx`, an iterator, a SCAN cursor | a key is its hash |
| `Ziplist` | the bytes, tail and count | limits are scaled down |
| `Hash`, `Sets`, `SortedSet`, `HyperLogLog`, `Lists` | values per encoding, the same at a replica | scores and elements are small numbers |
| `Aof` | buffer, file, what of it is on the disk, fsync jobs, the child and its pipes | a line is two bytes |
| `RdbSave` | data set, `dump.rdb`, `dirty`, the child and its temporary file | a data set is its last write |
| `Config` | options, the lines of the file, a rewrite in progress | one option of each kind; a write is cut only between lines |
| `Replication` | backlog, offsets, per slave both ends of the link | a write is its number |

### Redis Cluster and Sentinel

| module | what its state is | what is abstracted |
|---|---|---|
| `ClusterElection` | per node epochs, votes, roles and slots; `nodes.conf`; packets; the epochs in which a vote was forgotten or counted late (`doubtful`) | failure flags are set from outside |
| `ClusterFailDetect` | per node and node flags and reports; packets | time is a step that may be taken |
| `ClusterNodes` | the table of one node, its handshakes, the blacklist; what it was told of forgotten nodes (`told`) | the others are external |
| `ClusterSlots` | tables for one slot, both databases, MIGRATE, clients' requests | a value is the number of its write |
| `SentinelElection` | epochs, votes, questions; the file | clocks; a question and its answer are one step |
| `SentinelFailover` | the leader's state machine, roles of instances, commands on their way | election is one step |
| `SentinelMonitor` | links, outstanding commands, ages of times, TILT | the reported role |

### Instances

`FtpdParent` and `FtpdSession` are checked directly. All other modules are
checked in five suites, `MCServers`, `MCDataTypes`, `MCDurability`, `MCCluster`
and `MCProgress`. A suite has an instance of a module for each of its *parts*:
`part` says which of them a behaviour is about and never changes, `x1`, `x2`,
... are the variables of whichever part it is (`INSTANCE ... WITH`), and a
property says what each part has to do with it. One module is extended instead
of instantiated, under its own names (`DebugLock`, `HashRing`,
`SentinelElection`, `EpollServer`). So one run asks one question, "does anything
get lost?", of every component that could answer no. To look at a part alone,
remove the others from `Parts` in the configuration.

### Proofs

A module of proofs extends the first module it is about and has the others as
instances, whose names are then written `D!Spec`, `R!NothingForgotten`:

| proofs | about |
|---|---|
| `FtpdParent_proofs`, `FtpdSession_proofs` | `FtpdParent`; `FtpdSession`, which implements `FtpReplies` |
| `DebugLock_proofs` | `DebugLock` |
| `Cluster_proofs` | `SentinelElection`; `ClusterSlots` as `Z`; `ClusterFailDetect` as `D`; `ClusterElection` as `E` |
| `Redis_proofs` | `ScriptCache`; `RdbSave` as `R`; `ScriptRun` as `U`; `Transactions` as `T`; `Aof` as `A`; `Eviction` as `V` |
| `Replication_proofs` | `Replication` |
| ends of `EpollServer`, `HashRing` | themselves |

## Runs

| run | module | properties | question and result |
|---|---|---|---|
| `parent` | `FtpdParent` | `TypeOK`, `ScanInBounds`, `CountWithinTable`, `RunningChildRecorded`, `NoCtrlFdLeak`, `RunningChildKept`, `ZombiesReaped`, `AlwaysListening` | The table of children stays sound, no zombie and no descriptor stays behind and the loop keeps listening, whatever instruction the two signal handlers interrupt. Holds. |
| `parent_kills_all` | `FtpdParent` | `AllChildrenKilled` | SIGINT can leave a recorded, running child without SIGQUIT: the SIGCHLD handler deletes no more than the pid its loop ended with, so dead entries stay in the table and the scan stops on one that no longer exists. Violated: `ftpd服务器源程序/ftpd.c:440`. |
| `parent_kills_only` | `FtpdParent` | `OnlyChildrenKilled` | The entry of a child that was reaped stays in the table and SIGINT sends SIGQUIT to whatever process has its pid by then. Violated: `ftpd服务器源程序/ftpd.c:403`. |
| `session` | `FtpdSession` | `TypeOK`, `DescriptorsAccounted`, `NoStaleConnection`, `OneFinalReply`, `CompleteMeansClosed`, `UserGate`, `WorkingDirKept`, `RequestEnds`, `KeepsPromise` | Every order of requests, with other sessions changing the files and descriptors running out: descriptors, replies, the user and the working directory stay consistent, no request gets stuck in the server but a STOR in ASCII of data that ends with CR, and the client sees what FtpReplies promises. Holds. |
| `session_port` | `FtpdSession` | `PortHonoured` | A transfer after a successful PORT is refused: ftpd_get_connfd never looks at the socket PORT connected. Violated: `ftpd服务器源程序/ftpd.c:684`. |
| `session_missing` | `FtpdSession` | `MissingFileRefused` | RETR of a file that does not exist gets past the lookup when the argument is one word, and is announced with 150. Violated: `ftpd服务器源程序/ftpd.c:1195`. |
| `servers` | `MCServers` | `TablesAgree`, `StreamsWhole`, `AllOrNothing`, `MemoryBounded`, `OnePrints`, `OnlyWhatIsDue` | How servers serve their clients, in 22 small instances: redis (input and output buffers, clients, MULTI, scripts, Pub/Sub, eviction), the FTP dialogue and ASCII transfers, the locks around debug output, the epoll echo server. Holds. |
| `data_types` | `MCDataTypes` | `ValuesHeld`, `AnswersRight`, `RingOfNodes`, `ChangesAreSignalled` | The data types of redis and the hash ring, in 11 small instances: values, encodings, reads, iterators and propagation stay right through rehashing, conversions and cascading updates. Holds. |
| `durability` | `MCDurability` | `NothingLost`, `ReplicasConsistent`, `NothingUndone` | What must survive: AOF, RDB, configuration file, replication, scripts, expiry and transactions at a replica, with crashes and failures between any two steps. Holds. |
| `cluster` | `MCCluster` | `MajorityDecides`, `OneConfiguration`, `KeysSurviveMigration`, `OneLeaderPerEpoch`, `LeaderHasMajority`, `DownForQuorum`, `NoStepBack` | What several servers decide together: votes, failures, tables of nodes and moving slots of Redis Cluster, elections and failovers of Sentinel, and the hash ring. Holds. |
| `progress` | `MCProgress` | `NothingForgotten`, `WorkEnds`, `FailuresHealed` | In 19 small instances with the fairness of the event loops: work ends and failures that end are healed. Holds. |
| `sentinel_old_epoch` | `SentinelElection` | `MajorityForItsEpoch` | When the epoch moves on during an election, a sentinel is elected for its older epoch with votes of the newer one. Violated: `redis-3.0.3/src/sentinel.c:3307`. |

What the properties are about:

* parent and session
  * `ScanInBounds`, `CountWithinTable`: the scan is bounded by a counter that two
    frames update without synchronisation. It stays in bounds because each lost
    or superfluous update only makes the counter smaller.
  * `RunningChildRecorded`, `RunningChildKept`: the table overflows, and the
    handler deletes slots while the loop fills them.
  * `ZombiesReaped`, `AlwaysListening`: signals coalesce; the handler runs on top
    of the loop.
  * `NoCtrlFdLeak`: the two paths after `fork`.
  * `DescriptorsAccounted`, `NoStaleConnection`: PASV, PORT and transfers in any
    order, with every early exit.
  * `OneFinalReply`, `CompleteMeansClosed`: the exits of four handlers that reply
    and close in different orders.
  * `UserGate`: handlers check at different places that there is a user, and USER
    and PASS change it in mid-session. There is a user as soon as USER has named
    one: that the password is not needed is in the table of disagreements.
  * `WorkingDirKept`: LIST leaves the directory and comes back by name.
  * `KeepsPromise`: all of the above as one protocol; an exit that forgets its
    reply, or a close that is left for the next request, is no step of it.
  * `RequestEnds`: no combination of failures leaves a handler waiting for itself;
    one loop does not end, that of STOR in ASCII after a CR at the end of the data
    (`LoopsAfterCR`, `ftpd.c:1416`), and the property names it as its exception.
* `servers`
  * `TablesAgree`: what is recorded twice agrees: lists of clients and their
    flags, subscriptions by channel and by client, watched keys, the bytes of
    the reply list, the events of a script's caller, the mutex of debug output.
    A client that the end of a pause has queued twice is used after it was freed
    (`blocked.c:145`); `DanglingQueuedTwice` shows that no other is.
  * `StreamsWhole`: requests are executed and replies sent as they were asked
    for and given, however reads and writes are split and whenever clients
    block or pause. Client and server of FTP stay in step, and wait for each
    other for ever only if 150 and 226 came in one `Recv`; ASCII transfers give
    the file that was sent.
  * `AllOrNothing`: a transaction runs only if no watched key has changed, but by
    what tells nobody (MOVE, eviction, expiry, a key that a resynchronization
    brings), and only if no command was refused, but a write at a read-only slave,
    MULTI or WATCH. `multi` has rename and expiry, `multi_dbs` MOVE, flushes,
    deletions, eviction and resynchronization, `multi_refused` every refusal, a
    slave that becomes one in between, and disk errors. A script that was killed
    has written only after it had caught the error of a kill (`Catches` is TRUE).
  * `MemoryBounded`, `OnlyWhatIsDue`: eviction and output limits; nothing runs for a client that is paused, and
    nothing is delivered twice.
  * `OnePrints`: mutual exclusion of debug output, handlers included. That a
    handler may wait for its own process is not what it is about.
* `data_types`
  * `ValuesHeld`, `AnswersRight`: representation invariants through
    conversions and rehashing, and reads against the definitions. A SCAN may miss
    keys if it meets a table that is being shrunk with a cursor from between the
    buckets that are joined (`Split`), and otherwise misses none.
  * `ChangesAreSignalled`, `RingOfNodes`.
* `durability`: `NothingLost` (with `dump.rdb` whole, though a child that writes
  its temporary file may fail or be killed at any point), `ReplicasConsistent`,
  and `NothingUndone` for single steps: no older snapshot over a newer one; a
  slave loads what it was sent, unless a child of its own has renamed its
  snapshot over it, which the part `rdb_slave` lets happen.
* `cluster`: `MajorityDecides`, `OneConfiguration`, `KeysSurviveMigration`,
  `NoStepBack`, and the promises of an election (`OneLeaderPerEpoch`,
  `LeaderHasMajority`, `DownForQuorum`, the last if no sentinel was restarted).
  `OneWinnerPerEpoch` is checked with two slaves and two voters, one of which is
  restarted (`election`), with a single voter that may forget its vote
  (`election_restart`), and with votes that arrive late (`election_late`): an epoch
  has one winner unless a restarted voter had forgotten its vote or a winner
  counted a vote for its election before. `ForgottenStays` is checked with
  meetings, moves and gossip (`nodes_meet`): a forgotten node comes back only by
  a handshake that was under way, or that MEET or gossip about another node has
  started. What `KeysSurviveMigration` says of a MIGRATE that times out is
  checked of GET and SET of single keys only.
* `progress`: `WorkEnds` and `FailuresHealed`, the liveness of its nineteen parts,
  and `NothingForgotten` of the epoll server. What `WorkEnds` leaves out are the
  two waits of the debug lock that are in the table (a handler that waits for its
  own process, a holder that was killed).
* `sentinel_old_epoch`: `MajorityForItsEpoch` drops from `LeaderHasMajority` the
  case that the epoch moved on during the election, and is violated.

### Bounds

`parent`: `MAX_CHIHLD_NUM = 3` (two slots, 10 in the code) and three pids. Two
slots are enough for a table with a stale entry in front of a running child,
three pids for a third child that finds the table full and for the reuse of a
pid. The counter needs no bound: it falls only in a SIGCHLD handler that finds
an empty slot, and every child that can cause one fills a slot for good.

`session`: four descriptors and two paths. Three descriptors hold all sockets
at once; the fourth is for a file or a leaked directory, and four LISTs exhaust
them. Two paths allow a working directory and a different target. Nothing else
is unbounded.

Suites: every part has two or three of each kind of actor and the smallest
tables in which the interesting case happens; the comment before each instance
says which it is. Cluster parts have three masters (a majority is not all of
them) and two slaves that compete; `leader` has three sentinels; `dict` grows
and shrinks between 1 and 8 buckets under a scan and an iterator; `ziplist`
crosses the length from which a `prevlen` takes five bytes, and the count that
is no longer exact; `repl` has a backlog shorter than the stream. Counters
(commands, faults, restarts, epochs) have a `Max...` constant each, which is a
conjunct of the guards that count.

Where the code breaks what its comments say, the property that is checked has
the exact exception (a history variable says when it applies), and the statement
without it is kept beside it and named in the table
[below](#disagreements-seen-while-modelling): `UnchangedIfWatched`,
`EveryRefusalAborts`, `KilledNeverWrote`, `ScanReturnsAll`, `EpochWonOnce`,
`NotReadded`, `NoDangling`, `LoginByPassword`. Some constants still exclude a
disagreement (`CrashInSwap`, `PowerFails`, `Pipelines`, `ClientFlush`); the table
says what happens when they do not. `zset` leaves out `NoEmptyKey`, `rdb_slave`
leaves out `NothingForgotten`, for the same reason.

### Fairness

`FtpdParent`: the loop, the SIGCHLD handler and the scan are weakly fair: the
kernel runs the process and delivers a pending signal that is not blocked.
There is no fairness for clients, children, foreign processes and SIGINT.
`FtpdSession`: the child's own steps are weakly fair; the client's are not.

`MCProgress`: each component names the actions its scheduling guarantees
(`Weak(i)`): the event loop handles what is ready, `serverCron` and timers run,
a child process goes on, sent messages arrive or the link breaks. Strong
fairness (`Strong(i)`) is only for steps that others can disable again and
again: a request at a node that is blocked by MIGRATE now and then, a random
choice that must sometimes fall on a key. The suite takes the i-th of all parts
together, `WF_allVars(AllWeak(i))`; since a behaviour stays in its part, this is
the fairness of that part. Clients, users, faults and the network's losses have
none: they are bounded instead, and `FailuresHealed` speaks of what comes after
the last of them.

## Theorems

All are stated as `Spec => []Inv` (or `[][A]_vars`, or a refinement) for every
value of the constants that satisfies the module's named assumption, and are
checked by TLAPS down to the last step. `[]` theorems do not need fairness.

### The parent (`FtpdParent_proofs`)

For every table size and every set of pids, from the
assumptions that `MAX_CHIHLD_NUM` is a positive number and pids are positive
numbers:

* `TypeCorrect`, `ScanSafe`, `CountIsWithinTable`, `CtrlFdsBalanced`,
  `RunningChildIsRecorded` and the action property `RunningChildNeverDropped`.

The inductive invariant is `TypeOK /\ NoCtrlFdLeak /\ LocalsOK /\
CountWithinTable`. `ScanInBounds` alone is not inductive: it needs that the
counter is at most the number of occupied slots, which needs that these are a
prefix of the table, and, because the increment is split, what `tmp` may hold
between the two halves. `LocalsOK` says which values the locals have at each
point (the value `dele_from_pids` gets is 0 or -1, hence never the pid of a
child, which is why no running child is dropped).

### A session (`FtpdSession_proofs`)

For every set of descriptors and paths, from the
assumption that descriptors are natural numbers:

* `TypeCorrect`, `DescriptorsAlwaysAccounted`, `NoConnectionOutlivesRequest`,
  `EveryRequestAnsweredOnce`, `CompleteIsClosed`, `ServiceNeedsUser`,
  `WorkingDirIsClients`.

The lemma `StepKinds` sorts the steps by what they do to descriptors and
replies; each invariant is then proved once per kind. The strengthening says,
for each `pc`, which descriptors can be held, which replies have been sent and
which closing steps `todo` can still hold.

`SessionKeepsPromise` is the refinement `Spec =>
KeepsPromise`: every kind of step is one action of `FtpReplies` or leaves its
variables alone. It needs two more invariants, that 226 is left to be sent only
where 150 has been (`AnnouncedOK`) and that 150 is due only with a connection
(`ConnectedOK`).

### The locks of debug output (`DebugLock_proofs`)

For every set of children and with or without a log file (`LockAssumption`):
`PrintsOneAtATime` (`OnePrints`), `MutexIsReleased` (`HeldOnlyWhilePrinting`),
`LockTypes`. The frames of a process are a stack; the invariant says that what a
lock names is a frame on that stack that stands between lock and unlock, that
frames below the running one wait where a handler can interrupt them, and that
once the handler of SIGINT has passed the mutex nothing below it prints.

### The election of Sentinel (`Cluster_proofs`)

For every set of sentinels and masters, every quorum: `VotesOncePerEpoch`,
`ElectedByMajority` (`LeaderHasMajority`), `ElectsOneLeader`
(`OneLeaderPerEpoch`), `ElectedForQuorum` (`DownForQuorum`). A sentinel counts
its own vote and those it was told. The inductive invariant (`ElectionInvariant`)
says that every vote one sentinel has of another is one that the other has cast,
in the epoch it was asked for, that votes are saved before they are told
(restarts), and that whoever is leader of an epoch counted while the epoch was
still its own (`InTime`). Two majorities meet, which is the lemma about
cardinalities. Without `InTime` the theorem is false: run `sentinel_old_epoch`.

### The failure detector of Redis Cluster (`Cluster_proofs`)

For every set of masters and slaves, at least one master (`NodesAssumption`):
`FailNeedsMajority` (`FailHasMajority` in the module) and `OkNeedsMajority`
(`OkHasMajority`). The inductive invariant gives every piece of information its
witness: a PFAIL flag is of a node that did not answer, a report and a packet
that carries one come from a master that had the flag, a FAIL flag or packet has
behind it a majority of masters that had it. Reports may be lost, late, repeated
or expire; hence the history variable of who ever held whom for PFAIL.

### Moving a slot (`Cluster_proofs`)

For every finite set of nodes and keys and every set of clients: `NeverStale`
(`NoStaleValue`), `NothingIsLost` (`NothingLost`), `OneOwnerOfKeys` (`OneOwner`).
The inductive invariant `SlotsInv` says where the last value of each key is: at
Src as long as Src has the key, except between RESTORE and the deletion, when
both do; else at Dst. A client asks Dst with ASKING only for a key that Src no
longer has, and this stays true, because keys only leave Src while the slot is
migrating. `TimeoutsHarmless` is the hypothesis of these theorems: either MIGRATE
does not time out, or clients only GET and SET single keys. After a timeout
Dst keeps a copy that SET at Src makes stale; DEL of the key at Src then sends
the next reader to it. So the hypothesis is needed.

### Elections and configuration of Redis Cluster (`Cluster_proofs`)

For every set of nodes and slots, any number of restarts and messages that are
lost, late or repeated: `ElectionTyped`, `EpochsNeverAhead`
(`EpochsBehindCurrent`: no node knows a configEpoch greater than its
currentEpoch, in memory or in nodes.conf) and `SlavesNeverServe`
(`SlavesServeNothing`). The inductive invariant `ElectInv` (`ElectionTables`)
says the same of everything a node may come to hold: its own table (`GoodView`),
its file (`GoodConf`), from which it restarts, and each packet on its way
(`GoodPacket`), from which others copy epochs and slots; a table alone is not
inductive, because a heartbeat overwrites it.

### Scripts and snapshots (`Redis_proofs`)

`ScriptCache`: `ScriptCacheTyped`; `ScriptsInFile` (`FileReplays`: an EVALSHA in
the AOF comes after the script's text); `ReplicasKnowScripts` (`ReplicasKnow`)
under `~ClientFlush`. If clients may send SCRIPT FLUSH, the cache of what
replicas know is not emptied together with the replicas', and the theorem is
false; it is in the table below.

`RdbSave`, for a server that is not a slave (`Primary`): `DumpIsWhole`
(`FileWhole`: dump.rdb is whole or absent whatever fails, is killed or crashes),
`NoWriteForgotten` (`NothingForgotten`), `SnapshotsNeverOlder` (`NeverOlder`) and
`FailedSaveTells` (`FailureTells`). A child writes its temporary file piece by
piece and may stop or fail between any two; that it renames it only when the whole
snapshot is in it (`TempWhole`) is what keeps dump.rdb whole. `RdbInv` counts
besides: the writes that the file does not have are at most `dirty`, plus, while a
child runs, those before its fork (`dirty_before_bgsave`), and the child's
snapshot is not older than the file. A slave's BGSAVE child may replace the file
between the rename and `rdbLoad` (`replication.c:1000-1014`), so of a slave only
`LoadsWhatWasSent` with this exception is said, and model-checked.

### Running scripts (`Redis_proofs`)

`ScriptsAreDeterministic` (`WritesAreDeterministic`: no write follows a random
command), `KilledScriptsWroteNothing` (`KilledWroteNothing`: what a kill has ended
had written nothing when the kill was accepted; a script that catches the error of
the kill goes on, and may write then, which the history variable `caught` tells
apart), `UnkillableScriptsWrote` under `~cluster_enabled` (a write that is refused
for its slot has set the flag), `CallersComeBack` (`CallersReadable`,
`CallerStays`: the client whose events the timeout hook took away has them again
when the script ends) and `RunTypes` under `~Pipelines`. Each hypothesis excludes a
case of the table below.

### Transactions (`Redis_proofs`)

For every set of clients, keys and databases: `WatchTablesAgree`
(`WatchersMatch`: `c->watched_keys` and `db->watched_keys` list one another),
`ExecHonoursWatch` (`WatchHonoured`: EXEC runs nothing if a watched key has
changed since WATCH, but by MOVE, eviction, expiry or a full resynchronization,
which change keys without `touchWatchedKey`, see the table) and `RefusalAborts`
(`RefusedAborts`: nor if a command was refused, but a write at a read-only slave, and
MULTI and WATCH, which `multi.c:88` and `multi.c:311` refuse without
`flagTransaction`). Neither has a hypothesis: `missed` and `refused` remember which
keys were changed by what tells nobody, and why commands were refused. EXEC calls its
queued commands one by one, each of which may touch keys that other clients watch;
the model writes that as a recursive function, and the proof takes the shortest
prefix of the queue after which `ServerInv` or `Kept` fails, and shows that there
is none.

### Append only file (`Redis_proofs`)

For every policy, number of databases, commands, crashes, failed writes, rewrites
and switches: `AofLosesNothing` (`NothingLost`: the file with what is still in
the buffer loads into the data set; `RewriteComplete`: so does a rewrite's file
when it takes over) and `AnsweredSurvive` (`AckedSurvive`: with fsync `always`
what was answered survives a crash) unless the power fails (`PowerFails`) where
`CrashInSwap` lets it come between rename and the first fsync of the new file.
There are two streams of bytes, file followed by `aof_buf`, and the child's
snapshot followed by what was sent through the pipe, what is in it, and
`aof_rewrite_buf`; the invariant says that loading either gives
the present data (`Holds`, `Rebuilt`), SELECTs included, that a short write is
cut back to a whole command (`AofWhole`), and how much of each is on the disk
(`AofAcked`). `Load` is a recursive function of the bytes, for which the lemmas
take the first byte at which two loads differ.

### Eviction (`Redis_proofs`)

For every policy, set of keys, limit, size of the pool and number of samples, with
fewer keys than a `size_t` can count: `EvictionReachesLimit` (`OkMeansUnder`,
`ErrMeansNothing`: `freeMemoryIfNeeded` returns OK only below the limit and an error
only with nothing left to evict), `EvictsNoMoreThanNeeded` (`NeverTooMuch`),
and `IdleTimes` (`IdleNotAbove`, however
often the clock wraps). `EvictInv` (`EvictionTypes`) follows the memory through the
loop: the keys that are left and those freed are at most the limit and what was to
be freed (`Freeing`), and the key about to go is one the policy allows, whatever
ghosts the pool holds. `OkMeansUnder` is for at most one slave: the loop of
`redis.c:3200` subtracts the output buffer of each slave, though they share what is
in it, and with two OK can come above the limit (see the table).

### Replication (`Replication_proofs`)

For every set of slaves, every size of the backlog, with or without a file,
and any number of writes, faults, and restarts of the master
(`BoundsAssumption`): `BacklogSendsTheTail` (`BacklogIsTail`: for each offset PSYNC
accepts, the circular buffer returns what comes after it in the stream, through
wraps, resizing and freeing) and `SlavesFollow` (`ExactSlavesConsistent`: what a
slave starts from, followed by what is on its way, is the master's data;
`OffsetExact`: it counts the offset it has reached). `ReplInv` says of each slave
what is on its way (`Catches`): the stream from the offset it counts; that this
leads from the last write the slave has to the master's last (`Leads`); and for a
master the slave has cached, that the same holds from the cached offset for as
long as the backlog reaches back to it (`Resumes`), which is what makes a partial
resynchronization right. Slaves that came while another slave's BGSAVE was under
way (`late`) are left out: for them the statement is false
(`NothingLostOrRepeated`, in the table).

### The hash ring (end of `HashRing`)

For every set of nodes, number of replicas, size of the circle and hash without
collisions: `RingIsOfNodes` (the ring depends only on which nodes are in it),
`GetFindsNearest` (`NearestOwns`: the lookup returns the node whose point is the
fewest steps ahead), `KeysMoveOnlyIfTheyMust` (`KeysStay`). The proof takes the
smallest point, which exists by well-foundedness of the numbers.

### The epoll server (end of `EpollServer`)

For every set of peers, `MAX_EVENTS` and number of pieces sent: `NoEdgeIsLost`
(`NothingForgotten`): a connection with unread data, or whose peer has closed, is
on the ready list, among the events, or being read, unless the close came together
with the last data or as an error (`missed`, `my_epoll.c:157, 162`). The invariant
needs that only open connections are on the ready list, and that what was read and
what is unread are at most what was sent.

### How the theorems relate to the runs

The invariants and action properties of the passing runs `parent` and `session`
are statements of a theorem, and so are `OnePrints`, `RingOfNodes`,
`NothingForgotten`, `OneLeaderPerEpoch`, `LeaderHasMajority` and `DownForQuorum`
of the suites. The other properties of the suites are conjunctions over parts; of
these the theorems prove the following conjuncts, for all constants:

| property | proved | only model-checked |
|---|---|---|
| `AllOrNothing` | all parts | |
| `KeysSurviveMigration` | all parts | |
| `NothingLost` | `aof`, `aof_switch`, `aof_always`, `rdb`, `scripts_file` | `config`, `config_lines`, `OwnDescriptor`, `rdb_slave` |
| `NothingUndone` | `rdb` | `rdb_slave`, `config_lines`, `expire` |
| `MemoryBounded` | `OkMeansUnder`, `ErrMeansNothing`, `IdleNotAbove` | `TwoRounds`, `LimitEnforced` |
| `OnlyWhatIsDue` | `evict_ttl`, `evict_random` | `input`, `clients_pause`, `pubsub`, `pubsub_patterns` |
| `ReplicasConsistent` | `scripts`, `repl`, `repl_bgsave` | `expire`, `multi_slave` |
| `TablesAgree` | `multi`, `multi_dbs`, `script`, the locks | `input_large`, `output`, `output_limits`, `clients`, `clients_pause`, `pubsub`, `pubsub_patterns`, `evict_lru` |
| `MajorityDecides` | `fail`, `fail_all`, `leader_votes` | `OneWinnerPerEpoch`, `RivalsDiffer` |
| `OneConfiguration` | `TypeOK`, `EpochsBehindCurrent`, `SlavesServeNothing` | `ClaimsSettle`, `nodes`, the failover |
| `NoStepBack` | `KeysStay` | the other steps |

### Only model-checked

* Liveness (`ZombiesReaped`, `AlwaysListening`, `RequestEnds`, `WorkEnds`,
  `FailuresHealed`) and the `ENABLED` in `StreamsWhole`: the prover has neither
  fairness nor ENABLED.
* `ValuesHeld` and `AnswersRight`: what a recursive definition computes for every
  input (skip lists, ziplists, the sparse HyperLogLog, the scan cursor) needs
  induction over data, whose theorems take an operator as a parameter. Where a
  recursive function is only unfolded (`Transactions`, `Aof`, `Replication`), a
  minimal counterexample takes its place.
* The right-hand column above, `StreamsWhole` and `ChangesAreSignalled`: no
  theorem yet. `OneWinnerPerEpoch` is not true of every table of nodes: each
  candidate counts the majority of the masters in its own table (`Voters`), so a
  theorem needs the hypothesis that the tables agree on who votes, as they do in
  the suite; its two exceptions (a restarted voter that forgot its vote, an
  acknowledgement that came late) are part of the definition. `ClaimsSettle` and
  `SameEpochSameMaster` need an account of every configuration that was ever
  announced, and the latter holds for the suite's bounds only (see the table
  below, `sentinel.c:1947`).

## Disagreements seen while modelling

Each was found as a counterexample to what the named definition says, when the
model allows the case. The ones with a run are `parent_kills_all`,
`parent_kills_only`, `session_port`, `session_missing` and `sentinel_old_epoch`.
For the others the definition is kept in the module; what is checked is either the
same with the exact exception, or the definition where the constants exclude the
case. The last column is the text of the repository that
says otherwise.

| source | what the code does | definition | against |
|---|---|---|---|
| `ftpd服务器源程序/ftpd.c:440` | The loop of ftpd_sig_int is commented "kill children all" (src/ftpd服务器源程序/ftpd.c:440), but it stops early. ftpd_sig_chld calls dele_from_pids with the value that ended its waitpid loop (0 or -1), so the entry of a reaped child stays in pids (a -1 even matches an empty slot and decrements ftpd_nchild). Kill on such a stale entry fails and exits before later children are signalled, or the decremented ftpd_nchild ends the scan before them. | `FtpdParent.AllChildrenKilled` |  |
| `ftpd服务器源程序/ftpd.c:403` | pids is the "child-pid-array" (src/ftpd服务器源程序/ftpd.c:377) and SIGINT is to "kill children all" (ftpd.c:440), but dele_from_pids(pid) at line 403 is called after the waitpid loop, with 0 or -1, never with the pid of the child that was reaped. Its entry stays, and once the kernel has given the pid to another process, that process is sent SIGQUIT. | `FtpdParent.OnlyChildrenKilled` | `ftpd.c:377, ftpd.c:440` |
| `ftpd服务器源程序/ftpd.c:684` | The help text lists "size port passive ascii binary dir mkdir" among the supported commands (src/ftpd服务器源程序/ftpd.c:305) and ftpd_do_port exists to "create a sockfd to connect to client" (ftpd.c:1030), but ftpd_get_connfd uses only the passive sockets: after PORT was answered with 200 every transfer is refused for lack of a connection, and the PORT socket is closed. | `FtpdSession.PortHonoured` | `ftpd.c:305, ftpd.c:1030` |
| `ftpd服务器源程序/ftpd.c:1195` | A name lstat does not find is meant to end in "RETR cmd error: file \"%s\" not exists" (src/ftpd服务器源程序/ftpd.c:1199), but when the argument has no second word, strchr has set space to NULL and the handler goes on: it accepts the data connection, announces the transfer with 150 and opens address 1, which ends the child in binary mode. | `FtpdSession.MissingFileRefused` | `ftpd.c:1199` |
| `redis/aof.c:278` | flushAppendOnlyFile returns at once when the buffer is empty, so a write that falls into the second of the last fsync is synced only by a later write; if none comes it never is. src/redis-3.0.3/redis.conf:492 says "using the default data fsync policy (see later in the config file) Redis can lose just one second of writes in a dramatic event like a server power outage". | `Aof.EventuallySynced` | `redis.conf:492` |
| `redis/aof.c:1468` | backgroundRewriteDoneHandler empties aof_buf but leaves aof_last_write_status; the cron's flushAppendOnlyFile then returns on the empty buffer and never clears the error, and writes, which would fill the buffer, are refused because of it. src/redis-3.0.3/src/redis.c:1230 says "AOF write errors: in this case we have a buffer to flush as well and clear the AOF error in case of success to make the DB writable again". | `Aof.WritableAgain` | `redis.c:1230` |
| `redis/aof.c:1440` | The rewritten file is renamed over the old one before the parent's part of it is synced; a power failure between the two leaves a file without commands that were synced in the old one and answered. src/redis-3.0.3/src/aof.c:375 says of appendfsync always "we have the contract with the user that on acknowledged write data is synced on disk". | `Aof.AckedSurvive` | `aof.c:375` |
| `redis/aof.c:244` | When startAppendOnly cannot start a rewrite (one is already running) it closes aof_fd but keeps its number. The handler of the finished rewrite takes AOF for enabled and hands the number, which may be another connection's by then, to the thread that closes files. | `Aof.OwnDescriptor` | `aof.c:1426` |
| `ftpd服务器源程序/ftpd.c:1418` | The loop that follows a CR does not look at what Read1 returns. If the data ends with CR (a file that does, or a sender that goes away between CR and LF), c stays CR and the loop writes CR into the file for ever; the session never comes to the end that its reply promises after (src/ftpd服务器源程序/ftpd.c:1360) "Ready to receive file." | `AsciiTransfer` | `ftpd.c:1360` |
| `ftpd服务器源程序/ftpd.c:1421` | The receiver drops a NUL (and a 0xFF) after a CR, which the sender of this pair never adds: a file with such a pair loses a byte, and the reply still is (src/ftpd服务器源程序/ftpd.c:1473) "File received OK." | `AsciiTransfer.ReceivedIsSent` | `ftpd.c:1473` |
| `redis/networking.c:1186` | When clients are paused while a large argument is being received, readQueryFromClient goes on reading up to the end of the argument, nothing parses it, and at the next event remaining is 0: a read of 0 bytes returns 0, is logged as "Client closed connection" and frees a client that has closed nothing. | `ClientInput.ClosedForCause` | `networking.c:1727` |
| `redis/networking.c:953` | processInlineBuffer accepts a line that ends in LF alone but always takes two bytes off behind it, so the first byte of the next request in the buffer is lost: the second of two pipelined lines loses its first character, and a request after the newline a loading slave pings with loses its '*'. | `ClientInput.ParsedRight` | `networking.c:952` |
| `redis/networking.c:983` | setProtocolError marks the client to be closed after its reply, but a master is sent no reply, so no write handler is installed and nothing closes the link; its input is no longer processed, only accumulated. | `ClientInput.CloseScheduled` | `networking.c:1134` |
| `redis/networking.c:1636` | The clock of the soft limit is looked at only when something is added to the list, never when output is sent: a buffer that goes over the limit, is sent completely, and goes over it again with one large object more than soft_limit_seconds later is closed at once, because obuf_soft_limit_reached_time still holds the first time. | `ClientOutput.SoftContinuous` | `networking.c:1634` |
| `redis/blocked.c:145` | unblockClient appends the client to unblocked_clients even when it is there already, as clientsArePaused does (src/redis-3.0.3/src/networking.c:1737); freeClient deletes one node. A client that is unblocked by a push, reads its next BLPOP in the same turn of the event loop, and is killed by a third client in that turn is appended a second time by freeClient itself and stays in the queue, freed. | `Clients.NoDangling` | `networking.c:1737, networking.c:749` |
| `redis/networking.c:1449` | CLIENT KILL by address or id of the link to the master frees the slaves too (freeClient, replicationHandleMasterDisconnection, disconnectSlaves), among them perhaps the client whose node the iterator has saved as the next: the loop goes on with a freed node. | `Clients.NoDangling` | `adlist.c:208` |
| `redis/cluster.c:2551` | clusterSendFailoverAuthIfNeeded sets lastVoteEpoch without asking for nodes.conf to be saved (nor does the new currentEpoch at cluster.c:1594): a voter that restarts votes a second time in the epoch. cluster.c:999 says 'It is not possible that different slaves get the same config epoch during a failover election, because the slaves need to get voted by a majority.' | `ClusterElection.EpochWonOnce` | `cluster.c:1594, cluster.c:999` |
| `redis/cluster.c:1923` | failover_auth_count is reset when an election is scheduled, failover_auth_epoch only when it starts: a vote for the previous election that arrives in between is counted in the next one, whose epoch may be won by another slave too. cluster.c:999 says 'It is not possible that different slaves get the same config epoch during a failover election, because the slaves need to get voted by a majority.' | `ClusterElection.EpochWonOnce` | `cluster.c:999` |
| `redis/cluster.c:2830` | Nothing clears failover_auth_sent and failover_auth_count after a victory. A node that won, was demoted and is told to fail over again within auth_timeout is a winner at once, under the epoch of its first election, which is older than that of the master it replaces. cluster.c:2651 says of clusterFailoverReplaceYourMaster 'Note that it's up to the caller to be sure that the node got a new configuration epoch already.' | `ClusterElection.NewMastersAreNewer` | `cluster.c:2651` |
| `redis/cluster.c:2930` | The candidate is the smallest ID among all slaves of the masters with most working slaves, the failed ones included. When that slave is down, every other slave waits for it and no slave ever migrates, though the master has two working slaves to spare. |  | `cluster.c:2906` |
| `redis/cluster.c:1771` | When a master turns into a slave its list of slaves is dropped, but the slaves still point to it (and a node that names a slave as its master is listed there); freeClusterNode clears slaveof only for masters. A node that turned into a slave and is forgotten, or reset, before its former slaves have told of their new master leaves their slaveof pointing to freed memory, which the next heartbeat and CLUSTER NODES use. | `ClusterNodes.NoDangling` | `cluster.c:824` |
| `redis/cluster.c:1702` | The blacklist is looked at when gossip starts a handshake, not when a handshake ends: one that was started before FORGET, because gossip told another address of the failing node, adds the node again at once. | `ClusterNodes.NotReadded` | `cluster.c:1058` |
| `redis/cluster.c:3571` | ADDSLOTS and SETSLOT NODE do not look whether the node is a slave; REPLICATE checks the slots only of a master. A slave that was given a slot and is told to replicate another master fails redisAssert(myself->numslots == 0) and dies. | `ClusterNodes.NeverAsserts` | `cluster.c:4135` |
| `redis/config.c:1380` | An option at its default value is not written unless the file has a line for it, so a value from an included file comes back after CONFIG SET, CONFIG REWRITE and a restart. redis.conf advises exactly this layout, to put includes (src/redis-3.0.3/redis.conf:25) "at the beginning of this file to avoid overwriting config change at runtime". | `Config.FileLoadsSaved` | `redis.conf:25` |
| `redis/config.c:1821` | repl-backlog-ttl is written by rewriteConfigBytesOption and read with atoi: 2048 seconds are written as 2kb and read as 2. | `Config.FileLoadsSaved` | `config.c:1422` |
| `redis/config.c:1751` | A write that writes less than it was given is taken for a success: the new lines at the end are missing and CONFIG REWRITE answers OK. | `Config.FileLoadsSaved` | `config.c:1776` |
| `redis/config.c:882` | CONFIG SET client-output-buffer-limit checks the numbers with memtoll, which takes units, and applies them with strtoll, which stops at the unit: 1kb is accepted and set to 1. | `Config.SetIsAllOrNothing` | `config.c:856` |
| `ftpd服务器源程序/ftpd.c:153` | In debug mode the SIGCHLD handler prints under the mutex that the interrupted loop may hold: the parent then waits for itself for ever, and every session at its next message. | `DebugLock.NeverWaitsForItself` | `ftpd.c:337` |
| `ftpd服务器源程序/ftpd.c:439` | The SIGINT handler prints, too: a server interrupted while it prints, or whose session was killed while it did, never exits. parent_atlast, which would run at its exit, is there to (src/ftpd服务器源程序/ftpd.c:185) "show something or do some cleanup". | `DebugLock.InterruptEnds` | `ftpd.c:185` |
| `redis/dict.c:889` | dictScan starts the expansions in the larger table at the cursor's own high bits and counts them upwards until they wrap to 0, so with a cursor that was advanced in a large table which has since begun to shrink it visits only the expansions from there up, and then leaves the bucket of the smaller table for good: keys still in the lower expansions are never returned. | `Dict.ScanReturnsAll` | `dict.c:775` |
| `my_epoll.c:167` | Data that arrives while the server reads is read with what came before, and its event comes afterwards: read answers EAGAIN with nothing read, which the server takes for the peer's close, and closes a live connection. | `EpollServer.ServerDoesNotClose` | `my_epoll.c:226` |
| `my_epoll.c:160` | When a peer's last data and its close are there at once, the data is printed and the connection stays open for ever: the edge has been reported. | `EpollServer.ClosedAfterPeer` | `my_epoll.c:77` |
| `redis/redis.c:3219` | Large reply objects are shared between the output buffers of slaves, and counted for each of them: the sum can exceed the memory in use, which the loop over the slaves allows for (mem_used = 0), but the AOF buffer is then subtracted without such a check, and mem_used wraps around: everything is evicted. | `Eviction.CountNotAboveUsed` | `redis.c:3200` |
| `redis/db.c:153` | On a slave expireIfNeeded reports that a key has expired but does not delete it. When all keys that are left have expired, the loop of dbRandomKey never ends, and the DELs of the master are not read meanwhile: the server hangs. | `Expire.RandomKeyReturns` | `db.c:137` |
| `redis/db.c:968` | persistCommand finds the key with dictFind, without expireIfNeeded: a key whose time is over and that was not yet met becomes persistent again with its old value. | `Expire.NotRevived` | `db.c:803` |
| `redis/db.c:63` | lookupKeyRead ignores what expireIfNeeded returns, so that a slave answers with a value that has expired until the DEL of its master arrives. | `Expire.SlaveReadsFresh` | `db.c:845` |
| `redis/t_hash.c:540` | HINCRBY and HINCRBYFLOAT do not call hashTypeTryConversion: a field of any length goes into a ziplist. redis.conf (src/redis-3.0.3/redis.conf:821) says "Hashes are encoded using a memory efficient data structure when they have a small number of entries, and the biggest entry does not exceed a given threshold." | `Hash.ShortInZiplist` | `redis.conf:821` |
| `redis/sort.c:544` | SORT ... STORE puts its list with setKey, which overwrites an existing value without signalListAsReady; a client that blocked for the key before it held a string is not served, and since only the creation of a key signals (src/redis-3.0.3/src/db.c:98), later pushes to that list do not wake it either. src/redis-3.0.3/src/t_list.c:766 says "If a PUSH operation against a key with blocked clients waiting is performed, we mark this key as "ready"". | `Lists.PushSignals` | `db.c:98, t_list.c:766` |
| `redis/replication.c:1000` | A slave that has received its master's snapshot renames it to dump.rdb and then loads dump.rdb, without a look at rdb_child_pid. A child of its own that ends its snapshot in between (emptyDb may take long) renames its file over it, and the slave loads its own old data set and goes on with the master's stream. | `RdbSave.LoadsWhatWasSent` | `redis.c:2340` |
| `redis/replication.c:427` | FULLRESYNC names the master's offset at the time of the request, although the slave may have to wait for a later BGSAVE: snapshot and offset do not belong together, and the next partial resynchronization repeats the writes in between. replication.c:1648 says of a partial resynchronization 'the stream of data that we'll receive will start from were this master left', and replication.c:493 that 'the slave knows the new runid and offset to try a PSYNC later'. | `Replication.NothingLostOrRepeated` | `replication.c:1648, replication.c:493` |
| `redis/replication.c:527` | A slave that joins the BGSAVE of another one gets that one's queue, which starts at the fork, but an offset of now: it counts the queue a second time and acknowledges offsets it has not reached. replication.c:1797 says WAIT 'returns the number of replicas that processed the query'. | `Replication.AckMeansProcessed` | `replication.c:1797` |
| `redis/replication.c:812` | updateSlavesWaitingBgsave sets the slaves that wait for a BGSAVE to start to WAIT_BGSAVE_END before it starts one; when the fork fails it frees only slaves still in WAIT_BGSAVE_START, of which there are none, so that they wait on, kept alive by newlines. replication.c:736 says the function is 'to handle slaves waiting for a successful background saving in order to perform non-blocking synchronization, and to schedule a new BGSAVE'. | `Replication` | `replication.c:736` |
| `redis/scripting.c:1157` | SCRIPT FLUSH is not a write command, so a read only replica runs it for its own clients. The primary does not learn of it and goes on to send EVALSHA, which the replica cannot run. | `ScriptCache.ReplicasKnow` | `scripting.c:1068` |
| `redis/scripting.c:563` | SCRIPT KILL is a Lua error, which pcall() of the script catches: the script goes on, may write, and lua_kill makes the next call of the hook raise the error again, after the write. | `ScriptRun.KilledNeverWrote` | `scripting.c:1194` |
| `redis/scripting.c:558` | Only the readable event of the caller is removed: when it has replies to earlier commands pending, its writable event stays, and a failed write frees the caller while its script runs. | `ScriptRun.CallerStays` | `scripting.c:553` |
| `redis/scripting.c:356` | lua_write_dirty is set before the check that the key is local: a write that the cluster check refuses makes the script unkillable, and turns off the memory check of its first real write. | `ScriptRun.UnkillableWrote` | `scripting.c:1194` |
| `redis/sentinel.c:3307` | sentinelGetLeader counts the other sentinels' votes of sentinel.current_epoch, not of the epoch it was asked about: when another failover has moved current_epoch, a sentinel that still waits for its older failover_epoch asks for and counts votes of the newer epoch and is elected for the older one, for which another sentinel may have been elected. | `SentinelElection.MajorityForItsEpoch` | `sentinel.c:3282` |
| `redis/sentinel.c:2162` | A leader in state RECONF_SLAVES advertises the promoted slave but keeps the old master in master->addr. When a newer configuration names that old master, sentinelProcessHelloMessage takes over the epoch, finds the address unchanged and does not end the failover: the sentinel then advertises its promoted slave with the newer epoch, against the master of that epoch. | `SentinelFailover.SameEpochSameMaster` |  |
| `redis/sentinel.c:2373` | PING is in the else branch of INFO. An instance that hangs after a pong and before the next ping, when INFO is due, gets an INFO at every timer and never a PING: last_ping_time stays 0 and it is never found down. | `SentinelMonitor` | `sentinel.c:2361` |
| `redis/sentinel.c:1619` | pending_commands counts commands of both links, but killing the command link sets it to 0 and killing the Pub/Sub link leaves it: its callbacks find no instance. The count goes below or stays above what is outstanding. | `SentinelMonitor.PendingExact` | `sentinel.c:126` |
| `redis/sentinel.c:764` | sentinelCollectTerminatedScripts decrements running_scripts only when it removes the job; a script that is tried again is counted once more at its next start. After SENTINEL_SCRIPT_MAX_RUNNING retries no script is ever started again. |  | `sentinel.c:676` |
| `redis/sentinel.c:762` | retry_num is incremented when fork fails too, and is compared with the limit by !=: when a fork fails at the last try the limit is skipped and the script is tried without end. |  | `sentinel.c:739` |
| `redis/t_set.c:433` | The count of SRANDMEMBER is cast to unsigned: a count of 2^32 gives no element and 2^32 + 1 one. | `Sets.CountHonoured` | `t_set.c:469` |
| `redis/db.c:757` | moveCommand removes the key from its database and adds it to the other one without signalModifiedKey for either, so that a transaction that watches the key runs although it was moved away. multi.c says (src/redis-3.0.3/src/multi.c:186) "WATCHing those keys, so that given a key that is going to be modified we can mark all the associated clients as dirty." | `Transactions.UnchangedIfWatched` | `multi.c:186` |
| `redis/redis.c:3330` | freeMemoryIfNeeded deletes the key it evicts without signalModifiedKey: a transaction that watches the key runs although the key is gone. | `Transactions.UnchangedIfWatched` | `multi.c:186` |
| `redis/multi.c:299` | A full resynchronization calls signalFlushedDb, which touches only watched keys that exist before it, and then loads the master's data set: a watched key that did not exist and is brought by it leaves the transaction clean. | `Transactions.UnchangedIfWatched` | `multi.c:186` |
| `redis/redis.c:2251` | A write that a read-only slave refuses is not queued and does not flag the transaction (nor does the -LOADING error), so that EXEC runs the rest of it. flagTransaction says (src/redis-3.0.3/src/multi.c:79) "Flag the transacation as DIRTY_EXEC so that EXEC will fail. ..." | `Transactions.EveryRefusalAborts` | `multi.c:79` |
| `redis/multi.c:154` | The checks of processCommand are made when a command is queued; EXEC calls call directly, so that writes queued before SLAVEOF are executed by a read-only slave. | `Transactions.ReadOnlySlave` | `redis.c:2245` |
| `redis/ziplist.c:618` | An entry of two or three bytes is inserted before an entry whose prevlen has five bytes for a length that needs one (the cascade never shrinks it): nextdiff is -4, the list is reallocated with fewer bytes than before, and its last bytes are lost before memmove reads them. | `Ziplist.ForwardIsTheList` | `ziplist.c:613` |
| `redis/t_zset.c:1219` | zaddGenericCommand accepts options followed by no pair at all (elements is 0, which is even), looks for the first element beyond the arguments and adds a new, empty sorted set, without counting or signalling a change. | `SortedSet.NoEmptyKey` | `t_zset.c:2858, t_zset.c:1321` |
| `ftpd服务器源程序/ftpd.c:607` | USER sets ftpd_cur_user before 331 asks for the password: whoever names a user is served like one who has logged in, without PASS. The refusal of AUTH says "Please login with USER and PASS." | `FtpdSession.LoginByPassword` | `ftpd.c:591` |
| `redis/multi.c:88` | MULTI inside MULTI, and WATCH inside MULTI (multi.c:311), are answered by an error without flagTransaction: EXEC runs the rest. | `Transactions.EveryRefusalAborts` | `multi.c:80` |
| `my_epoll.c:157` | A read that fails otherwise than by EAGAIN (a reset connection) is printed and the descriptor stays open. | `EpollServer.ClosedAfterPeer` |  |
| `redis/sentinel.c:1947` | sentinelRefreshInstanceInfo takes over failover_epoch as the master's config_epoch without comparing the two: a leader that waits for the promotion of its slave and has meanwhile heard of a later configuration with the address it had already falls back to its older epoch. Two sentinels, three epochs and three failures are enough; the bounds of the parts `failover` and `failover_slaves` exclude it. | `SentinelFailover.ConfigEpochGrows` | `sentinel.c:1945` |

Read, not modelled: in `replication.c:1038-1047` a loop `while (retry-- ...)`
is followed by `if (!retry)`, which is true before the last attempt has failed
and false after it.

## What is left out

Abstractions a reader should know of, beyond those in the tables above:
`RdbSave` has no restart while an orphan child still writes; `Replication` lets
both ends see a broken connection at once; `SentinelMonitor` assumes that
down-after is longer than the TILT trigger with slack, that hangs come between
bursts of commands, and that a jump back of the clock cannot fill
`pending_commands`; `Eviction` leaves out idle times while a child saves;
`EpollServer` takes the buffer to be larger than what arrives at once;
`DebugLock` leaves out `lprintf`'s static buffer; `ClusterElection` is not run for
convergence after a takeover without votes. `ascii` has no liveness: with a
sender that goes away after a CR the transfer does not end, which is in the table.

Three hazards that were looked at and have no property: a SIGINT between fork
and the child's own handler, a listing longer than `BUFSIZ`
(`ftpd.c:782`), the pipes that stay open when the fork of a rewrite fails
(`aof.c:1301`).

## Plan

Next theorems, in this order:

1. `ClusterElection`: `OneWinnerPerEpoch` and `RivalsDiffer` for tables that agree
   on who votes. The votes a node has cast have to be kept in a history variable,
   as `SentinelElection` has them; `ElectInv` is the typing they need.
2. `Pubsub`: `TablesAgree`, like `WatchTablesAgree`.
3. `Expire`: `SlaveFollows`; the stream to the slave as in `Replication_proofs`.
4. `Clients`: lists and flags agree.
5. `SentinelFailover`: `SameEpochSameMaster` for the configurations that are not
   overtaken.

Next models: replica migration, integer sets, Sentinel's script queue.
