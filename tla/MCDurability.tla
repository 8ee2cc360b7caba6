---------------------------- MODULE MCDurability ----------------------------
(***************************************************************************)
(* What redis keeps: the append only file, RDB snapshots, replication, the    *)
(* scripts that replicas and the file know, expiry and transactions at a      *)
(* slave, and the configuration file, on small instances.  A behaviour is     *)
(* one of one part: part says which, and x1, x2, ... are its variables.       *)
(***************************************************************************)
EXTENDS Integers, Sequences, SequencesExt, TLC

CONSTANTS Parts, p1, p2, r1, r2, e1, e2   \* Parts: those that are checked

VARIABLES part, x1, x2, x3, x4, x5, x6, x7, x8, x9, x10, x11, x12, x13, x14, x15, x16

allVars == <<part, x1, x2, x3, x4, x5, x6, x7, x8, x9, x10, x11, x12, x13, x14, x15, x16>>
Is(p) == part = p

\* Slaves, replicas and scripts are interchangeable.
Symmetry == Permutations({p1, p2}) \cup Permutations({r1, r2}) \cup Permutations({e1, e2})

\* Lines of configuration files, see Config: options, comments and what redis.conf may
\* hold that CONFIG REWRITE does not write.
Plain(n) == <<n, "">>
Comment == <<"#", 1>>
Empty == <<"">>
T(n) == <<"timeout", Plain(n)>>
S(p) == <<"save", p>>
L(c, n) == <<"limit", <<c, Plain(n)>>>>
O(h) == <<"slaveof", h>>
Rename == <<"rename-command", "flushall">>
\* An option twice, save points apart from each other, lines the rewrite does not know.
HandWritten ==
    { <<>>,
      <<Comment, T(1), Empty, S("p"), Rename, T(2), S("q"), Empty, Empty, Comment>>,
      <<O("h"), Empty, Comment, S("q"), O("h"), S("p"), S("p")>> }
\* Limits of both classes, in either order, and a line between them.
LimitFiles ==
    { <<>>, <<L("slave", 2), Comment, L("normal", 1)>>, <<L("slave", 4), L("slave", 3), Rename>> }
\* What CONFIG SET client-output-buffer-limit is given.
Groups ==
    { <<<<c, Plain(n)>>>> : c \in {"normal", "slave"}, n \in {0, 3, 4} }
        \cup { <<<<"normal", Plain(2)>>, <<"nobody", Plain(1)>>>>, <<<<"slave", Plain(2)>>, <<"normal", Plain(2)>>>> }

\* The variables a part does not use.
Rest16 == x16
Rest15 == <<x15, Rest16>>
Rest14 == <<x14, Rest15>>
Rest13 == <<x13, Rest14>>
Rest12 == <<x12, Rest13>>
Rest11 == <<x11, Rest12>>
Rest10 == <<x10, Rest11>>
Rest9 == <<x9, Rest10>>
Rest8 == <<x8, Rest9>>
Rest7 == <<x7, Rest8>>
Rest6 == <<x6, Rest7>>
Rest5 == <<x5, Rest6>>
Blank16 == x16 = 0
Blank15 == x15 = 0 /\ Blank16
Blank14 == x14 = 0 /\ Blank15
Blank13 == x13 = 0 /\ Blank14
Blank12 == x12 = 0 /\ Blank13
Blank11 == x11 = 0 /\ Blank12
Blank10 == x10 = 0 /\ Blank11
Blank9 == x9 = 0 /\ Blank10
Blank8 == x8 = 0 /\ Blank9
Blank7 == x7 = 0 /\ Blank8
Blank6 == x6 = 0 /\ Blank7
Blank5 == x5 = 0 /\ Blank6

-----------------------------------------------------------------------------
\* Rewrites and a write error.
A == INSTANCE Aof WITH
    Dbs <- 0..1, Policy <- "no", MaxCmds <- 2, MaxFaults <- 1, MaxRewrites <- 2, MaxSwitches <- 0,
    MaxCrashes <- 0, PowerFails <- FALSE, CrashInSwap <- FALSE, StartInRewrite <- FALSE,
    hist <- x1, aof <- x2, file <- x3, synced <- x4, jobs <- x5, child <- x6, pipe <- x7,
    rwbuf <- x8, swap <- x9, acked <- x10, ghost <- x11
ANext == Is("aof") /\ A!Next /\ UNCHANGED <<part, Rest12>>

\* AOF switched off and on.
B == INSTANCE Aof WITH
    Dbs <- 0..1, Policy <- "everysec", MaxCmds <- 2, MaxFaults <- 1, MaxRewrites <- 1,
    MaxSwitches <- 2, MaxCrashes <- 0, PowerFails <- FALSE, CrashInSwap <- FALSE,
    StartInRewrite <- FALSE,
    hist <- x1, aof <- x2, file <- x3, synced <- x4, jobs <- x5, child <- x6, pipe <- x7,
    rwbuf <- x8, swap <- x9, acked <- x10, ghost <- x11
BNext == Is("aof_switch") /\ B!Next /\ UNCHANGED <<part, Rest12>>

\* Crashes, of the machine too.
C == INSTANCE Aof WITH
    Dbs <- 0..1, Policy <- "always", MaxCmds <- 2, MaxFaults <- 0, MaxRewrites <- 1,
    MaxSwitches <- 0, MaxCrashes <- 2, PowerFails <- TRUE, CrashInSwap <- FALSE,
    StartInRewrite <- FALSE,
    hist <- x1, aof <- x2, file <- x3, synced <- x4, jobs <- x5, child <- x6, pipe <- x7,
    rwbuf <- x8, swap <- x9, acked <- x10, ghost <- x11
CNext == Is("aof_always") /\ C!Next /\ UNCHANGED <<part, Rest12>>

\* Every way to save, with two faults.
R == INSTANCE RdbSave WITH
    Changes <- 1, Seconds <- 0, RetryDelay <- 1,
    Events <- {"save", "bgsave", "cron", "flushall", "shutdown"}, MaxWrites <- 3, MaxAge <- 2,
    MaxFaults <- 2,
    data <- x1, writes <- x2, file <- x3, dirty <- x4, before <- x5, child <- x6, last <- x7,
    faults <- x8, run <- x9, sent <- x10
RNext == Is("rdb") /\ R!Next /\ UNCHANGED <<part, Rest11>>

\* A slave that takes the file of its master, with a child of its own.
V == INSTANCE RdbSave WITH
    Changes <- 1, Seconds <- 0, RetryDelay <- 1, Events <- {"save", "bgsave", "resync"},
    MaxWrites <- 3, MaxAge <- 2, MaxFaults <- 1,
    data <- x1, writes <- x2, file <- x3, dirty <- x4, before <- x5, child <- x6, last <- x7,
    faults <- x8, run <- x9, sent <- x10
VNext == Is("rdb_slave") /\ V!Next /\ UNCHANGED <<part, Rest11>>

\* Two slaves, one lost link.
P == INSTANCE Replication WITH
    Slaves <- {p1, p2}, Sizes <- {2, 3}, InitSize <- 2, Diskless <- FALSE, UserBgsave <- FALSE,
    ForkFails <- FALSE, MaxLog <- 2, MaxOff <- 3, MaxDrops <- 1,
    log <- x1, runid <- x2, moff <- x3, seldb <- x4, bl <- x5, child <- x6, sl <- x7, wire <- x8,
    rs <- x9, cached <- x10, master <- x11, initial <- x12, data <- x13, hist <- x14, late <- x15,
    drops <- x16
PNext == Is("repl") /\ P!Next /\ UNCHANGED part

\* One slave, two lost links, BGSAVE by a user.
Q == INSTANCE Replication WITH
    Slaves <- {p1}, Sizes <- {2, 3}, InitSize <- 2, Diskless <- FALSE, UserBgsave <- TRUE,
    ForkFails <- FALSE, MaxLog <- 2, MaxOff <- 5, MaxDrops <- 2,
    log <- x1, runid <- x2, moff <- x3, seldb <- x4, bl <- x5, child <- x6, sl <- x7, wire <- x8,
    rs <- x9, cached <- x10, master <- x11, initial <- x12, data <- x13, hist <- x14, late <- x15,
    drops <- x16
QNext == Is("repl_bgsave") /\ Q!Next /\ UNCHANGED part

\* A cache of one script.
E == INSTANCE ScriptCache WITH
    Scripts <- {e1, e2}, Replicas <- {r1, r2}, repl_scriptcache_size <- 1, ClientFlush <- FALSE,
    MaxCommands <- 3,
    lua_scripts <- x1, fifo <- x2, replstate <- x3, link <- x4, known <- x5, aof <- x6,
    commands <- x7
ENext == Is("scripts") /\ E!Next /\ UNCHANGED <<part, Rest8>>

\* SCRIPT FLUSH at the replica is allowed.
F == INSTANCE ScriptCache WITH
    Scripts <- {e1, e2}, Replicas <- {r1}, repl_scriptcache_size <- 1, ClientFlush <- TRUE,
    MaxCommands <- 4,
    lua_scripts <- x1, fifo <- x2, replstate <- x3, link <- x4, known <- x5, aof <- x6,
    commands <- x7
FNext == Is("scripts_file") /\ F!Next /\ UNCHANGED <<part, Rest8>>

\* Files written by hand.
G == INSTANCE Config WITH
    InitialFiles <- HandWritten, Included <- <<>>, Timeouts <- {0}, Memories <- {4}, Ttls <- {},
    Saves <- {<<>>, <<"q", "p">>}, Limits <- {}, Hosts <- {}, KB <- 2, FullDisk <- FALSE,
    MaxCrashes <- 1,
    conf <- x1, file <- x2, content <- x3, pc <- x4, saved <- x5, request <- x6, crashes <- x7
GNext == Is("config") /\ G!Next /\ UNCHANGED <<part, Rest8>>

\* Lines of several classes; the disk may be full.
H == INSTANCE Config WITH
    InitialFiles <- LimitFiles, Included <- <<>>, Timeouts <- {0, 1}, Memories <- {}, Ttls <- {},
    Saves <- {}, Limits <- Groups, Hosts <- {}, KB <- 2, FullDisk <- TRUE, MaxCrashes <- 1,
    conf <- x1, file <- x2, content <- x3, pc <- x4, saved <- x5, request <- x6, crashes <- x7
HNext == Is("config_lines") /\ H!Next /\ UNCHANGED <<part, Rest8>>

\* A key that expires at the master and at its slave.
X == INSTANCE Expire WITH
    Keys <- {1}, dbnum <- 1, DbsPerCall <- 16, TimeFor <- {1}, Ttls <- {0, 1},
    Ops <- {"set", "incr", "expire", "expireat", "get", "cycle", "random", "get_slave", "promote", "del"},
    MaxNow <- 3, MaxCmds <- 3,
    now <- x1, m <- x2, sl <- x3, stream <- x4, n <- x5, cycle <- x6, rnd <- x7, read <- x8
XNext == Is("expire") /\ X!Next /\ UNCHANGED <<part, Rest9>>

\* Transactions of two clients, at a slave.
M == INSTANCE Transactions WITH
    Clients <- 1..2, Keys <- {1}, Dbs <- 1..2, Ops <- {"set", "move", "flush"}, Events <- {"evict"},
    HasSlave <- TRUE, MaxCmds <- 3, MaxQueue <- 2,
    s <- x1, stream <- x2, rep <- x3, hist <- x4
MNext == Is("multi_slave") /\ M!Next /\ UNCHANGED <<part, Rest5>>

ASSUME Assumptions ==
    /\ A!AofAssumption /\ B!AofAssumption /\ C!AofAssumption /\ R!RdbSaveAssumption
    /\ V!RdbSaveAssumption /\ P!BoundsAssumption /\ Q!BoundsAssumption /\ E!ScriptCacheAssumption
    /\ F!ScriptCacheAssumption /\ G!ConfigAssumption /\ H!ConfigAssumption /\ X!ExpireAssumption
    /\ M!TransactionsAssumption

AllInit ==
    /\ part \in Parts
    /\ \/ Is("aof") /\ A!Init /\ Blank12
       \/ Is("aof_switch") /\ B!Init /\ Blank12
       \/ Is("aof_always") /\ C!Init /\ Blank12
       \/ Is("rdb") /\ R!Init /\ Blank11
       \/ Is("rdb_slave") /\ V!Init /\ Blank11
       \/ Is("repl") /\ P!Init
       \/ Is("repl_bgsave") /\ Q!Init
       \/ Is("scripts") /\ E!Init /\ Blank8
       \/ Is("scripts_file") /\ F!Init /\ Blank8
       \/ Is("config") /\ G!Init /\ Blank8
       \/ Is("config_lines") /\ H!Init /\ Blank8
       \/ Is("expire") /\ X!Init /\ Blank9
       \/ Is("multi_slave") /\ M!Init /\ Blank5

AllNext ==
    \/ ANext \/ BNext \/ CNext \/ RNext \/ VNext \/ PNext \/ QNext \/ ENext \/ FNext \/ GNext
    \/ HNext \/ XNext \/ MNext

AllSpec == AllInit /\ [][AllNext]_allVars

-----------------------------------------------------------------------------
(* Nothing that was written is lost: the file and the buffer, and what a      *)
(* rewriting child has and is sent, rebuild the data whatever fails or is     *)
(* switched in between; what was acknowledged with appendfsync always is      *)
(* there after a crash of the machine; dump.rdb is whole, and what is not in  *)
(* it is counted as dirty; every script the file calls by its hash is in it.  *)
(* Whenever the server stops, also in the middle of CONFIG REWRITE, it comes  *)
(* back with the options it had when the last rewrite was answered, and       *)
(* rewriting again and again settles.                                         *)
NothingLost ==
    /\ Is("aof") => A!TypeOK /\ A!NothingLost /\ A!RewriteComplete
    /\ Is("aof_switch") => B!TypeOK /\ B!NothingLost /\ B!RewriteComplete /\ B!OwnDescriptor
    /\ Is("aof_always") => C!TypeOK /\ C!NothingLost /\ C!AckedSurvive
    /\ Is("rdb") => R!TypeOK /\ R!FileWhole /\ R!NothingForgotten
    /\ Is("rdb_slave") => V!FileWhole
    /\ Is("scripts_file") => F!TypeOK /\ F!FileReplays
    /\ Is("config") => G!TypeOK /\ G!FileLoadsSaved
    /\ Is("config_lines") => H!TypeOK /\ H!RewriteSettles

(* A slave that takes what is queued for it has exactly the data of its       *)
(* master: the backlog is the end of the stream, offsets mean the same at     *)
(* both ends, EVALSHA is sent only to replicas that know the script, a slave  *)
(* never sees half a transaction ("will have the same consistency and         *)
(* atomicity guarantees", multi.c:151), and takes no key for expired that     *)
(* its master has.                                                            *)
ReplicasConsistent ==
    /\ Is("repl") => P!TypeOK /\ P!BacklogIsTail /\ P!ExactSlavesConsistent /\ P!OffsetExact
    /\ Is("repl_bgsave") => Q!TypeOK /\ Q!BacklogIsTail /\ Q!ExactSlavesConsistent /\ Q!OffsetExact
    /\ Is("scripts") => E!TypeOK /\ E!ReplicasKnow
    /\ Is("expire") => /\ X!TypeOK /\ X!ExpiresHaveKeys
                       /\ X!SlaveFollows /\ X!SlaveKeepsLonger /\ X!MasterReadsFresh
    /\ Is("multi_slave") => M!TypeOK /\ M!SlaveAtomic /\ M!SlaveFollows

(* No step undoes what was kept: dump.rdb of a server that is no slave is     *)
(* never replaced by an older one, a failed save is reported, a slave loads   *)
(* what it was sent, but for a snapshot of its own child that comes over it;  *)
(* a rewrite leaves lines it does not understand alone, CONFIG SET takes all  *)
(* limits or none; a key that has expired does not lose its time to live and  *)
(* stay (db.c:803).                                                           *)
NothingUndone ==
    [][ /\ Is("rdb") => R!NeverOlder /\ R!FailureTells
        /\ Is("rdb_slave") => V!LoadsWhatWasSent
        /\ Is("config_lines") => H!ForeignKept /\ H!SetIsAllOrNothing
        /\ Is("expire") => X!NotRevived ]_allVars
=============================================================================
