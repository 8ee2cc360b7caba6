---------------------------- MODULE MCDataTypes -----------------------------
(***************************************************************************)
(* The data types of redis, each with the encodings it moves between, and     *)
(* the hash ring, on small instances.  A behaviour is one of one part: part   *)
(* says which, and x1, x2, ... are its variables.  The instances say what     *)
(* their constants are; a property says what each part has to do with it.     *)
(***************************************************************************)
EXTENDS HashRing, Integers

CONSTANTS Parts   \* Parts: those that are checked

VARIABLES part, x1, x2, x3, x4, x5, x6, x7, x8

allVars == <<part, x1, x2, x3, x4, x5, x6, x7, x8, vars>>
Is(p) == part = p



\* The variables a part does not use.
Rest8 == x8
Rest7 == <<x7, Rest8>>
Rest6 == <<x6, Rest7>>
Rest5 == <<x5, Rest6>>
Rest4 == <<x4, Rest5>>
Rest3 == <<x3, Rest4>>
Blank8 == x8 = 0
Blank7 == x7 = 0 /\ Blank8
Blank6 == x6 = 0 /\ Blank7
Blank5 == x5 = 0 /\ Blank6
Blank4 == x4 = 0 /\ Blank5
Blank3 == x3 = 0 /\ Blank4

-----------------------------------------------------------------------------
\* Four keys in tables of 1 to 8 buckets; a resize, a scan and an iterator at once.
D == INSTANCE Dict WITH
    Keys <- 0..3, InitialSize <- 1, MaxSize <- 8, EmptyVisits <- 2, ForceRatio <- 1, MaxOps <- 5,
    ht <- x1, size <- x2, rehashidx <- x3, canResize <- x4, keys <- x5, iter <- x6, scan <- x7,
    ops <- x8
DNext == Is("dict") /\ D!Next /\ UNCHANGED <<part, vars>>

\* Lengths around the one at which a prevlen takes more bytes; more entries than the count can say.
Z == INSTANCE Ziplist WITH
    ZIP_BIGLEN <- 9, LEN_MAX <- 3, Payloads <- {2, 3, 7}, MaxEntries <- 5,
    zl <- x1, list <- x2
ZNext == Is("ziplist") /\ Z!Next /\ UNCHANGED <<part, vars, Rest3>>

\* Numbers are -2..1; a replica that converts later.
H == INSTANCE Hash WITH
    Fields <- {1, 10, 11}, Strings <- {10, 20, 21}, LongStrings <- {11, 20}, Low <- 2, High <- 1,
    hash_max_ziplist_entries <- 1, replica_max_ziplist_entries <- 2, Increments <- FALSE,
    MaxValue <- 1,
    o <- x1, replica <- x2, reply <- x3
HNext == Is("hash") /\ H!Next /\ UNCHANGED <<part, vars, Rest4>>

\* Two clients that block on two lists.
L == INSTANCE Lists WITH
    Keys <- {"a", "b"}, Values <- {"v", "w"}, Clients <- {"c1", "c2"}, Long <- {"w"},
    MaxZiplist <- 2, MaxLen <- 3, MaxCmds <- 4, SortOverwrites <- FALSE,
    db <- x1, rep <- x2, bpop <- x3, blocking <- x4, ready <- x5, phase <- x6, run <- x7, cmds <- x8
LNext == Is("lists") /\ L!Next /\ UNCHANGED <<part, vars>>

\* Two sets; an intset holds at most two of the three numbers.
S == INSTANCE Sets WITH
    Keys <- {"k1", "k2"}, Elements <- {"i1", "i2", "i3", "s1"}, IntElements <- {"i1", "i2", "i3"},
    set_max_intset_entries <- 2, UINT <- 8, MaxCount <- 5, MaxArgs <- 2, MaxKeyArgs <- 2,
    db <- x1, replica <- x2
SNext == Is("sets") /\ S!Next /\ UNCHANGED <<part, vars, Rest3>>

\* The same for operations on up to four sets.
A == INSTANCE Sets WITH
    Keys <- {"k1", "k2"}, Elements <- {"i1", "i2", "i3", "s1"}, IntElements <- {"i1", "i2", "i3"},
    set_max_intset_entries <- 2, UINT <- 8, MaxCount <- 5, MaxArgs <- 1, MaxKeyArgs <- 4,
    db <- x1, replica <- x2
ANext == Is("sets_algebra") /\ A!Next /\ UNCHANGED <<part, vars, Rest3>>

\* One sorted set of up to three elements, for the queries.
Q == INSTANCE SortedSet WITH
    Elems <- 1..3, Scores <- {0, 1}, Inf <- 9, MaxLevel <- 2, Keys <- {"k1"}, Long <- {3},
    MaxEntries <- 1, MaxArgs <- 1, MaxSources <- 0, Weights <- {1}, NoPairs <- TRUE,
    db <- x1, ref <- x2, last <- x3
QNext == Is("zset") /\ Q!Next /\ UNCHANGED <<part, vars, Rest4>>

\* Two sorted sets, scores 0 and -9 and 9 for the infinities, weights, for the stores.
T == INSTANCE SortedSet WITH
    Elems <- 1..2, Scores <- {0, 9}, Inf <- 9, MaxLevel <- 1, Keys <- {"k1", "k2"}, Long <- {},
    MaxEntries <- 1, MaxArgs <- 1, MaxSources <- 2, Weights <- -1..1, NoPairs <- FALSE,
    db <- x1, ref <- x2, last <- x3
TNext == Is("zset_store") /\ T!Next /\ UNCHANGED <<part, vars, Rest4>>

\* One value of five registers, for splitting and merging of its runs.
Y == INSTANCE HyperLogLog WITH
    Keys <- {"k1"}, HLL_REGISTERS <- 5, HLL_MAX_COUNT <- 3, HLL_SPARSE_ZERO_MAX_LEN <- 2,
    HLL_SPARSE_XZERO_MAX_LEN <- 4, HLL_SPARSE_VAL_MAX_LEN <- 3, HLL_SPARSE_VAL_MAX_VALUE <- 2,
    hll_sparse_max_bytes <- 5, replica_sparse_max_bytes <- 4,
    db <- x1, replica <- x2, added <- x3
YNext == Is("hll") /\ Y!Next /\ UNCHANGED <<part, vars, Rest4>>

\* Two values of three registers, for PFMERGE.
W == INSTANCE HyperLogLog WITH
    Keys <- {"k1", "k2"}, HLL_REGISTERS <- 3, HLL_MAX_COUNT <- 2, HLL_SPARSE_ZERO_MAX_LEN <- 1,
    HLL_SPARSE_XZERO_MAX_LEN <- 3, HLL_SPARSE_VAL_MAX_LEN <- 2, HLL_SPARSE_VAL_MAX_VALUE <- 1,
    hll_sparse_max_bytes <- 2, replica_sparse_max_bytes <- 3,
    db <- x1, replica <- x2, added <- x3
WNext == Is("hll_merge") /\ W!Next /\ UNCHANGED <<part, vars, Rest4>>

\* A hash ring of three nodes with two points each, wherever the hash puts them.
BaseNext == Is("ring") /\ Next /\ UNCHANGED <<part, x1, x2, x3, x4, x5, x6, x7, x8>>

ASSUME Assumptions ==
    /\ D!DictAssumption /\ Z!ZiplistAssumption /\ H!HashAssumption /\ L!ListsAssumption
    /\ S!SetsAssumption /\ A!SetsAssumption /\ Q!SortedSetAssumption /\ T!SortedSetAssumption
    /\ Y!HyperLogLogAssumption /\ W!HyperLogLogAssumption /\ RingAssumption

AllInit ==
    /\ part \in Parts
    /\ IF Is("ring") THEN Init ELSE hash_ = <<>> /\ ring_ = EmptyRing /\ nodes = {}
    /\ \/ Is("dict") /\ D!Init
       \/ Is("ziplist") /\ Z!Init /\ Blank3
       \/ Is("hash") /\ H!Init /\ Blank4
       \/ Is("lists") /\ L!Init
       \/ Is("sets") /\ S!Init /\ Blank3
       \/ Is("sets_algebra") /\ A!Init /\ Blank3
       \/ Is("zset") /\ Q!Init /\ Blank4
       \/ Is("zset_store") /\ T!Init /\ Blank4
       \/ Is("hll") /\ Y!Init /\ Blank4
       \/ Is("hll_merge") /\ W!Init /\ Blank4
       \/ Is("ring") /\ x1 = 0 /\ x2 = 0 /\ Blank3

AllNext ==
    \/ DNext \/ ZNext \/ HNext \/ LNext \/ SNext \/ ANext \/ QNext \/ TNext \/ YNext \/ WNext
    \/ BaseNext

AllSpec == AllInit /\ [][AllNext]_allVars

-----------------------------------------------------------------------------
(* What is in memory is well formed for its encoding and within the limits    *)
(* of that encoding, on whatever way it got there: the tables of a dict, the  *)
(* offsets, counts and tail of a ziplist (which can be walked from its end),  *)
(* the pointers and spans of a skip list on all levels, the runs of a sparse  *)
(* HyperLogLog; and no key is left with an empty value (but by ZADD with      *)
(* options and no pair, which part zset has).  And it holds what the          *)
(* commands have put there and nothing else, through rehashing, cascading     *)
(* updates, splits, merges, conversions and promotions.  A replica that runs  *)
(* what is propagated to it holds the same values, though its encodings       *)
(* change at other sizes: SPOP, HINCRBYFLOAT, pushes and pops for blocked     *)
(* clients.                                                                   *)
ValuesHeld ==
    /\ Is("dict") => D!TypeOK /\ D!Contents
    /\ Is("ziplist") => /\ Z!TypeOK /\ Z!BackwardIsTheList /\ Z!CountRight
                        /\ Z!ForwardIsTheList
    /\ Is("hash") => /\ H!TypeOK /\ H!ShortInZiplist /\ H!NoEmptyHash
                     /\ H!ReplicaHasTheSame
    /\ Is("lists") => L!TypeOK /\ L!NoEmptyList /\ L!InSync
    /\ Is("sets") => S!TypeOK /\ S!NoEmptySet /\ S!ReplicaEqual
    /\ Is("sets_algebra") => A!TypeOK /\ A!NoEmptySet /\ A!ChangesSignalled
    /\ Is("zset") => Q!TypeOK /\ Q!Structure /\ Q!WithinLimits /\ Q!Contents
    /\ Is("zset_store") => /\ T!TypeOK /\ T!Structure /\ T!WithinLimits
                           /\ T!NoEmptyKey /\ T!Contents
    /\ Is("hll") => Y!TypeOK /\ Y!SizeBounded /\ Y!MergedWhenPossible /\ Y!RegistersRight
    /\ Is("hll_merge") => W!TypeOK /\ W!SizeBounded /\ W!RegistersRight /\ W!CacheRight

(* Reads and algebra answer as the definitions of set, list and sorted set    *)
(* say, by whichever algorithm and encoding: ranks and ranges of t_zset.c,    *)
(* LRANGE, the intersections, unions and differences of t_set.c,              *)
(* SRANDMEMBER, SMOVE.  A SCAN, and a safe iterator, return every key that    *)
(* was in the dict from their start to their end, whatever is added,          *)
(* deleted, resized and rehashed in between ("guarantees all elements         *)
(* present in the dictionary get returned", dict.c:775), but for a SCAN that  *)
(* meets a table being shrunk with a cursor from between the buckets that     *)
(* are joined (dict.c:893).  A key belongs to the node of the hash ring       *)
(* whose point is the nearest ahead (consistent.h:109).                       *)
AnswersRight ==
    /\ Is("zset") => Q!RankQueries /\ Q!ScoreQueries /\ Q!LexQueries
    /\ Is("lists") => L!EncodingsAgree
    /\ Is("sets") => S!CountHonoured /\ S!MoveKeepsElements
    /\ Is("sets_algebra") => A!AlgebraOK
    /\ Is("dict") => D!ScanComplete /\ D!IterComplete
    /\ Is("ring") => TypeOK /\ NearestOwns

(* A command that changes a key counts as a change and signals the key, to    *)
(* watching and to blocked clients (signalModifiedKey, signalListAsReady),    *)
(* and no client stays blocked on a key that holds a list, nor in the queue   *)
(* of a key it does not wait for; and a key of the ring moves only to a node  *)
(* that was added or away from one that was removed.                          *)
ChangesAreSignalled ==
    [][ /\ Is("zset_store") => T!Propagated
        /\ Is("lists") => L!PushSignals /\ L!NotStarved' /\ L!BlockedConsistent'
        /\ Is("ring") => KeysStay ]_allVars
=============================================================================
