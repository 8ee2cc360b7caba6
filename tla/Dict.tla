-------------------------------- MODULE Dict --------------------------------
(***************************************************************************)
(* The hash table of redis (dict.c): two tables while it is rehashed bucket *)
(* by bucket, the safe iterator and the stateless cursor of SCAN.           *)
(*                                                                         *)
(* A key is its hash: the bucket of k in a table is k % size.  Sizes are    *)
(* powers of two.  The order in a bucket is left out.                       *)
(***************************************************************************)
EXTENDS Integers, Sequences, FiniteSets, FiniteSetsExt

CONSTANTS Keys,         \* hashes
          InitialSize,  \* DICT_HT_INITIAL_SIZE
          MaxSize,      \* bound: the largest table
          EmptyVisits,  \* empty buckets a step of rehashing skips at most
          ForceRatio,   \* dict_force_resize_ratio
          MaxOps        \* bound: changes of the contents

Sizes == {InitialSize * 2^n : n \in 0..MaxSize} \cap 1..MaxSize

DictAssumption ==
    /\ Keys \subseteq Nat /\ {InitialSize, MaxSize} \subseteq Sizes
    /\ EmptyVisits \in Nat \ {0} /\ ForceRatio \in Nat /\ MaxOps \in Nat

VARIABLES
    ht,        \* the keys in the two tables
    size,      \* their sizes; 0: no table
    rehashidx, \* the next bucket to move, or -1
    canResize, \* dict_can_resize
    keys,      \* history: what was added and not deleted
    iter,      \* the safe iterator
    scan,      \* a SCAN in progress
    ops

tables == <<ht, size, rehashidx>>
vars == <<tables, canResize, keys, iter, scan, ops>>

Rehashing == rehashidx # -1
Bucket(t, n, i) == {k \in t : k % n = i}
\* must: the keys there since the start (once it is over, those it missed); split: the loop over
\* the buckets of a larger table has started between them, see dictScan.
NoIter == [on |-> FALSE, table |-> 0, index |-> 0, todo |-> {}, seen |-> {}, must |-> {}]
NoScan == [on |-> FALSE, v |-> 0, seen |-> {}, must |-> {}, split |-> FALSE]

-----------------------------------------------------------------------------
(* Functions of d = [ht, size, idx]                                         *)

Dict == [ht |-> ht, size |-> size, idx |-> rehashidx]
Becomes(d) == ht' = d.ht /\ size' = d.size /\ rehashidx' = d.idx

\* One step of dictRehash: the next bucket that is not empty is moved.
Done(d) == [ht |-> <<d.ht[2], {}>>, size |-> <<d.size[2], 0>>, idx |-> -1]
dictRehash(d) ==
    IF d.idx = -1 THEN d
    ELSE IF d.ht[1] = {} THEN Done(d)
    ELSE LET j == CHOOSE i \in d.idx..(d.size[1] - 1) :
                     /\ Bucket(d.ht[1], d.size[1], i) # {}
                     /\ \A m \in d.idx..(i - 1) : Bucket(d.ht[1], d.size[1], m) = {}
             b == Bucket(d.ht[1], d.size[1], j)
             n == [d EXCEPT !.ht = <<d.ht[1] \ b, d.ht[2] \cup b>>, !.idx = j + 1]
         IN  IF j - d.idx >= EmptyVisits THEN [d EXCEPT !.idx = @ + EmptyVisits]
             ELSE IF n.ht[1] = {} THEN Done(n) ELSE n

\* _dictRehashStep: not while there is a safe iterator.
_dictRehashStep(d) == IF iter.on THEN d ELSE dictRehash(d)

_dictNextPower(n) == Min({s \in Sizes \cup {2 * MaxSize} : s >= n})

dictExpand(d, n) ==
    IF d.idx # -1 \/ Cardinality(d.ht[1]) > n \/ _dictNextPower(n) = d.size[1] THEN d
    ELSE IF d.size[1] = 0 THEN [d EXCEPT !.size[1] = _dictNextPower(n)]
    ELSE [d EXCEPT !.size[2] = _dictNextPower(n), !.idx = 0]

_dictExpandIfNeeded(d) ==
    LET used == Cardinality(d.ht[1])
    IN  IF d.idx # -1 THEN d
        ELSE IF d.size[1] = 0 THEN dictExpand(d, InitialSize)
        ELSE IF used >= d.size[1] /\ (canResize \/ used \div d.size[1] > ForceRatio)
             THEN dictExpand(d, used * 2)
        ELSE d

-----------------------------------------------------------------------------
(* Operations                                                               *)

Gone(k) == /\ scan' = [scan EXCEPT !.must = @ \ {k}]
           /\ iter' = [iter EXCEPT !.must = @ \ {k}]

\* dictAddRaw: a new key goes to the new table.
Target(d) == IF d.idx # -1 THEN 2 ELSE 1
dictAddRaw(k) ==
    LET d == _dictExpandIfNeeded(_dictRehashStep(Dict))
    IN  /\ ops < MaxOps /\ ops' = ops + 1
        /\ k \notin keys /\ {d.size[1], d.size[2]} \subseteq 0..MaxSize
        /\ Becomes([d EXCEPT !.ht[Target(d)] = @ \cup {k}])
        /\ keys' = keys \cup {k}
        /\ UNCHANGED <<canResize, iter, scan>>

\* dictGenericDelete; a user of the iterator deletes only the entry it was given.
dictGenericDelete(k) ==
    LET d == _dictRehashStep(Dict)
    IN  /\ ops < MaxOps /\ ops' = ops + 1
        /\ k \in keys /\ k \notin iter.todo
        /\ Becomes([d EXCEPT !.ht = <<d.ht[1] \ {k}, d.ht[2] \ {k}>>])
        /\ keys' = keys \ {k} /\ Gone(k)
        /\ UNCHANGED canResize

\* dictFind, dictGetRandomKey: a step of rehashing, if nothing else.
dictFind ==
    /\ size[1] # 0 /\ Becomes(_dictRehashStep(Dict))
    /\ UNCHANGED <<canResize, keys, iter, scan, ops>>

\* dictRehashMilliseconds, from databasesCron: no iterator is alive between events.
dictRehashMilliseconds ==
    /\ Rehashing /\ ~iter.on /\ Becomes(dictRehash(Dict))
    /\ UNCHANGED <<canResize, keys, iter, scan, ops>>

\* dictResize, from tryResizeHashTables.
dictResize ==
    /\ canResize /\ ~Rehashing /\ size[1] # 0
    /\ Becomes(dictExpand(Dict, Max({Cardinality(ht[1]), InitialSize})))
    /\ UNCHANGED <<canResize, keys, iter, scan, ops>>

\* updateDictResizePolicy: off while a child saves.
SetResize ==
    /\ canResize' = ~canResize
    /\ UNCHANGED <<tables, keys, iter, scan, ops>>

dictEmpty ==
    /\ ops < MaxOps /\ ops' = ops + 1 /\ keys # {} /\ ~iter.on
    /\ Becomes([ht |-> <<{}, {}>>, size |-> <<0, 0>>, idx |-> -1])
    /\ keys' = {} /\ scan' = [scan EXCEPT !.must = {}]
    /\ UNCHANGED <<canResize, iter>>

-----------------------------------------------------------------------------
(* The safe iterator                                                        *)

dictGetSafeIterator ==
    /\ ~iter.on
    /\ iter' = [on |-> TRUE, table |-> 1, index |-> -1, todo |-> {}, seen |-> {}, must |-> keys]
    /\ UNCHANGED <<tables, canResize, keys, scan, ops>>

\* dictNext: the next entry of the bucket, or the next bucket, of the second table too.
dictNext ==
    LET more == iter.index + 1 < size[iter.table]
        t == IF more THEN iter.table ELSE 2
        i == IF more THEN iter.index + 1 ELSE 0
    IN  /\ iter.on
        /\ \/ \E k \in iter.todo :
                 iter' = [iter EXCEPT !.todo = @ \ {k}, !.seen = @ \cup {k}]
           \/ /\ iter.todo = {} /\ (more \/ (Rehashing /\ iter.table = 1))
              /\ iter' = [iter EXCEPT !.table = t, !.index = i, !.todo = Bucket(ht[t], size[t], i)]
        /\ UNCHANGED <<tables, canResize, keys, scan, ops>>

dictReleaseIterator ==
    /\ iter.on /\ iter.todo = {} /\ iter.index + 1 >= size[iter.table]
    /\ ~(Rehashing /\ iter.table = 1)
    /\ iter' = [NoIter EXCEPT !.must = iter.must \ iter.seen]
    /\ UNCHANGED <<tables, canResize, keys, scan, ops>>

-----------------------------------------------------------------------------
(* SCAN                                                                     *)

\* The reversed cursor plus one, in the bits of a table of n buckets.
RevInc[n \in 1..MaxSize] ==
    [v \in 0..(n - 1) |-> IF n = 1 THEN 0
                          ELSE IF v < n \div 2 THEN v + n \div 2
                          ELSE RevInc[n \div 2][v - n \div 2]]
NextCursor(n, v) == RevInc[n][v]

\* The buckets of the larger table that the loop of dictScan visits: from v on, all
\* that agree with v in the bits of the smaller one.
Expansions_One(n0, n1, v) == {v % n1}
Expansions(n0, n1, v) == {i \in (v % n1)..(n1 - 1) : i % n0 = v % n0}

Visited(v) ==
    IF ~Rehashing THEN Bucket(ht[1], size[1], v % size[1])
    ELSE LET s == IF size[1] > size[2] THEN 2 ELSE 1
             l == 3 - s
         IN  Bucket(ht[s], size[s], v % size[s])
             \cup UNION {Bucket(ht[l], size[l], i) : i \in Expansions(size[s], size[l], v)}
Smaller == IF Rehashing THEN Min({size[1], size[2]}) ELSE size[1]
\* The loop starts from the bucket of v, not from the first one: with a cursor of a table larger
\* than the smaller one (it has shrunk since), and with four or more buckets to visit, one that
\* comes later in the order of cursors may have a lower number, and is left out.
Split(v) ==
    LET n0 == Smaller  n1 == Max({size[1], size[2]})
    IN  Rehashing /\ n1 >= 4 * n0 /\ v % n1 >= n0

ScanStart ==
    /\ ~scan.on /\ scan' = [NoScan EXCEPT !.on = TRUE, !.must = keys]
    /\ UNCHANGED <<tables, canResize, keys, iter, ops>>

\* dictScan of one cursor; a cursor of 0 ends the iteration, as an empty dict does.
dictScan ==
    LET w == IF keys = {} THEN 0 ELSE NextCursor(Smaller, scan.v % Smaller)
        seen == IF keys = {} THEN scan.seen ELSE scan.seen \cup Visited(scan.v)
        split == scan.split \/ (keys # {} /\ Split(scan.v))
    IN  /\ scan.on
        /\ scan' = IF w = 0 THEN [NoScan EXCEPT !.must = scan.must \ seen, !.split = split]
                   ELSE [scan EXCEPT !.v = w, !.seen = seen, !.split = split]
        /\ UNCHANGED <<tables, canResize, keys, iter, ops>>

-----------------------------------------------------------------------------
Init ==
    /\ ht = <<{}, {}>> /\ size = <<0, 0>> /\ rehashidx = -1 /\ canResize = TRUE
    /\ keys = {} /\ iter = NoIter /\ scan = NoScan /\ ops = 0

Next ==
    \/ \E k \in Keys : dictAddRaw(k)
    \/ \E k \in Keys : dictGenericDelete(k)
    \/ dictFind
    \/ dictRehashMilliseconds
    \/ dictResize
    \/ SetResize
    \/ dictEmpty
    \/ dictGetSafeIterator
    \/ dictNext
    \/ dictReleaseIterator
    \/ ScanStart
    \/ dictScan

Spec == Init /\ [][Next]_vars

\* The cron runs between two commands, however many of them iterate; one that does goes on.
Strong(i) == i = 1 /\ dictRehashMilliseconds
Weak(i) ==
    \/ i = 1 /\ dictNext
    \/ i = 2 /\ dictReleaseIterator

-----------------------------------------------------------------------------
\* The tables and their sizes are well formed.
TypeOK ==
    /\ ht \in Seq(SUBSET Keys) /\ Len(ht) = 2 /\ size[1] \in Sizes \cup {0} /\ size[2] \in Sizes \cup {0}
    /\ rehashidx \in -1..(MaxSize - 1) /\ (Rehashing <=> size[2] # 0)

\* The dict holds what was added and not deleted, each key in one of the tables, and
\* buckets below rehashidx are empty: dictGetRandomKey relies on it to find a key.
Contents ==
    /\ ht[1] \cup ht[2] = keys /\ ht[1] \cap ht[2] = {}
    /\ Rehashing => \A k \in ht[1] : k % size[1] >= rehashidx

\* A full SCAN has returned every key that was there from its start to its end, whatever was
\* added, deleted, resized and rehashed in between: unless the table was seen while it was being
\* shrunk to a quarter or less, with a cursor from before (dict.c:893).
ScanComplete == ~scan.on => scan.must = {} \/ scan.split
\* Without the exception ("guarantees all elements present in the dictionary get returned between
\* the start and end of the iteration", dict.c:775) it does not hold.
ScanReturnsAll == ~scan.on => scan.must = {}

\* So has a safe iterator, also if the dict was changed while it was used.
IterComplete == ~iter.on => iter.must = {}

\* The dict is being rehashed, and must not be for ever.
Unfinished(k) == k = 1 /\ Rehashing
=============================================================================
