------------------------------ MODULE Eviction ------------------------------
(***************************************************************************)
(* maxmemory: freeMemoryIfNeeded and the pool of good keys to evict         *)
(* (redis.c), with the 24 bit clock of last accesses (object.c).            *)
(*                                                                         *)
(* Every key takes one unit of memory.  The pool is an array with empty     *)
(* places (NoKey); its entries keep the idle time of when they were put in, *)
(* and may name keys that are gone or are new again.                        *)
(***************************************************************************)
EXTENDS Integers, Sequences, SequencesExt, FiniteSets

CONSTANTS
    Keys,            \* numbers
    policy,          \* maxmemory_policy
    maxmemory,
    maxmemory_samples,
    PoolSize,        \* REDIS_EVICTION_POOL_SIZE
    ClockMax,        \* REDIS_LRU_CLOCK_MAX
    Word,            \* size_t: numbers below Word
    Slaves,          \* number of slaves; they share the objects in their output buffers
    Aof,             \* is the append only file on?
    MaxSteps         \* bound: accesses and ticks of the clock

EvictionAssumption ==
    /\ Keys \subseteq Nat \ {0} /\ IsFiniteSet(Keys) /\ Slaves \in Nat
    /\ PoolSize \in Nat \ {0} /\ ClockMax \in Nat \ {0} /\ Word \in Nat \ {0} /\ maxmemory \in Nat
    /\ policy \in {"noeviction", "allkeys-lru", "volatile-lru", "allkeys-random", "volatile-random", "volatile-ttl"}

NoKey == 0

VARIABLES
    dict,     \* keys of db->dict
    ttl,      \* db->expires: its time for a key, 0 for none
    lru,      \* clock of a key's last access
    idle,     \* history: real idle time of a key
    clock,    \* LRU_CLOCK
    pool,     \* db->eviction_pool
    buf,      \* what is in every slave's output buffer and in the AOF buffer: [out, aof]
    job,      \* the call of freeMemoryIfNeeded: [pc, tofree, freed, best, tried]
    steps

vars == <<dict, ttl, lru, idle, clock, pool, buf, job, steps>>

Array == 1..PoolSize
Entry(k, i) == [key |-> k, idle |-> i]
Lru == policy \in {"allkeys-lru", "volatile-lru"}
\* The table that the policy takes keys from.
Candidates == IF policy \in {"allkeys-lru", "allkeys-random"} THEN dict ELSE {k \in dict : ttl[k] # 0}

-----------------------------------------------------------------------------
estimateObjectIdleTime(l, c) == IF c >= l THEN c - l ELSE c + (ClockMax - l)

\* One sample goes into the pool.  k is the first place that is empty or has an entry that was
\* idle for as long or longer.
Insert(p, e) ==
    LET full == p[PoolSize].key # NoKey
        k == CHOOSE j \in 1..(PoolSize + 1) :
               /\ j = PoolSize + 1 \/ p[j].key = NoKey \/ p[j].idle >= e.idle
               /\ \A i \in 1..(j - 1) : p[i].key # NoKey /\ p[i].idle < e.idle
    IN  IF k = 1 /\ full THEN p
        ELSE IF k <= PoolSize /\ p[k].key = NoKey THEN [p EXCEPT ![k] = e]
        ELSE IF ~full THEN [i \in Array |-> IF i < k THEN p[i] ELSE IF i = k THEN e ELSE p[i - 1]]
        ELSE [i \in Array |-> IF i < k - 1 THEN p[i + 1] ELSE IF i = k - 1 THEN e ELSE p[i]]
evictionPoolPopulate(p, samples) ==
    FoldLeft(LAMBDA q, k : Insert(q, Entry(k, estimateObjectIdleTime(lru[k], clock))), p, samples)
\* The entry leaves the pool, what is right of it moves one place to the left.
TakeOut(p, k) == [i \in Array |-> IF i < k THEN p[i] ELSE IF i < PoolSize THEN p[i + 1] ELSE Entry(NoKey, 0)]
\* From the right: ghosts are thrown away until a key is found that exists.
Live(p) == {i \in Array : p[i].key \in Candidates}
Pick(p) ==
    LET k == IF Live(p) = {} THEN 0 ELSE CHOOSE i \in Live(p) : \A j \in Live(p) : j <= i
        ghosts == {i \in Array : i > k /\ p[i].key # NoKey}
        seq == [i \in 1..Cardinality(ghosts) |-> Cardinality(ghosts) + k + 1 - i]
        cleaned == FoldLeft(TakeOut, p, seq)
    IN  IF k = 0 THEN [pool |-> cleaned, best |-> NoKey]
        ELSE [pool |-> TakeOut(cleaned, k), best |-> p[k].key]

-----------------------------------------------------------------------------
(* freeMemoryIfNeeded                                                       *)

zmalloc_used_memory == Cardinality(dict) + buf.out + buf.aof
\* Memory without the buffers of slaves and AOF, in a size_t.
mem_used(used) ==
    LET out == Slaves * buf.out   \* a buffer greater than what is left makes it 0
    IN  ((IF out > used THEN 0 ELSE used - out) - buf.aof) % Word
Job(pc) == [pc |-> pc, tofree |-> 0, freed |-> 0, best |-> NoKey, tried |-> 0]
Start ==
    LET used == mem_used(zmalloc_used_memory)
    IN  /\ job.pc = "idle"
        /\ job' = IF used <= maxmemory THEN Job("ok")
                  ELSE IF policy = "noeviction" THEN Job("err")
                  ELSE [Job("choose") EXCEPT !.tofree = used - maxmemory]
        /\ UNCHANGED <<dict, ttl, lru, idle, clock, pool, buf, steps>>
NothingToFree ==
    /\ job.pc = "choose" /\ Candidates = {}
    /\ job' = [job EXCEPT !.pc = "err"] /\ UNCHANGED <<dict, ttl, lru, idle, clock, pool, buf, steps>>
\* while (bestkey == NULL): populate, then go through the pool.
ChooseLru(samples) ==
    /\ job.pc = "choose" /\ Lru /\ Candidates # {}
    /\ LET r == Pick(evictionPoolPopulate(pool, samples))
       IN  pool' = r.pool
           /\ job' = [job EXCEPT !.best = r.best, !.pc = IF r.best = NoKey THEN "choose" ELSE "evict",
                                 !.tried = IF samples = <<>> \/ @ > 2 THEN @ ELSE @ + 1]
    /\ UNCHANGED <<dict, ttl, lru, idle, clock, buf, steps>>
ChooseRandom(k) ==
    /\ job.pc = "choose" /\ policy \in {"allkeys-random", "volatile-random"} /\ k \in Candidates
    /\ job' = [job EXCEPT !.best = k, !.pc = "evict"]
    /\ UNCHANGED <<dict, ttl, lru, idle, clock, pool, buf, steps>>
\* Of some samples the one that expires first.
ChooseTtl(sample) ==
    /\ job.pc = "choose" /\ policy = "volatile-ttl" /\ sample # {} /\ sample \subseteq Candidates
    /\ \E k \in sample : /\ \A j \in sample : ttl[k] <= ttl[j]
                         /\ job' = [job EXCEPT !.best = k, !.pc = "evict"]
    /\ UNCHANGED <<dict, ttl, lru, idle, clock, pool, buf, steps>>
Fed == [out |-> IF Slaves > 0 THEN buf.out + 1 ELSE 0, aof |-> IF Aof THEN buf.aof + 1 ELSE 0]
\* The DEL for slaves and AOF is not counted, and the slaves' buffers are flushed.
Evict ==
    /\ job.pc = "evict"
    /\ dict' = dict \ {job.best} /\ ttl' = [ttl EXCEPT ![job.best] = 0]
    /\ job' = [job EXCEPT !.best = NoKey, !.tried = 0, !.freed = @ + 1,
                          !.pc = IF job.freed + 1 >= job.tofree THEN "ok" ELSE "choose"]
    /\ buf' = [Fed EXCEPT !.out = 0] /\ UNCHANGED <<lru, idle, clock, pool, steps>>
Done ==
    /\ job.pc \in {"ok", "err"} /\ job' = Job("idle") /\ UNCHANGED <<dict, ttl, lru, idle, clock, pool, buf, steps>>

-----------------------------------------------------------------------------
(* Between the calls: commands and the clock                                *)

Step == job.pc = "idle" /\ steps < MaxSteps /\ steps' = steps + 1 /\ UNCHANGED <<pool, job>>
\* lookupKey; a command that writes makes the key.
lookupKey(k) ==
    /\ Step /\ dict' = dict \cup {k} /\ lru' = [lru EXCEPT ![k] = clock] /\ idle' = [idle EXCEPT ![k] = 0]
    /\ ttl' \in {[ttl EXCEPT ![k] = t] : t \in {0, 1, 2}} /\ buf' = Fed /\ UNCHANGED clock
dbDelete(k) ==
    /\ Step /\ k \in dict /\ dict' = dict \ {k} /\ ttl' = [ttl EXCEPT ![k] = 0] /\ buf' = Fed /\ UNCHANGED <<lru, idle, clock>>
getLRUClock ==
    /\ Step /\ clock' = (clock + 1) % (ClockMax + 1) /\ idle' = [k \in Keys |-> idle[k] + 1]
    /\ UNCHANGED <<dict, ttl, lru, buf>>
\* The slaves read, the AOF is written.
flushBuffers ==
    /\ job.pc = "idle" /\ buf' \in {[buf EXCEPT !.out = 0], [buf EXCEPT !.aof = 0]}
    /\ UNCHANGED <<dict, ttl, lru, idle, clock, pool, job, steps>>

Init ==
    /\ dict = {} /\ ttl = [k \in Keys |-> 0] /\ lru = [k \in Keys |-> 0] /\ idle = [k \in Keys |-> 0] /\ clock = 0
    /\ pool = [i \in Array |-> Entry(NoKey, 0)] /\ job = Job("idle") /\ steps = 0
    /\ buf = [out |-> 0, aof |-> 0]

\* dictGetSomeKeys: some different keys in any order, perhaps none at all.
Samples == {q \in SeqOf(Candidates, maxmemory_samples) : IsInjective(q)}
Next ==
    \/ Start \/ NothingToFree
    \/ \E q \in Samples : ChooseLru(q)
    \/ \E k \in Keys : ChooseRandom(k) \/ lookupKey(k) \/ dbDelete(k)
    \/ \E q \in SUBSET Keys : ChooseTtl(q)
    \/ Evict \/ Done \/ getLRUClock \/ flushBuffers

Spec == Init /\ [][Next]_vars
\* The loop goes on (with LRU), and sampling does not come back with nothing for ever.
Weak(i) ==
    \/ i = 1 /\ NothingToFree
    \/ i = 2 /\ Evict
    \/ i = 3 /\ \E q \in Samples \ {<<>>} : ChooseLru(q)

-----------------------------------------------------------------------------
TypeOK ==
    /\ clock \in 0..ClockMax /\ job.freed \in 0..(Cardinality(Keys) + 1)
    /\ \A i \in Array : pool[i].key \in Keys \cup {NoKey} /\ pool[i].idle \in 0..ClockMax

\* The entries of the pool are to the left and in ascending order ("keys with the smaller idle
\* time are on the left", redis.c:3124): what evictionPoolPopulate and the search from the right
\* rely on.
PoolSorted ==
    \A i, j \in Array : i < j /\ pool[j].key # NoKey =>
        pool[i].key # NoKey /\ pool[i].idle <= pool[j].idle

\* freeMemoryIfNeeded returns OK only with the memory below the limit, and gives up only when
\* there is nothing left to evict.
OkMeansUnder == job.pc = "ok" /\ Slaves <= 1 => Cardinality(dict) <= maxmemory
ErrMeansNothing == job.pc = "err" /\ policy # "noeviction" => Candidates = {}

\* It does not go on when enough has been freed, and takes only keys its policy allows.
NeverTooMuch ==
    Cardinality(dict') < Cardinality(dict) /\ job.pc # "idle" =>
                     /\ job.freed < job.tofree
                     /\ policy \in {"volatile-lru", "volatile-random", "volatile-ttl"} => \A k \in dict \ dict' : ttl[k] # 0

\* "This time we'll be sure that the pool has at least one key that can be evicted" (redis.c:3101):
\* with anything sampled, two rounds are enough.
TwoRounds == job.tried <= 2
\* A call of freeMemoryIfNeeded is at work: not for ever.
Unfinished(k) == k = 1 /\ job.pc = "choose"

\* The count without the buffers is at most what is used ("Remove the size of slaves output
\* buffers and AOF buffer from the count of used memory", redis.c:3200).
CountNotAboveUsed == mem_used(zmalloc_used_memory) <= zmalloc_used_memory

\* An idle time is never more than the real one, however often the clock wraps.
IdleNotAbove == \A k \in dict : estimateObjectIdleTime(lru[k], clock) <= idle[k]
=============================================================================
