------------------------------- MODULE Expire -------------------------------
(***************************************************************************)
(* Keys with a time to live (db.c, activeExpireCycle of redis.c), on a      *)
(* master and on a slave of it.  Only the master decides that a key has     *)
(* expired: it deletes the key when it meets it, or in the active expire    *)
(* cycle, and sends a DEL.  The slave may become a master itself.           *)
(*                                                                         *)
(* A server is a record: data[k] is the number of the write that made the  *)
(* value, 0 for no key; exp[k] is the time in its entry of db->expires, 0   *)
(* for none.                                                                *)
(***************************************************************************)
EXTENDS Integers, Sequences, SequencesExt, FiniteSets

CONSTANTS
    Keys,        \* numbers: the key k is in the database k % dbnum
    dbnum,
    DbsPerCall,  \* REDIS_DBCRON_DBS_PER_CALL
    TimeFor,     \* for how many databases there is time in one cycle
    Ttls,        \* arguments of EXPIRE; 0 and less is in the past
    Ops,         \* the commands that clients send
    MaxNow,      \* bound: the clock
    MaxCmds      \* bound: commands that change something

ExpireAssumption ==
    /\ dbnum \in Nat \ {0} /\ DbsPerCall \in Nat \ {0} /\ MaxNow \in Nat /\ MaxCmds \in Nat
    /\ Keys \subseteq Nat /\ TimeFor \subseteq Nat \ {0} /\ Ttls \subseteq Int

VARIABLES
    now,      \* mstime
    m,        \* the master
    sl,       \* the slave
    stream,   \* commands on their way to the slave
    n,        \* number of the last write
    cycle,    \* what activeExpireCycle remembers: [current_db, timelimit_exit, last_fast_cycle]
    rnd,      \* RANDOMKEY on the slave is in its loop?
    read      \* history: what the last GET was answered, [at, val, exp]

vars == <<now, m, sl, stream, n, cycle, rnd, read>>

\* masterhost = NULL.
IsMaster(t) == t.role = "master"
NoRead == [at |-> "none", val |-> 0, exp |-> 0, now |-> 0]

-----------------------------------------------------------------------------
(* The two tables of a database                                             *)

dbDelete(t, k) == [t EXCEPT !.data[k] = 0, !.exp[k] = 0]
removeExpire(t, k) == [t EXCEPT !.exp[k] = 0]
setExpire(t, k, when) == [t EXCEPT !.exp[k] = when]
setKey(t, k, v) == removeExpire([t EXCEPT !.data[k] = v], k)
Expired(t, k) == t.exp[k] # 0 /\ now > t.exp[k]
\* expireIfNeeded deletes nothing on a slave, and sends a DEL when it deletes.
expireIfNeeded(t, k) == IF IsMaster(t) /\ Expired(t, k) THEN dbDelete(t, k) ELSE t
Cmd(op, k, x) == [op |-> op, k |-> k, x |-> x]
propagateExpire(t, k) ==
    IF IsMaster(t) /\ Expired(t, k) THEN <<Cmd("del", k, 0)>> ELSE <<>>

-----------------------------------------------------------------------------
(* Commands: executed by a client of t, or by the slave for its master.     *)
(* The result is [t, sent]: the new server, and what it sends to slaves.    *)

delCommand(t, k) == [t |-> dbDelete(expireIfNeeded(t, k), k),
                     sent |-> propagateExpire(t, k) \o
                              IF expireIfNeeded(t, k).data[k] # 0 THEN <<Cmd("del", k, 0)>> ELSE <<>>]
\* SET.
setCommand(t, k, v) == [t |-> setKey(expireIfNeeded(t, k), k, v),
                        sent |-> propagateExpire(t, k) \o <<Cmd("set", k, v)>>]
\* INCR: the old value matters, and the time to live stays (dbOverwrite).
incrCommand(t, k, v) ==
    LET u == expireIfNeeded(t, k)
    IN  [t |-> [u EXCEPT !.data[k] = IF u.data[k] = 0 THEN v ELSE 10 * u.data[k] + v],
         sent |-> propagateExpire(t, k) \o <<Cmd("incr", k, v)>>]
\* EXPIRE, EXPIREAT; a time in the past is a DEL, but not on a slave.  The slave gets the same
\* argument, and adds it to its own clock when it is relative.
When(o) == IF o.op = "expire" THEN now + o.x ELSE o.x
ExpireWith(u, o, pre, gone, past) ==
    IF gone THEN [t |-> u, sent |-> pre]
    ELSE IF past THEN [t |-> dbDelete(u, o.k), sent |-> pre \o <<Cmd("del", o.k, 0)>>]
    ELSE [t |-> setExpire(u, o.k, When(o)), sent |-> Append(pre, o)]
expireGenericCommand(t, o) ==
    LET u == expireIfNeeded(t, o.k)
    IN  ExpireWith(u, o, propagateExpire(t, o.k), u.data[o.k] = 0, When(o) <= now /\ IsMaster(t))
\* PERSIST does not look whether the key has expired.
persistCommand(t, k) ==
    IF t.data[k] # 0 /\ t.exp[k] # 0 THEN [t |-> removeExpire(t, k), sent |-> <<Cmd("persist", k, 0)>>]
    ELSE [t |-> t, sent |-> <<>>]
Execute(t, o) ==
    CASE o.op = "del" -> delCommand(t, o.k)
      [] o.op = "set" -> setCommand(t, o.k, o.x)
      [] o.op = "incr" -> incrCommand(t, o.k, o.x)
      [] o.op \in {"expire", "expireat"} -> expireGenericCommand(t, o)
      [] o.op = "persist" -> persistCommand(t, o.k)

-----------------------------------------------------------------------------
(* Actions                                                                  *)

Command(k) == {Cmd(op, k, n + 1) : op \in Ops \cap {"del", "set", "incr", "persist"}}
              \cup {Cmd("expire", k, ttl) : ttl \in IF "expire" \in Ops THEN Ttls ELSE {}}
              \cup {Cmd("expireat", k, now + ttl) : ttl \in IF "expireat" \in Ops THEN Ttls ELSE {}}
Linked == sl.role = "slave"
\* A client of the master.
execute(k) ==
    /\ n < MaxCmds
    /\ \E o \in Command(k) :
         LET r == Execute(m, o)
         IN  m' = r.t /\ stream' = IF Linked THEN stream \o r.sent ELSE stream
    /\ n' = n + 1 /\ UNCHANGED <<now, sl, cycle, rnd, read>>
\* lookupKeyRead on the master and on the slave.
Answer(at, t, k) == [at |-> at, val |-> t.data[k], exp |-> t.exp[k], now |-> now]
getMaster(k) ==
    /\ "get" \in Ops
    /\ m' = expireIfNeeded(m, k)
    /\ stream' = IF Linked THEN stream \o propagateExpire(m, k) ELSE stream
    /\ read' = Answer("master", m', k) /\ UNCHANGED <<now, sl, n, cycle, rnd>>
getSlave(k) ==
    /\ "get_slave" \in Ops
    /\ sl' = expireIfNeeded(sl, k) /\ read' = Answer("slave", sl', k)
    /\ UNCHANGED <<now, m, stream, n, cycle, rnd>>

\* activeExpireCycle: visits databases in turn from current_db on, until the time is up, and
\* deletes any of their expired keys.
Visited(from, count) == {(from + i) % dbnum : i \in 0..(count - 1)}
Calls(type) == IF DbsPerCall > dbnum \/ cycle.timelimit_exit THEN dbnum ELSE DbsPerCall
NextDb(from, count, exit) == (from + count) % dbnum
activeExpireCycle(type, gone) ==
    /\ "cycle" \in Ops /\ IsMaster(m)
    /\ type = "fast" => cycle.timelimit_exit /\ cycle.last_fast_cycle < now
    /\ \E c \in TimeFor, exit \in BOOLEAN : LET count == IF c < Calls(type) THEN c ELSE Calls(type) IN
         /\ c < Calls(type) => exit
         /\ gone \subseteq {k \in Keys : Expired(m, k) /\ k % dbnum \in Visited(cycle.current_db, count)}
         /\ cycle' = [current_db |-> NextDb(cycle.current_db, count, exit), timelimit_exit |-> exit,
                      last_fast_cycle |-> IF type = "fast" THEN now ELSE cycle.last_fast_cycle]
    /\ m' = FoldLeft(dbDelete, m, SetToSeq(gone))
    /\ stream' = IF Linked THEN stream \o [i \in 1..Cardinality(gone) |-> Cmd("del", SetToSeq(gone)[i], 0)] ELSE stream
    /\ UNCHANGED <<now, sl, n, rnd, read>>

\* The slave executes the next command of its master.
slaveReads ==
    /\ Linked /\ stream # <<>> /\ stream' = Tail(stream)
    /\ sl' = Execute(sl, Head(stream)).t /\ UNCHANGED <<now, m, n, cycle, rnd, read>>
\* SLAVEOF NO ONE.
promote ==
    /\ "promote" \in Ops /\ Linked /\ sl' = [sl EXCEPT !.role = "master"] /\ stream' = <<>>
    /\ UNCHANGED <<now, m, n, cycle, rnd, read>>
tick == now < MaxNow /\ now' = now + 1 /\ UNCHANGED <<m, sl, stream, n, cycle, rnd, read>>

\* dbRandomKey on the slave: it takes keys at random until one has not expired.
randomkey ==
    /\ "random" \in Ops /\ ~rnd /\ n < MaxCmds /\ rnd' = TRUE /\ n' = n + 1
    /\ UNCHANGED <<now, m, sl, stream, cycle, read>>
dbRandomKey(k) ==
    /\ rnd /\ sl.data[k] # 0
    /\ sl' = expireIfNeeded(sl, k) /\ rnd' = Expired(sl, k)
    /\ UNCHANGED <<now, m, stream, n, cycle, read>>
dbRandomKeyNone ==
    /\ rnd /\ \A k \in Keys : sl.data[k] = 0
    /\ rnd' = FALSE /\ UNCHANGED <<now, m, sl, stream, n, cycle, read>>

Init ==
    LET empty(role) == [data |-> [k \in Keys |-> 0], exp |-> [k \in Keys |-> 0], role |-> role]
    IN  /\ now = 1 /\ m = empty("master") /\ sl = empty("slave") /\ stream = <<>> /\ n = 0
        /\ cycle = [current_db |-> 0, timelimit_exit |-> FALSE, last_fast_cycle |-> 0]
        /\ rnd = FALSE /\ read = NoRead

\* In its loop the slave does nothing else; time goes on.
Next ==
    \/ \E k \in Keys : execute(k) \/ getMaster(k) \/ (~rnd /\ getSlave(k)) \/ dbRandomKey(k)
    \/ \E type \in {"slow", "fast"}, gone \in SUBSET Keys : activeExpireCycle(type, gone)
    \/ ~rnd /\ (slaveReads \/ promote)
    \/ tick \/ randomkey \/ dbRandomKeyNone

Spec == Init /\ [][Next]_vars

\* The cron calls the cycle again and again, and its random choice does not leave out the same
\* key for ever when it can reach it; the slave reads; the clock runs.
CycleTakes(k) == \E gone \in SUBSET Keys : k \in gone /\ activeExpireCycle("slow", gone)
Weak(i) ==
    \/ i = 1 /\ tick
    \/ i = 2 /\ ~rnd /\ slaveReads
    \/ i - 3 \in 0..(dbnum - 1) /\ cycle.current_db = i - 3 /\ activeExpireCycle("slow", {})
Strong(i) == i \in Keys /\ CycleTakes(i)
\* RANDOMKEY takes its next key; the choice is fair to every key there is.
RandomSpec ==
    /\ Spec /\ WF_vars(tick) /\ WF_vars(dbRandomKeyNone) /\ \A k \in Keys : SF_vars(dbRandomKey(k))

-----------------------------------------------------------------------------
TypeOK ==
    /\ now \in 1..MaxNow /\ n \in 0..MaxCmds
    /\ cycle.current_db \in 0..(dbnum - 1)
    /\ \A t \in {m, sl} : t.role \in {"master", "slave"} /\ \A k \in Keys : t.exp[k] \in 0..(2 * MaxNow)

\* A key in db->expires is in db->dict ("this means it should also be present in the main dict
\* (safety check)", db.c:796): the key itself is shared.
ExpiresHaveKeys == \A t \in {m, sl}, k \in Keys : t.exp[k] # 0 => t.data[k] # 0

\* What is in the stream makes the slave's values those of the master, although each of them
\* has its own idea of when a key expires ("everything will be consistent even if we allow
\* write operations against expiring keys", db.c:807).
SlaveFollows ==
    Linked => FoldLeft(LAMBDA t, o : Execute(t, o).t, sl, stream).data = m.data

\* A slave that has read everything takes no key for expired that the master still has.
SlaveKeepsLonger == Linked /\ stream = <<>> => \A k \in Keys : m.exp[k] # 0 => sl.exp[k] >= m.exp[k]

\* No master answers with a value that has expired.
MasterReadsFresh == read.at = "master" /\ read.exp # 0 => read.now <= read.exp
\* Nor does a slave ("Still we try to return the right information to the caller", db.c:845).
SlaveReadsFresh == read.at = "slave" /\ read.exp # 0 => read.now <= read.exp

\* A key that has expired is not brought back: it does not lose its time to live and keep its
\* value ("When a key expires in the master, a DEL operation for this key is sent", db.c:803).
NotRevived == \A k \in Keys : Expired(m, k) /\ m'.data[k] = m.data[k] => m'.exp[k] = m.exp[k]

\* Every key with a time to live is gone, from the slave too: for good, in the end.
Settled == \A k \in Keys : sl.exp[k] = 0 \/ m.exp[k] >= MaxNow

\* RANDOMKEY gets an answer ("makes sure to return keys not already expired", db.c:138).
RandomKeyReturns == rnd ~> ~rnd
=============================================================================
