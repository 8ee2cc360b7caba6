---------------------------- MODULE Transactions ----------------------------
(***************************************************************************)
(* How redis executes commands (processCommand, call and propagate in       *)
(* redis.c), MULTI, EXEC and WATCH (multi.c), and the commands on whole     *)
(* keys (db.c), with the stream of commands that a slave gets.              *)
(*                                                                         *)
(* A value is the number of the write that made it; 0 is no key.            *)
(***************************************************************************)
EXTENDS Integers, Sequences, SequencesExt, FiniteSets

CONSTANTS Clients, Keys, Dbs,
          Ops,        \* the commands that clients send, see Command
          Events,     \* what else happens: "evict", "expire", "diskerr", "slaveof", "resync", "watch"
          HasSlave,   \* is a slave connected?
          MaxCmds,    \* bound: commands other than the ones about transactions
          MaxQueue    \* bound: commands in a transaction

TransactionsAssumption ==
    /\ MaxCmds \in Nat /\ MaxQueue \in Nat
    /\ Ops \subseteq {"set", "get", "del", "move", "rename", "flush", "bad"}

VARIABLES
    s,       \* the server: data, clients, watchers, role
    stream,  \* commands on their way to the slave
    rep,     \* the slave: data, and the transaction it is receiving
    hist     \* history: the data after every top level command

vars == <<s, stream, rep, hist>>

Slots == Dbs \X Keys
Command == [op : Ops, d : Dbs, k : Keys]
Write(o) == o.op \notin {"get", "bad"}
NoMulti(c) == [c EXCEPT !.multi = FALSE, !.cas = FALSE, !.exec = FALSE, !.queue = <<>>, !.refused = {}]

-----------------------------------------------------------------------------
(* WATCH                                                                    *)

\* Of a client: snap, the keys as they were when watched, missed, those that have changed since
\* without a word, and refused, why commands of its transaction were refused, are history.
Watching(c, p, value) == [c EXCEPT !.watched = @ \cup {p}, !.snap[p] = value]
watchForKey(t, c, p) ==
    IF p \in t.cl[c].watched THEN t
    ELSE [t EXCEPT !.watch[p] = @ \cup {c}, !.cl[c] = Watching(@, p, t.data[p])]
unwatchAllKeys(t, c) ==
    [t EXCEPT !.watch = [p \in Slots |-> @[p] \ {c}],
              !.cl[c].watched = {}, !.cl[c].missed = {}, !.cl[c].snap = [p \in Slots |-> 0]]
\* The clients of A will find their transaction aborted (REDIS_DIRTY_CAS).
DirtyCas(cl, A) == [c \in Clients |-> [cl[c] EXCEPT !.cas = @ \/ c \in A]]
\* touchWatchedKey: signalModifiedKey.
touch(t, p) == [t EXCEPT !.cl = DirtyCas(@, t.watch[p])]
\* Only keys that exist are touched by a flush.
touchWatchedKeysOnFlush(t, ds) ==
    [t EXCEPT !.cl = DirtyCas(@, {c \in Clients : \E p \in t.cl[c].watched : p[1] \in ds /\ t.data[p] # 0})]
\* The keys P change, and no client that watches them is told.
Missing(cl, P) == [c \in Clients |-> [cl[c] EXCEPT !.missed = @ \cup (P \cap cl[c].watched)]]
Untold(t, P) == [t EXCEPT !.cl = Missing(@, P)]
discardTransaction(t, c) == [unwatchAllKeys(t, c) EXCEPT !.cl[c] = NoMulti(@)]

-----------------------------------------------------------------------------
(* Commands: the new state, and whether the command goes into the stream    *)

Seen(t) == IF HasSlave THEN hist \cup {t.data} ELSE hist
Other(d) == CHOOSE e \in Dbs : e # d
Renamed(o) == <<o.d, CHOOSE x \in Keys : x # o.k>>
\* Data of a slave is changed by its commands alone, so that values are the same there.
Effect(data, o, v) ==
    LET p == <<o.d, o.k>>
    IN  CASE o.op = "set" -> [data EXCEPT ![p] = v]
          [] o.op = "del" -> [data EXCEPT ![p] = 0]
          [] o.op = "move" -> [data EXCEPT ![p] = 0, ![<<Other(o.d), o.k>>] = data[p]]
          [] o.op = "rename" -> [data EXCEPT ![p] = 0, ![Renamed(o)] = data[p]]
          [] o.op = "flush" -> [q \in Slots |-> IF q[1] = o.d THEN 0 ELSE data[q]]
          [] OTHER -> data
\* Does the command change anything (server.dirty)?
Dirty(t, o) ==
    LET p == <<o.d, o.k>>
    IN  CASE o.op = "set" -> TRUE
          [] o.op \in {"del", "rename"} -> t.data[p] # 0
          [] o.op = "move" -> t.data[p] # 0 /\ t.data[<<Other(o.d), o.k>>] = 0
          [] o.op = "flush" -> \E q \in Slots : q[1] = o.d /\ t.data[q] # 0
          [] OTHER -> FALSE
\* moveCommand is the one that tells nobody.
Signal(t, o) ==
    LET p == <<o.d, o.k>>
    IN  CASE o.op \in {"set", "del"} -> touch(t, p)
          [] o.op = "rename" -> touch(touch(t, p), Renamed(o))
          [] o.op = "flush" -> touchWatchedKeysOnFlush(t, {o.d})
          [] o.op = "move" -> Untold(t, {p, <<Other(o.d), o.k>>})
          [] OTHER -> t

\* call: execute, and propagate what has changed the data.  w = [s, stream].
call(w, o) ==
    LET t == w.s  v == t.v + 1
    IN  IF ~Dirty(t, o) THEN w
        ELSE [s |-> [Signal(t, o) EXCEPT !.data = Effect(t.data, o, v), !.v = v],
              stream |-> IF t.slave \/ ~HasSlave THEN w.stream ELSE Append(w.stream, [op |-> o.op, d |-> o.d, k |-> o.k, v |-> v])]
Mark(op, w) == IF w.s.slave \/ ~HasSlave THEN w.stream ELSE Append(w.stream, [op |-> op, d |-> 0, k |-> 0, v |-> 0])

\* The commands of a transaction; MULTI goes into the stream before the first write.
ExecTurn(w, o) ==
    LET m == ~w.multi /\ Write(o)
        u == IF m THEN [w EXCEPT !.stream = Mark("multi", w), !.multi = TRUE] ELSE w
        r == call([s |-> u.s, stream |-> u.stream], o)
    IN  [s |-> r.s, stream |-> r.stream, multi |-> u.multi]
\* The commands q, one after the other.
ExecTurns(w, q) ==
    LET turn[i \in 0..Len(q)] == IF i = 0 THEN w ELSE ExecTurn(turn[i - 1], q[i])
    IN  turn[Len(q)]
Aborts(c) == s.cl[c].cas \/ s.cl[c].exec
execCommand(c) ==
    LET w == ExecTurns([s |-> unwatchAllKeys(s, c), stream |-> stream, multi |-> FALSE], s.cl[c].queue)
    IN  /\ s.cl[c].multi
        /\ IF Aborts(c) THEN s' = discardTransaction(s, c) /\ UNCHANGED <<stream, hist>>
           ELSE /\ s' = discardTransaction(w.s, c)
                /\ stream' = IF w.multi THEN Mark("exec", w) ELSE w.stream
                /\ hist' = Seen(w.s)
        /\ UNCHANGED rep

-----------------------------------------------------------------------------
(* processCommand                                                           *)

\* One more command.
Count(t) == [t EXCEPT !.n = @ + 1]
\* Why a command is refused; "" if it is not.
Refusal(t, o) ==
    IF o.op = "bad" THEN "bad"
    ELSE IF ~Write(o) THEN ""
    ELSE IF t.slave THEN "readonly"
    ELSE IF t.diskerr THEN "diskerr"
    ELSE ""
\* flagTransaction is called for these alone.
Flagging == {"bad", "diskerr"}
queueMultiCommand(t, c, o) == [t EXCEPT !.cl[c].queue = Append(@, o)]
Refused(c, why) ==
    IF ~s.cl[c].multi THEN s
    ELSE [s EXCEPT !.cl[c].exec = @ \/ why \in Flagging, !.cl[c].refused = @ \cup {why}]
processCommand(c, o) ==
    /\ s.n < MaxCmds /\ Len(s.cl[c].queue) < MaxQueue
    /\ IF Refusal(s, o) # "" THEN s' = Count(Refused(c, Refusal(s, o))) /\ UNCHANGED <<stream, hist>>
       ELSE IF s.cl[c].multi
       THEN s' = queueMultiCommand(Count(s), c, o) /\ UNCHANGED <<stream, hist>>
       ELSE LET w == call([s |-> Count(s), stream |-> stream], o)
            IN  s' = w.s /\ stream' = w.stream /\ hist' = Seen(w.s)
    /\ UNCHANGED rep

\* In a transaction MULTI and WATCH are refused on the spot.
multiCommand(c) ==
    /\ s' = IF s.cl[c].multi THEN Refused(c, "nested") ELSE [s EXCEPT !.cl[c].multi = TRUE]
    /\ UNCHANGED <<stream, rep, hist>>
discardCommand(c) ==
    /\ s.cl[c].multi /\ s' = discardTransaction(s, c) /\ UNCHANGED <<stream, rep, hist>>
watchCommand(c, p) ==
    /\ "watch" \in Events
    /\ s' = IF s.cl[c].multi THEN Refused(c, "nested") ELSE watchForKey(s, c, p)
    /\ UNCHANGED <<stream, rep, hist>>
unwatchCommand(c) ==
    /\ ~s.cl[c].multi /\ s' = [unwatchAllKeys(s, c) EXCEPT !.cl[c].cas = FALSE]
    /\ UNCHANGED <<stream, rep, hist>>
\* freeClient, and a new client in its place.
disconnect(c) == s' = discardTransaction(s, c) /\ UNCHANGED <<stream, rep, hist>>

-----------------------------------------------------------------------------
(* What else happens                                                        *)

\* Neither eviction nor expiry tells the clients that watch the key.
Gone(t, p) == [Untold(t, {p}) EXCEPT !.data[p] = 0]
SendDel(p) == IF s.slave \/ ~HasSlave THEN stream ELSE Append(stream, [op |-> "del", d |-> p[1], k |-> p[2], v |-> 0])
\* freeMemoryIfNeeded.
evict(p) ==
    /\ "evict" \in Events /\ s.data[p] # 0
    /\ s' = Gone(s, p) /\ stream' = SendDel(p) /\ hist' = Seen(s') /\ UNCHANGED rep
\* expireIfNeeded, activeExpireCycle.
expire(p) ==
    /\ "expire" \in Events /\ ~s.slave /\ s.data[p] # 0
    /\ s' = Gone(s, p) /\ stream' = SendDel(p) /\ hist' = Seen(s') /\ UNCHANGED rep
\* A background save fails, and a later one succeeds.
diskError ==
    /\ "diskerr" \in Events /\ s' = [s EXCEPT !.diskerr = ~@] /\ UNCHANGED <<stream, rep, hist>>
\* SLAVEOF.
slaveof ==
    /\ "slaveof" \in Events /\ ~s.slave /\ s' = [s EXCEPT !.slave = TRUE]
    /\ UNCHANGED <<stream, rep, hist>>
\* readSyncBulkPayload: signalFlushedDb(-1), emptyDb, rdbLoad of the master's data, which may
\* make a key that did not exist.
resync(p) ==
    /\ "resync" \in Events /\ s.slave /\ s.n < MaxCmds
    /\ s' = [Untold(touchWatchedKeysOnFlush(s, Dbs), {q \in {p} : s.data[q] = 0}) EXCEPT
               !.data = [q \in Slots |-> IF q = p THEN s.v + 1 ELSE 0], !.v = @ + 1, !.n = @ + 1]
    /\ UNCHANGED <<stream, rep, hist>>

\* The slave: between MULTI and EXEC it only queues.
slaveReads ==
    /\ stream # <<>> /\ stream' = Tail(stream)
    /\ LET o == Head(stream)
       IN  rep' = CASE o.op = "multi" -> [rep EXCEPT !.multi = TRUE]
                    [] o.op = "exec" -> [data |-> FoldLeft(LAMBDA d, x : Effect(d, x, x.v), rep.data, rep.queue),
                                         multi |-> FALSE, queue |-> <<>>]
                    [] o.op \notin {"multi", "exec"} /\ rep.multi -> [rep EXCEPT !.queue = Append(@, o)]
                    [] OTHER -> [rep EXCEPT !.data = Effect(@, o, o.v)]
    /\ UNCHANGED <<s, hist>>

Init ==
    LET none == [p \in Slots |-> 0]
    IN  /\ s = [data |-> none, watch |-> [p \in Slots |-> {}], n |-> 0, v |-> 0, slave |-> FALSE, diskerr |-> FALSE,
                cl |-> [c \in Clients |-> [multi |-> FALSE, cas |-> FALSE, exec |-> FALSE, queue |-> <<>>,
                                           refused |-> {}, watched |-> {}, missed |-> {}, snap |-> none]]]
        /\ stream = <<>> /\ rep = [data |-> none, multi |-> FALSE, queue |-> <<>>] /\ hist = {none}

Next ==
    \/ \E c \in Clients :
         \/ \E o \in Command : processCommand(c, o)
         \/ multiCommand(c)
         \/ execCommand(c)
         \/ discardCommand(c)
         \/ \E p \in Slots : watchCommand(c, p)
         \/ unwatchCommand(c)
         \/ disconnect(c)
    \/ \E p \in Slots : evict(p) \/ expire(p) \/ resync(p)
    \/ diskError
    \/ slaveof
    \/ slaveReads

Spec == Init /\ [][Next]_vars
\* The slave reads on.
Weak(i) == i = 1 /\ slaveReads

-----------------------------------------------------------------------------
\* A client that is not in a transaction has nothing queued, and no error noted.
TypeOK ==
    /\ \A p \in Slots : s.data[p] \in 0..s.v
    /\ \A c \in Clients : ~s.cl[c].multi => s.cl[c].queue = <<>> /\ ~s.cl[c].exec

\* The two directions of WATCH agree: a key's list of clients, a client's list of keys.
WatchersMatch == \A p \in Slots : s.watch[p] = {c \in Clients : p \in s.cl[c].watched}

\* A transaction may run only while every key its client watches is as it was when it was
\* watched, except for those that MOVE (db.c:757), eviction (redis.c:3330), expiry or a
\* resynchronization that loads a key where there was none (multi.c:299) has changed: none of
\* these marks a client, whatever SET, DEL, RENAME, a flush or a transaction does.
WatchHonoured ==
    \A c \in Clients : s.cl[c].multi /\ ~Aborts(c) =>
        \A p \in s.cl[c].watched \ s.cl[c].missed : s.data[p] = s.cl[c].snap[p]
\* Without the exception ("given a key that is going to be modified we can mark all the
\* associated clients as dirty", multi.c:186) it does not hold.
UnchangedIfWatched ==
    \A c \in Clients : s.cl[c].multi /\ ~Aborts(c) => \A p \in s.cl[c].watched : s.data[p] = s.cl[c].snap[p]

\* No transaction may run of which a command was refused, except as a write at a read-only
\* slave (redis.c:2251) or as a MULTI or WATCH inside of it (multi.c:88, :311).
RefusedAborts ==
    \A c \in Clients : s.cl[c].multi /\ s.cl[c].refused \ {"readonly", "nested"} # {} => s.cl[c].exec
\* Without the exceptions ("Should be called every time there is an error while queueing a
\* command", multi.c:80) it does not hold.
EveryRefusalAborts == \A c \in Clients : s.cl[c].multi /\ s.cl[c].refused # {} => s.cl[c].exec

\* The slave shows nothing but states the master was in between two commands or
\* transactions: it never sees half a transaction ("both the AOF and the replication link
\* will have the same consistency and atomicity guarantees", multi.c:151).
SlaveAtomic == rep.data \in hist

\* What the slave has not yet read makes it the same as the master.
SlaveFollows ==
    HasSlave /\ ~s.slave => LET all == rep.queue \o SelectSeq(stream, LAMBDA o : o.op \notin {"multi", "exec"})
                IN  FoldLeft(LAMBDA d, o : Effect(d, o, o.v), rep.data, all) = s.data

\* A read-only slave's data is changed by its master alone ("Don't accept write commands if
\* this is a read only slave", redis.c:2242).
ReadOnlySlave == s.slave /\ s'.slave /\ (\E c \in Clients : s'.cl[c].multi # s.cl[c].multi) => s'.data = s.data

\* The slave has not read the whole stream, or is inside a transaction: not for ever, as
\* the EXEC of every MULTI arrives, whatever the commands in between.
Unfinished(k) == k = 1 /\ (stream # <<>> \/ rep.multi)
=============================================================================
