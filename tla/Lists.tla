------------------------------- MODULE Lists -------------------------------
(***************************************************************************)
(* Lists and the clients blocked on them (t_list.c, blocked.c).  Commands   *)
(* run alone or several in a MULTI; after that the keys that became ready   *)
(* are served, one client at a time, and what was popped and pushed for     *)
(* them is propagated to a replica, which is modelled as a second database  *)
(* that runs what it is sent.                                               *)
(***************************************************************************)
EXTENDS Integers, Sequences, FiniteSets, SequencesExt

CONSTANTS Keys, Values, Clients,
          Long,        \* the values longer than list_max_ziplist_value
          MaxZiplist,  \* list_max_ziplist_entries
          MaxLen,      \* bound: elements of a list
          MaxCmds,     \* bound: commands
          SortOverwrites \* may SORT ... STORE replace a string?

ListsAssumption ==
    /\ Long \subseteq Values /\ {MaxZiplist, MaxLen, MaxCmds} \subseteq Nat
    /\ SortOverwrites \in BOOLEAN

VARIABLES
    db,        \* the database
    rep,       \* the replica's
    bpop,      \* what each client is blocked for
    blocking,  \* db->blocking_keys: the clients blocked for a key, in their order
    ready,     \* server.ready_keys
    phase,     \* "idle", "multi" or "serve"
    run,       \* the locals of handleClientsBlockedOnLists
    cmds

vars == <<db, rep, bpop, blocking, ready, phase, run, cmds>>

None == [type |-> "none", enc |-> "ziplist", seq |-> <<>>]
String == [None EXCEPT !.type = "string"]
NewList == [None EXCEPT !.type = "list"]
NoKey == "no key"
Awake == [keys |-> {}, target |-> NoKey, where |-> "tail"]
Rest == [l |-> <<>>, key |-> NoKey, n |-> 0]
Sides == {"head", "tail"}

-----------------------------------------------------------------------------
(* List values                                                              *)

listTypeTryConversion(o, v) == IF v \in Long THEN [o EXCEPT !.enc = "linkedlist"] ELSE o

listTypePush(o, v, where) ==
    LET p == listTypeTryConversion(o, v)
    IN  [p EXCEPT !.enc = IF Len(p.seq) >= MaxZiplist THEN "linkedlist" ELSE @,
                  !.seq = IF where = "head" THEN <<v>> \o @ ELSE Append(@, v)]

listTypePop(o, where) == [o EXCEPT !.seq = IF where = "head" THEN Tail(@) ELSE Front(@)]
End(o, where) == IF where = "head" THEN Head(o.seq) ELSE Last(o.seq)

\* A list that has become empty is deleted.
Settle(o) == IF o.seq = <<>> THEN None ELSE o
IsList(o) == o.type = "list"

\* ziplistIndex and listIndex: negative indexes count from the end; 0 is outside.
Index(s, i) == LET j == IF i < 0 THEN Len(s) + i + 1 ELSE i + 1
               IN  IF j \in 1..Len(s) THEN j ELSE 0

\* LINSERT: conversion first, insertion at the first equal element, length check.
listTypeInsert(o, ref, v, where) ==
    LET c == listTypeTryConversion(o, v)
        i == SelectInSeq(o.seq, LAMBDA x : x = ref)
        s == InsertAt(o.seq, IF where = "head" THEN i ELSE i + 1, v)
    IN  IF i = 0 THEN c
        ELSE [c EXCEPT !.seq = s, !.enc = IF Len(s) > MaxZiplist THEN "linkedlist" ELSE @]

\* LREM: n > 0 from the head, n < 0 from the tail, 0 all of them.
Without(s, n, v) ==
    LET eq(a, b) == {i \in a..b : s[i] = v}
        gone(i) == /\ s[i] = v
                   /\ \/ n = 0
                      \/ n > 0 /\ Cardinality(eq(1, i)) <= n
                      \/ n < 0 /\ Cardinality(eq(i, Len(s))) <= -n
        kept == SetToSortSeq({i \in 1..Len(s) : ~gone(i)}, <)
    IN  [j \in 1..Len(kept) |-> s[kept[j]]]

\* The bounds of LRANGE and LTRIM, from 0, and the empty range as <<0, -1>>.
Range0(len, start, end) ==
    LET b == IF start < 0 THEN len + start ELSE start
        a == IF b < 0 THEN 0 ELSE b
        e == IF end < 0 THEN len + end ELSE end
    IN  IF a > e \/ a >= len THEN <<0, -1>> ELSE <<a, IF e >= len THEN len - 1 ELSE e>>

\* LRANGE: a linked list is entered from the nearer end.
lrange(enc, s, start, end) ==
    LET r == Range0(Len(s), start, end)
        a == IF enc = "linkedlist" /\ r[1] > Len(s) \div 2 THEN Index(s, r[1] - Len(s)) ELSE Index(s, r[1])
    IN  [i \in 1..(r[2] - r[1] + 1) |-> s[a + i - 1]]

ltrim(s, start, end) == LET r == Range0(Len(s), start, end) IN SubSeq(s, r[1] + 1, r[2] + 1)

-----------------------------------------------------------------------------
(* Running a command: F is what it makes of a database                      *)

\* signalListAsReady: somebody waits, and the key is not yet queued.
signalListAsReady_First(k, q) == IF blocking[k] = <<>> \/ q # <<>> THEN q ELSE Append(q, k)
signalListAsReady(k, q) ==
    IF blocking[k] = <<>> \/ k \in ToSet(q) \cup ToSet(run.l) THEN q ELSE Append(q, k)

\* dbAdd signals a list that is created; overwriting a value does not.
Created(old, new) == {k \in Keys : old[k] = None /\ IsList(new[k])}
Signalled(old, new, q) ==
    IF Created(old, new) = {} THEN q ELSE signalListAsReady(CHOOSE k \in Created(old, new) : TRUE, q)

\* call, and propagate: the replica runs the same command.
Call(F(_)) ==
    /\ phase \in {"idle", "multi"} /\ cmds < MaxCmds /\ cmds' = cmds + 1
    /\ db' = F(db) /\ rep' = F(rep) /\ \A k \in Keys : Len(db'[k].seq) <= MaxLen
    /\ ready' = Signalled(db, db', ready)
    /\ phase' = IF phase = "idle" THEN "serve" ELSE phase
    /\ UNCHANGED <<bpop, blocking, run>>

\* On key k of database d, if it is a list (or, for a push, none).
OnList(d, k, o) == IF IsList(d[k]) THEN [d EXCEPT ![k] = Settle(o)] ELSE d
Pushed(d, k, v, where) ==
    CASE IsList(d[k]) -> [d EXCEPT ![k] = listTypePush(@, v, where)]
      [] d[k] = None  -> [d EXCEPT ![k] = listTypePush(NewList, v, where)]
      [] OTHER        -> d
Popped(d, k, where) == IF IsList(d[k]) THEN OnList(d, k, listTypePop(d[k], where)) ELSE d

\* RPOPLPUSH; a destination of another type refuses it.
RPopLPush(d, s, t) ==
    IF ~IsList(d[s]) \/ d[t].type = "string" THEN d
    ELSE LET v == End(d[s], "tail")
             e == Pushed([d EXCEPT ![s] = listTypePop(@, "tail")], t, v, "head")
         IN  [e EXCEPT ![s] = Settle(@)]

pushGenericCommand(k, v, where) == LET F(d) == Pushed(d, k, v, where) IN Call(F)
popGenericCommand(k, where) == LET F(d) == Popped(d, k, where) IN Call(F)
pushxGenericCommand(k, v, where) ==
    LET F(d) == IF IsList(d[k]) THEN Pushed(d, k, v, where) ELSE d IN Call(F)
linsertCommand(k, ref, v, where) ==
    LET F(d) == OnList(d, k, listTypeInsert(d[k], ref, v, where)) IN Call(F)
lsetCommand(k, i, v) ==
    LET F(d) == OnList(d, k, LET c == listTypeTryConversion(d[k], v)
                                 j == Index(c.seq, i)
                             IN  IF j = 0 THEN c ELSE [c EXCEPT !.seq[j] = v])
    IN  Call(F)
ltrimCommand(k, start, end) ==
    LET F(d) == OnList(d, k, [d[k] EXCEPT !.seq = ltrim(@, start, end)]) IN Call(F)
lremCommand(k, n, v) ==
    LET F(d) == OnList(d, k, [d[k] EXCEPT !.seq = Without(@, n, v)]) IN Call(F)
rpoplpushCommand(s, t) == LET F(d) == RPopLPush(d, s, t) IN Call(F)
setCommand(k) == LET F(d) == [d EXCEPT ![k] = String] IN Call(F)
delCommand(k) == LET F(d) == [d EXCEPT ![k] = None] IN Call(F)

\* SORT ... STORE k with one value of another key as result: setKey, dbAdd or dbOverwrite.
sortStore(k, v) ==
    LET F(d) == [d EXCEPT ![k] = listTypePush(NewList, v, "tail")]
    IN  (SortOverwrites \/ db[k] # String) /\ Call(F)

multiCommand == phase = "idle" /\ phase' = "multi" /\ UNCHANGED <<db, rep, bpop, blocking, ready, run, cmds>>
execCommand == phase = "multi" /\ phase' = "serve" /\ UNCHANGED <<db, rep, bpop, blocking, ready, run, cmds>>

-----------------------------------------------------------------------------
(* Blocking                                                                 *)

blockForKeys(c, ks, target, where) ==
    /\ phase = "idle" /\ bpop[c] = Awake /\ cmds < MaxCmds /\ cmds' = cmds + 1
    /\ bpop' = [bpop EXCEPT ![c] = [keys |-> ToSet(ks), target |-> target, where |-> where]]
    /\ blocking' = [k \in Keys |-> IF k \in ToSet(ks) THEN Append(blocking[k], c) ELSE blocking[k]]
    /\ UNCHANGED <<db, rep, ready, phase, run>>

\* BLPOP, BRPOP: the first key that exists decides; all missing: block, but not in MULTI.
blockingPopGenericCommand(c, ks, where) ==
    LET there == SelectInSeq(ks, LAMBDA k : db[k] # None)
        F(d) == Popped(d, ks[there], where)
    IN  /\ bpop[c] = Awake
        /\ \/ there # 0 /\ Call(F)
           \/ there = 0 /\ blockForKeys(c, ks, NoKey, where)

brpoplpushCommand(c, s, t) ==
    LET F(d) == RPopLPush(d, s, t)
    IN  /\ bpop[c] = Awake
        /\ \/ db[s] # None /\ Call(F)
           \/ db[s] = None /\ blockForKeys(c, <<s>>, t, "tail")

\* unblockClientWaitingData: out of the lists of all its keys.
Unlisted(c) == [k \in Keys |-> SelectSeq(blocking[k], LAMBDA x : x # c)]
unblockClient(c) == bpop' = [bpop EXCEPT ![c] = Awake] /\ blocking' = Unlisted(c)

\* The timeout passes, or the connection is lost.
TimedOut(c) ==
    /\ phase = "idle" /\ bpop[c] # Awake /\ unblockClient(c)
    /\ UNCHANGED <<db, rep, ready, phase, run, cmds>>

\* The server becomes a slave.
disconnectAllBlockedClients ==
    /\ phase = "idle" /\ \E c \in Clients : bpop[c] # Awake
    /\ bpop' = [c \in Clients |-> Awake] /\ blocking' = [k \in Keys |-> <<>>]
    /\ UNCHANGED <<db, rep, ready, phase, run, cmds>>

-----------------------------------------------------------------------------
(* handleClientsBlockedOnLists                                              *)

\* The next batch of ready keys, or the end.
NextBatch ==
    /\ phase = "serve" /\ run = Rest
    /\ phase' = IF ready = <<>> THEN "idle" ELSE "serve"
    /\ run' = [Rest EXCEPT !.l = ready] /\ ready' = <<>>
    /\ UNCHANGED <<db, rep, bpop, blocking, cmds>>

\* A ready key: as many clients as are blocked now are tried.
NextKey ==
    /\ phase = "serve" /\ run.key = NoKey /\ run.l # <<>>
    /\ LET k == Head(run.l)
       IN  run' = IF IsList(db[k]) /\ blocking[k] # <<>>
                  THEN [l |-> Tail(run.l), key |-> k, n |-> Len(blocking[k])]
                  ELSE [run EXCEPT !.l = Tail(@)]
    /\ UNCHANGED <<db, rep, bpop, blocking, ready, phase, cmds>>

\* serveClientBlockedOnList: <<database, what the replica makes of the commands propagated>>
\* after serving c with value v popped from k; on a destination of another type the pop is
\* undone and nothing is propagated.
serveClientBlockedOnList(c, k, v) ==
    LET w == bpop[c].where
        t == bpop[c].target
        p == [db EXCEPT ![k] = listTypePop(@, w)]
    IN  IF t = NoKey THEN <<p, Popped(rep, k, w)>>
        ELSE IF p[t].type = "string" THEN <<[p EXCEPT ![k] = listTypePush(@, v, w)], rep>>
        ELSE <<Pushed(p, t, v, "head"), Pushed(Popped(rep, k, "tail"), t, v, "head")>>

ServeClient ==
    LET k == run.key
        c == Head(blocking[k])
        r == serveClientBlockedOnList(c, k, End(db[k], bpop[c].where))
    IN  /\ phase = "serve" /\ k # NoKey /\ run.n > 0 /\ db[k].seq # <<>>
        /\ run' = [run EXCEPT !.n = @ - 1]
        /\ db' = r[1] /\ rep' = r[2] /\ ready' = Signalled(db, r[1], ready)
        /\ unblockClient(c)
        /\ UNCHANGED <<phase, cmds>>

\* No client or no value is left: the list goes if it is empty.
KeyDone ==
    LET k == run.key
    IN  /\ phase = "serve" /\ k # NoKey /\ (run.n = 0 \/ db[k].seq = <<>>)
        /\ db' = [db EXCEPT ![k] = Settle(@)] /\ run' = [run EXCEPT !.key = NoKey, !.n = 0]
        /\ UNCHANGED <<rep, bpop, blocking, ready, phase, cmds>>

handleClientsBlockedOnLists == NextBatch \/ NextKey \/ ServeClient \/ KeyDone

-----------------------------------------------------------------------------
Init ==
    /\ db = [k \in Keys |-> None] /\ rep = db /\ bpop = [c \in Clients |-> Awake]
    /\ blocking = [k \in Keys |-> <<>>] /\ ready = <<>> /\ phase = "idle" /\ run = Rest /\ cmds = 0

Idx == {-2, 0, 1}

Next ==
    \/ \E k \in Keys, w \in Sides, v \in Values : pushGenericCommand(k, v, w) \/ pushxGenericCommand(k, v, w)
    \/ \E k \in Keys, w \in Sides : popGenericCommand(k, w)
    \/ \E k \in Keys, w \in Sides, v, ref \in Values : linsertCommand(k, ref, v, w)
    \/ \E k \in Keys, v \in Values, i \in Idx : lsetCommand(k, i, v) \/ lremCommand(k, i, v)
    \/ \E k \in Keys, i, j \in Idx : ltrimCommand(k, i, j)
    \/ \E s, t \in Keys : rpoplpushCommand(s, t)
    \/ \E k \in Keys : setCommand(k) \/ delCommand(k)
    \/ \E k \in Keys, v \in Values : sortStore(k, v)
    \/ multiCommand
    \/ execCommand
    \/ \E c \in Clients, s, t \in Keys, w \in Sides : blockingPopGenericCommand(c, IF s = t THEN <<s>> ELSE <<s, t>>, w)
    \/ \E c \in Clients, s, t \in Keys : brpoplpushCommand(c, s, t)
    \/ \E c \in Clients : TimedOut(c)
    \/ disconnectAllBlockedClients
    \/ handleClientsBlockedOnLists

Spec == Init /\ [][Next]_vars

\* handleClientsBlockedOnLists runs to its end: nothing else runs meanwhile.
Weak(i) == i = 1 /\ handleClientsBlockedOnLists

-----------------------------------------------------------------------------
\* Every value is of a known type and encoding, and a ziplist keeps within its limits of
\* length and of the size of its elements, whichever commands built it (listTypePush,
\* LINSERT, LSET and the undo of a pop).
TypeOK ==
    /\ \A k \in Keys : /\ db[k].type \in {"none", "string", "list"}
                       /\ db[k].enc \in {"ziplist", "linkedlist"}
                       /\ db[k].seq \in Seq(Values)
                       /\ db[k].enc = "ziplist" => Len(db[k].seq) <= MaxZiplist /\ ToSet(db[k].seq) \cap Long = {}
    /\ \A c \in Clients : bpop[c].keys \subseteq Keys
    /\ ToSet(ready) \cup ToSet(run.l) \subseteq Keys /\ phase \in {"idle", "multi", "serve"}

\* Between two commands no client is blocked for a key that holds a list.
NotStarved ==
    phase = "idle" => \A c \in Clients, k \in Keys : k \in bpop[c].keys => ~IsList(db[k])

\* The two sides of blocking agree: a client is in the list of each of its keys, once, and
\* in no other (the assertions of unblockClientWaitingData).
BlockedConsistent ==
    \A c \in Clients, k \in Keys :
        Cardinality({i \in DOMAIN blocking[k] : blocking[k][i] = c}) = IF k \in bpop[c].keys THEN 1 ELSE 0

\* Between two commands the replica holds what the master holds: what was popped and pushed
\* for blocked clients has been propagated as commands that do the same.
InSync == phase = "idle" => \A k \in Keys : rep[k].type = db[k].type /\ rep[k].seq = db[k].seq

\* No empty list is left behind (brpoplpushCommand asserts it).
NoEmptyList == phase = "idle" => \A k \in Keys : IsList(db[k]) => db[k].seq # <<>>

\* LRANGE answers the same whatever the encoding.
EncodingsAgree ==
    \A k \in Keys : IsList(db[k]) /\ db[k].seq # <<>> =>
        \A i, j \in -3..3 : lrange("linkedlist", db[k].seq, i, j) = lrange("ziplist", db[k].seq, i, j)

\* A push that makes a list longer marks the key as ready if clients wait for it ("If a
\* PUSH operation against a key with blocked clients waiting is performed, we mark this key
\* as ready", t_list.c:766).
PushSignals ==
    \A k \in Keys :
          /\ phase \in {"idle", "multi"} /\ db[k].type # "string" /\ blocking[k] # <<>>
          /\ Len(db'[k].seq) > Len(db[k].seq)
          => k \in ToSet(ready')

\* Blocked clients are being served: not for ever, also when they push to the keys of one
\* another.
Unfinished(k) == k = 1 /\ phase = "serve"
=============================================================================
