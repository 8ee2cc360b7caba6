-------------------------------- MODULE Sets --------------------------------
(***************************************************************************)
(* The set type (t_set.c): two encodings and the conversion between them,   *)
(* the commands on sets, and what they tell the rest of the server: the     *)
(* keys they modified (WATCH), whether anything is dirty, and the command   *)
(* that is sent to the replicas.                                           *)
(*                                                                         *)
(* An intset is modelled by its members (IntSet has its memory), and a hash *)
(* table by its keys.  Replies are sets, numbers or -1 for an error.         *)
(***************************************************************************)
EXTENDS Integers, Sequences, SequencesExt, FiniteSets, FiniteSetsExt

CONSTANTS
    Keys, Elements,
    IntElements,            \* the elements that are integers
    set_max_intset_entries,
    UINT,                   \* 2^32: an unsigned int is a number below it
    MaxCount,               \* bound: counts of SRANDMEMBER
    MaxArgs, MaxKeyArgs     \* bounds: elements and keys of a command
SetsAssumption ==
    /\ IntElements \subseteq Elements /\ {set_max_intset_entries, UINT, MaxCount, MaxArgs, MaxKeyArgs} \subseteq Nat /\ UINT > 0

VARIABLES
    db,         \* key -> object [enc, elems], NoKey or String
    replica     \* the same at a replica that runs what it is sent
vars == <<db, replica>>

NoKey == [enc |-> "none", elems |-> {}]
String == [enc |-> "string", elems |-> {}]
Objects == {NoKey, String} \cup [enc : {"intset", "ht"}, elems : SUBSET Elements]
IsSet(o) == o.enc \in {"intset", "ht"}
WrongType(o) == o.enc = "string"

-----------------------------------------------------------------------------
(* The type                                                                 *)

IntsetObject == [enc |-> "intset", elems |-> {}]
setTypeCreate(e) == [enc |-> IF e \in IntElements THEN "intset" ELSE "ht", elems |-> {}]
\* An intset with a string, or too many integers, becomes a hash table.
setTypeAdd(o, e) ==
    [enc |-> IF /\ o.enc = "intset" /\ e \in IntElements
                /\ (e \in o.elems \/ Cardinality(o.elems) + 1 <= set_max_intset_entries)
             THEN "intset" ELSE "ht",
     elems |-> o.elems \cup {e}]
setTypeRemove(o, e) == [o EXCEPT !.elems = @ \ {e}]
setTypeIsMember(o, e) == e \in o.elems
setTypeSize(o) == Cardinality(o.elems)

\* What a command does: the database, the reply, signalModifiedKey, server.dirty and the command propagated.
NoEffect(d, reply) == [db |-> d, reply |-> reply, touched |-> {}, dirty |-> 0]
dbDelete(d, k) == [d EXCEPT ![k] = NoKey]
Error == {-1}

saddCommand(d, k, es) ==
    IF WrongType(d[k]) THEN NoEffect(d, Error)
    ELSE LET o == IF d[k] = NoKey THEN setTypeCreate(es[1]) ELSE d[k]
             n == FoldLeft(setTypeAdd, o, es)
             added == setTypeSize(n) - setTypeSize(o)
         IN  [db |-> [d EXCEPT ![k] = n], reply |-> {added}, touched |-> IF added > 0 THEN {k} ELSE {}, dirty |-> added]

\* The loop ends when the set is empty, and the key goes.
sremCommand(d, k, es) ==
    IF d[k] = NoKey THEN NoEffect(d, {0})
    ELSE IF WrongType(d[k]) THEN NoEffect(d, Error)
    ELSE LET n == FoldLeft(setTypeRemove, d[k], es)
             deleted == setTypeSize(d[k]) - setTypeSize(n)
         IN  [db |-> [d EXCEPT ![k] = IF deleted > 0 /\ setTypeSize(n) = 0 THEN NoKey ELSE n],
              reply |-> {deleted}, touched |-> IF deleted > 0 THEN {k} ELSE {}, dirty |-> deleted]

smoveCommand(d, src, dst, e) ==
    IF d[src] = NoKey THEN NoEffect(d, {0})
    ELSE IF WrongType(d[src]) \/ WrongType(d[dst]) THEN NoEffect(d, Error)
    ELSE IF src = dst THEN NoEffect(d, {IF setTypeIsMember(d[src], e) THEN 1 ELSE 0})
    ELSE IF ~setTypeIsMember(d[src], e) THEN NoEffect(d, {0})
    ELSE LET s == setTypeRemove(d[src], e)
             d1 == [d EXCEPT ![src] = IF setTypeSize(s) = 0 THEN NoKey ELSE s]
             t == IF d[dst] = NoKey THEN setTypeCreate(e) ELSE d[dst]
         IN  [db |-> [d1 EXCEPT ![dst] = setTypeAdd(t, e)], reply |-> {1}, touched |-> {src, dst},
              dirty |-> IF setTypeIsMember(t, e) THEN 1 ELSE 2]

\* e is the element the random choice picks.
spopCommand(d, k, e) ==
    LET o == setTypeRemove(d[k], e)
    IN  [db |-> [d EXCEPT ![k] = IF setTypeSize(o) = 0 THEN NoKey ELSE o], reply |-> {e}, touched |-> {k}, dirty |-> 1]

-----------------------------------------------------------------------------
(* Intersection, union and difference                                       *)

\* dst is a key to store to, or "reply".
Stored(d, dst, o) ==
    IF dst = "reply" THEN NoEffect(d, o.elems)
    ELSE [db |-> [d EXCEPT ![dst] = IF setTypeSize(o) > 0 THEN o ELSE NoKey], reply |-> {setTypeSize(o)},
          touched |-> {dst}, dirty |-> 1]

\* The smallest set is tested against the others; the first missing or wrong key decides.
sinterGenericCommand(d, ks, dst) ==
    LET bad == SelectInSeq(ks, LAMBDA k : ~IsSet(d[k]))
    IN  IF bad # 0 /\ WrongType(d[ks[bad]]) THEN NoEffect(d, Error)
        ELSE IF bad # 0 THEN
            IF dst = "reply" THEN NoEffect(d, {})
            ELSE [db |-> dbDelete(d, dst), reply |-> {0}, touched |-> IF d[dst] = NoKey THEN {} ELSE {dst},
                  dirty |-> IF d[dst] = NoKey THEN 0 ELSE 1]
        ELSE LET least == CHOOSE k \in ToSet(ks) : \A j \in ToSet(ks) : setTypeSize(d[k]) <= setTypeSize(d[j])
                 both == {e \in d[least].elems : \A j \in ToSet(ks) : setTypeIsMember(d[j], e)}
             IN  Stored(d, dst, FoldLeft(setTypeAdd, IntsetObject, SetToSeq(both)))

Existing(d, ks) == SelectSeq(ks, LAMBDA k : d[k] # NoKey)
TotalSize(d, ks) == FoldLeft(LAMBDA n, k : n + setTypeSize(d[k]), 0, ks)
\* Which algorithm SDIFF takes: a test per element of the first set, or a pass over all sets.
diff_algo(d, ks) ==
    IF (Len(Existing(d, ks)) * setTypeSize(d[ks[1]])) \div 2 <= TotalSize(d, Existing(d, ks)) THEN 1 ELSE 2
AddAll(o, s) == FoldLeft(setTypeAdd, o, SetToSeq(s))
RemoveAll(o, s) == FoldLeft(setTypeRemove, o, SetToSeq(s))
Union(d, ks) == FoldLeft(LAMBDA o, k : AddAll(o, d[k].elems), IntsetObject, ks)
DiffOne(d, ks) ==
    AddAll(IntsetObject, {e \in d[ks[1]].elems : \A j \in 2..Len(ks) : ks[j] # ks[1] /\ ~setTypeIsMember(d[ks[j]], e)})
\* A pass stops when nothing is left.
DiffTwo(d, ks) ==
    FoldLeft(LAMBDA o, k : IF setTypeSize(o) = 0 THEN o ELSE RemoveAll(o, d[k].elems),
             AddAll(IntsetObject, d[ks[1]].elems), Tail(ks))

sunionDiffGenericCommand(d, ks, dst, op) ==
    IF \E i \in DOMAIN ks : WrongType(d[ks[i]]) THEN NoEffect(d, Error)
    ELSE IF op = "union" THEN Stored(d, dst, Union(d, ks))
    ELSE IF d[ks[1]] = NoKey THEN Stored(d, dst, IntsetObject)
    ELSE Stored(d, dst, IF diff_algo(d, ks) = 1 THEN DiffOne(d, ks) ELSE DiffTwo(d, ks))

-----------------------------------------------------------------------------
(* SRANDMEMBER key count: the sizes of the answers it may give.             *)

SRANDMEMBER_SUB_STRATEGY_MUL == 3
\* A count that is not negative goes through an unsigned int.
SRandCount(l) == IF l >= 0 THEN l % UINT ELSE -l
\* The answers: sequences for a negative count, else the whole set, the set less some, or some.
srandmemberWithCountCommand(o, l) ==
    LET count == SRandCount(l)
        size == setTypeSize(o)
    IN  IF count = 0 \/ o = NoKey THEN {{}}
        ELSE IF l < 0 THEN {ToSet(s) : s \in [1..count -> o.elems]}
        ELSE IF count >= size THEN {o.elems}
        ELSE IF count * SRANDMEMBER_SUB_STRATEGY_MUL > size
             THEN {o.elems \ gone : gone \in kSubset(size - count, o.elems)}
        ELSE kSubset(count, o.elems)

-----------------------------------------------------------------------------
(* The server                                                               *)

Exec(d, c) ==
    CASE c.op = "sadd"  -> saddCommand(d, c.key, c.args)
      [] c.op = "srem"  -> sremCommand(d, c.key, c.args)
      [] c.op = "smove" -> smoveCommand(d, c.key, c.dst, c.args[1])
      [] c.op = "spop"  -> spopCommand(d, c.key, c.args[1])
      [] c.op = "inter" -> sinterGenericCommand(d, c.keys, c.dst)
      [] OTHER          -> sunionDiffGenericCommand(d, c.keys, c.dst, c.op)
\* SPOP is sent as SREM.
Propagated(d, c) == IF c.op = "spop" THEN [c EXCEPT !.op = "srem"] ELSE c

Args == UNION {[1..n -> Elements] : n \in 1..MaxArgs}
KeyArgs == UNION {[1..n -> Keys] : n \in 1..MaxKeyArgs}
NoArgs == [op |-> "none", key |-> "none", dst |-> "reply", args |-> <<>>, keys |-> <<>>]
Commands ==
         {[NoArgs EXCEPT !.op = o, !.key = k, !.args = a] : o \in {"sadd", "srem"}, k \in Keys, a \in Args}
    \cup {[NoArgs EXCEPT !.op = "smove", !.key = s, !.dst = k, !.args = <<e>>] : s \in Keys, k \in Keys, e \in Elements}
    \cup {[NoArgs EXCEPT !.op = o, !.keys = ks, !.dst = k] : o \in {"inter", "union", "diff"}, ks \in KeyArgs, k \in Keys \cup {"reply"}}
Pops(d) == {[NoArgs EXCEPT !.op = "spop", !.key = k, !.args = <<e>>] : k \in {j \in Keys : IsSet(d[j])}, e \in Elements}
Possible(d) == Commands \cup {c \in Pops(d) : c.args[1] \in d[c.key].elems}

\* A command that made anything dirty is sent to the replica.
Run(c) ==
    LET r == Exec(db, c)
    IN  /\ db' = r.db
        /\ replica' = IF r.dirty > 0 THEN Exec(replica, Propagated(replica, c)).db ELSE replica
Init == db \in [Keys -> {NoKey, String}] /\ replica = db
Next == \E c \in Possible(db) : Run(c)
Spec == Init /\ [][Next]_vars

-----------------------------------------------------------------------------
\* A set of integers is small, and there are no empty sets.
TypeOK ==
    /\ db \in [Keys -> Objects]
    /\ \A k \in Keys : db[k].enc = "intset" =>
         db[k].elems \subseteq IntElements /\ Cardinality(db[k].elems) <= set_max_intset_entries
NoEmptySet == \A k \in Keys : IsSet(db[k]) => db[k].elems # {}

\* A replica that runs what is propagated has the same sets, encodings included (spopCommand, server.dirty).
ReplicaEqual == replica = db

\* What a command changes it signals to the clients that watch the key (signalModifiedKey).
ChangesSignalled ==
    \A c \in Possible(db) : LET r == Exec(db, c) IN
        \A k \in Keys : r.db[k] # db[k] => k \in r.touched /\ r.dirty > 0

\* Replies and results are those of sets: the algorithms agree with the definitions.
Members(d, ks) == {d[ks[i]].elems : i \in DOMAIN ks}
Reference(d, c) ==
    CASE c.op = "inter" -> {e \in Elements : \A s \in Members(d, c.keys) : e \in s}
      [] c.op = "union" -> UNION Members(d, c.keys)
      [] OTHER          -> d[c.keys[1]].elems \ UNION {d[c.keys[i]].elems : i \in 2..Len(c.keys)}
AlgebraOK ==
    \A c \in Commands : c.op \in {"inter", "union", "diff"} /\ (\A i \in DOMAIN c.keys : ~WrongType(db[c.keys[i]])) =>
        LET r == Exec(db, c)
        IN  IF c.dst = "reply" THEN r.reply = Reference(db, c) ELSE r.db[c.dst].elems = Reference(db, c)

\* SMOVE neither loses nor copies an element.
MoveKeepsElements ==
    \A c \in Commands : c.op = "smove" =>
        LET r == Exec(db, c)
        IN  /\ db[c.key].elems \cup db[c.dst].elems = r.db[c.key].elems \cup r.db[c.dst].elems
            /\ r.reply = {1} => c.args[1] \in r.db[c.dst].elems /\ (c.dst # c.key => c.args[1] \notin r.db[c.key].elems)

\* SRANDMEMBER with a count gives that many different elements, or all there are (srandmemberWithCountCommand).
CountHonoured ==
    \A k \in Keys, l \in 0..MaxCount : IsSet(db[k]) =>
        \A s \in srandmemberWithCountCommand(db[k], l) :
            s \subseteq db[k].elems /\ (Cardinality(s) = l \/ (Cardinality(s) < l /\ s = db[k].elems))
=============================================================================
