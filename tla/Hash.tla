-------------------------------- MODULE Hash --------------------------------
(***************************************************************************)
(* The hash type (t_hash.c): a ziplist of fields and values, one after the  *)
(* other, until it has too many entries or one of them is too long; then a  *)
(* hash table.  One key, and the same key at a replica whose limits differ. *)
(*                                                                         *)
(* Fields and values are strings; those that are integers are modelled by   *)
(* them, the others by numbers that are larger.                             *)
(***************************************************************************)
EXTENDS Integers, Sequences, SequencesExt, FiniteSets, Functions

CONSTANTS
    Fields, Strings,            \* fields; strings that are no integers
    LongStrings,                \* those longer than hash_max_ziplist_value
    Low, High,                  \* a long long is a number of -Low..High
    hash_max_ziplist_entries,
    replica_max_ziplist_entries,
    Increments,                 \* TRUE: HINCRBY with long fields
    MaxValue                    \* bound: values that clients send are at most MaxValue, or strings
HashAssumption ==
    /\ {Low, High, hash_max_ziplist_entries, replica_max_ziplist_entries, MaxValue} \subseteq Nat
    /\ LongStrings \subseteq Strings \cup Fields /\ Strings \cap (-Low..High) = {} /\ Increments \in BOOLEAN

VARIABLES
    o,          \* [enc |-> "none" | "string" | "ziplist" | "ht", zl |-> sequence, ht |-> field -> value]
    replica,    \* the same at a replica
    reply       \* of the last command, a set of tuples; {<<>>} is an error
vars == <<o, replica, reply>>

Ints == -Low..High
Values == (-MaxValue..MaxValue) \cup Strings
NoKey == [enc |-> "none", zl |-> <<>>, ht |-> <<>>]
String == [NoKey EXCEPT !.enc = "string"]
createHashObject == [NoKey EXCEPT !.enc = "ziplist"]

-----------------------------------------------------------------------------
(* The type                                                                 *)

\* Every other entry is a field.
ziplistFind(zl, f) == SelectInSeq([i \in DOMAIN zl |-> <<i % 2, zl[i]>>], LAMBDA e : e = <<1, f>>)
hashTypeConvert(x) ==
    IF x.enc = "ht" THEN x
    ELSE [enc |-> "ht", zl |-> <<>>,
          ht |-> [f \in {x.zl[2 * i - 1] : i \in 1..(Len(x.zl) \div 2)} |-> x.zl[ziplistFind(x.zl, f) + 1]]]
hashTypeTryConversion(x, args) == IF \E i \in DOMAIN args : args[i] \in LongStrings THEN hashTypeConvert(x) ELSE x
hashTypeExists(x, f) == IF x.enc = "ht" THEN f \in DOMAIN x.ht ELSE ziplistFind(x.zl, f) # 0
hashTypeGetObject(x, f) == IF x.enc = "ht" THEN x.ht[f] ELSE x.zl[ziplistFind(x.zl, f) + 1]
hashTypeLength(x) == IF x.enc = "ht" THEN Cardinality(DOMAIN x.ht) ELSE Len(x.zl) \div 2
\* The value is replaced where it is, or the pair goes to the tail.
hashTypeSet(x, p, max) ==
    IF x.enc = "ht" THEN [x EXCEPT !.ht = [f \in DOMAIN @ \cup {p[1]} |-> IF f = p[1] THEN p[2] ELSE @[f]]]
    ELSE LET i == ziplistFind(x.zl, p[1])
             n == [x EXCEPT !.zl = IF i # 0 THEN [@ EXCEPT ![i + 1] = p[2]] ELSE @ \o p]
         IN  IF hashTypeLength(n) > max THEN hashTypeConvert(n) ELSE n
hashTypeDelete(x, f) ==
    IF x.enc = "ht" THEN [x EXCEPT !.ht = Restrict(@, DOMAIN @ \ {f})]
    ELSE LET i == ziplistFind(x.zl, f) IN IF i = 0 THEN x ELSE [x EXCEPT !.zl = RemoveAt(RemoveAt(@, i), i)]
\* Iteration: the pairs in the order of the ziplist, or of the table.
hashTypeIterator(x) ==
    IF x.enc = "ht" THEN {<<f, x.ht[f]>> : f \in DOMAIN x.ht}
    ELSE {<<x.zl[2 * i - 1], x.zl[2 * i]>> : i \in 1..(Len(x.zl) \div 2)}
hashTypeLookupWriteOrCreate(x) == IF x.enc = "none" THEN createHashObject ELSE x

-----------------------------------------------------------------------------
(* What a write does to the key of a server with the limit max              *)

hset(x, p, max) == hashTypeSet(hashTypeTryConversion(hashTypeLookupWriteOrCreate(x), p), p, max)
hmset(x, pairs, max) ==
    FoldLeft(LAMBDA y, p : hashTypeSet(y, p, max),
             hashTypeTryConversion(hashTypeLookupWriteOrCreate(x), FlattenSeq(pairs)), pairs)
\* The lengths are not looked at.
hincrby(x, f, v, max) == hashTypeSet(hashTypeLookupWriteOrCreate(x), <<f, v>>, max)
\* The fields one after the other, until the hash is empty.
hdel(x, fs) == FoldLeft(LAMBDA y, f : IF y = NoKey THEN y
                                      ELSE LET n == hashTypeDelete(y, f) IN IF hashTypeLength(n) = 0 THEN NoKey ELSE n, x, fs)

WrongType == o.enc = "string"
Refuse == reply' = {<<>>} /\ UNCHANGED <<o, replica>>
Says(r) == reply' = r /\ UNCHANGED <<o, replica>>
Flag(b) == {<<IF b THEN 1 ELSE 0>>}
Both(F(_, _)) == o' = F(o, hash_max_ziplist_entries) /\ replica' = F(replica, replica_max_ziplist_entries)

-----------------------------------------------------------------------------
(* Commands                                                                 *)

hsetCommand(p) ==
    IF WrongType THEN Refuse
    ELSE Both(LAMBDA x, max : hset(x, p, max)) /\ reply' = Flag(~hashTypeExists(o, p[1]))
hsetnxCommand(p) ==
    IF WrongType THEN Refuse
    ELSE IF hashTypeExists(o, p[1]) THEN o' = hashTypeTryConversion(o, p) /\ UNCHANGED replica /\ reply' = Flag(FALSE)
    ELSE Both(LAMBDA x, max : hset(x, p, max)) /\ reply' = Flag(TRUE)
hmsetCommand(pairs) ==
    IF WrongType THEN Refuse
    ELSE Both(LAMBDA x, max : hmset(x, pairs, max)) /\ reply' = Flag(TRUE)
OldValue(f) == IF hashTypeExists(o, f) THEN hashTypeGetObject(o, f) ELSE 0
Overflows(old, n) == (n < 0 /\ old < 0 /\ n < -Low - old) \/ (n > 0 /\ old > 0 /\ n > High - old)
hincrbyCommand(f, n) ==
    IF WrongType \/ OldValue(f) \notin Ints \/ Overflows(OldValue(f), n) THEN Refuse
    ELSE LET v == OldValue(f) + n
         IN  Both(LAMBDA x, max : hincrby(x, f, v, max)) /\ reply' = {<<v>>}
\* What the sum looks like depends on the host: the replica is sent HSET with the result.
hincrbyfloatCommand(f) ==
    \/ Refuse
    \/ ~WrongType /\ \E v \in Strings \ LongStrings :
         /\ o' = hincrby(o, f, v, hash_max_ziplist_entries) /\ reply' = {<<v>>}
         /\ replica' = hset(replica, <<f, v>>, replica_max_ziplist_entries)
hdelCommand(fs) ==
    IF WrongType THEN Refuse
    ELSE /\ Both(LAMBDA x, max : hdel(x, fs))
         /\ reply' = {<<Cardinality({f \in ToSet(fs) : hashTypeExists(o, f)})>>}
hgetCommand(f) ==
    IF WrongType THEN Refuse ELSE Says(IF hashTypeExists(o, f) THEN {<<hashTypeGetObject(o, f)>>} ELSE {})
hexistsCommand(f) == IF WrongType THEN Refuse ELSE Says(Flag(hashTypeExists(o, f)))
hlenCommand == IF WrongType THEN Refuse ELSE Says({<<hashTypeLength(o)>>})
hgetallCommand == IF WrongType THEN Refuse ELSE Says(hashTypeIterator(o))
hkeysCommand == IF WrongType THEN Refuse ELSE Says({<<p[1]>> : p \in hashTypeIterator(o)})
hvalsCommand == IF WrongType THEN Refuse ELSE Says({<<p[2]>> : p \in hashTypeIterator(o)})
\* SET and DEL of the key.
otherCommand == \E x \in {String, NoKey} : o' = x /\ replica' = x /\ reply' = {<<1>>}

Init == o = NoKey /\ replica = NoKey /\ reply = {}
ShortFields == Fields \ LongStrings
Next ==
    \/ \E f \in Fields, v \in Values : hsetCommand(<<f, v>>) \/ hsetnxCommand(<<f, v>>)
    \/ \E p, q \in Fields \X Values : hmsetCommand(<<p, q>>)
    \/ \E f \in (IF Increments THEN Fields ELSE ShortFields) :
          hincrbyfloatCommand(f) \/ \E n \in -MaxValue..MaxValue : hincrbyCommand(f, n)
    \/ \E f \in Fields : hgetCommand(f) \/ hexistsCommand(f)
    \/ \E f, g \in Fields : hdelCommand(<<f, g>>)
    \/ hlenCommand \/ hgetallCommand \/ hkeysCommand \/ hvalsCommand \/ otherCommand
Spec == Init /\ [][Next]_vars

-----------------------------------------------------------------------------
\* In a ziplist no field occurs twice, and the number of entries is even.
WellFormed(x, max) ==
    /\ x.enc \in {"none", "string", "ziplist", "ht"} /\ Len(x.zl) % 2 = 0
    /\ \A i, j \in 1..(Len(x.zl) \div 2) : x.zl[2 * i - 1] = x.zl[2 * j - 1] => i = j
    /\ (x.enc = "ziplist" => hashTypeLength(x) <= max) /\ DOMAIN x.ht \subseteq Fields
TypeOK == WellFormed(o, hash_max_ziplist_entries) /\ WellFormed(replica, replica_max_ziplist_entries)

\* A key whose hash has become empty is removed.
NoEmptyHash == o.enc \in {"ziplist", "ht"} => hashTypeLength(o) > 0

AsMap(x) ==
    IF x.enc = "ht" THEN [kind |-> "hash", map |-> x.ht]
    ELSE IF x.enc = "ziplist" THEN [kind |-> "hash", map |-> hashTypeConvert(x).ht]
    ELSE [kind |-> x.enc, map |-> <<>>]
\* A replica that runs what it is sent has the same map, whatever its encoding.
ReplicaHasTheSame == AsMap(replica) = AsMap(o)

\* A ziplist has no long string ("the biggest entry does not exceed a given threshold", redis.conf).
ShortInZiplist == o.enc = "ziplist" => ToSet(o.zl) \cap LongStrings = {}
=============================================================================
