----------------------------- MODULE SortedSet -----------------------------
(***************************************************************************)
(* Sorted sets of redis (t_zset.c) in both encodings: a ziplist of pairs in *)
(* order, or a skip list with a dict from elements to scores.  A command is *)
(* one step.  ref is what the database should hold: a map from elements to  *)
(* scores per key, changed by what a command means and not by how it works. *)
(***************************************************************************)
EXTENDS Integers, Sequences, SequencesExt, FiniteSetsExt, TLC

CONSTANTS Elems,       \* positive numbers, in lexicographic order
          Scores,      \* the scores a caller gives
          Inf,         \* a score that stands for +inf
          MaxLevel,    \* ZSKIPLIST_MAXLEVEL
          Keys,
          Long,        \* elements longer than zset_max_ziplist_value
          MaxEntries,  \* zset_max_ziplist_entries
          MaxArgs,     \* bound: elements of one ZADD or ZREM
          MaxSources,  \* bound: sources of a store
          Weights,     \* WEIGHTS given to a store
          NoPairs      \* does anyone call ZADD with options and no pair?

SortedSetAssumption ==
    /\ Elems \subseteq Nat \ {0} /\ Scores \subseteq -Inf..Inf
    /\ Inf \in Nat /\ MaxLevel \in Nat \ {0}
    /\ Long \subseteq Elems /\ MaxEntries \in Nat /\ MaxArgs \in Nat \ {0} /\ MaxSources \in Nat
    /\ Weights \subseteq Int /\ NoPairs \in BOOLEAN

VARIABLES db,    \* the value of each key
          ref,   \* history: what it should be
          last   \* the last command: did it count as a change, and of which keys

vars == <<db, ref, last>>

None == [enc |-> "none"]
NaN == Inf + 1
Quiet == [dirty |-> FALSE, touched |-> {}]
Said(touched) == [dirty |-> TRUE, touched |-> touched]

\* IEEE addition and multiplication, as far as infinities go.
Plus(a, b) == IF {a, b} = {Inf, -Inf} THEN NaN ELSE IF a \in {Inf, -Inf} THEN a
              ELSE IF b \in {Inf, -Inf} THEN b ELSE a + b
Times(w, a) == IF a \in {Inf, -Inf}
               THEN IF w = 0 THEN NaN ELSE IF w > 0 THEN a ELSE -a
               ELSE w * a

-----------------------------------------------------------------------------
(* The skip list (the first part of t_zset.c) as functions of a list z.      *)
(* Elements stand for themselves and for their node.  Each node has its      *)
(* forward pointers and, next to each, its span: the number of nodes the     *)
(* pointer skips over, which makes ranks and lookups by rank logarithmic.    *)

Nil == -1
Header == 0
Levels == 1..MaxLevel

\* zslCreate
zslCreate ==
    [node |-> Header :> [score |-> 0, fwd |-> [i \in Levels |-> Nil],
                         span |-> [i \in Levels |-> 0], back |-> Nil],
     tail |-> Nil, level |-> 1, length |-> 0]

\* Where every search ends on each level: a node and its rank.  Before(f, r) says
\* that the search goes on to node f of rank r.
Path(z, Before(_, _)) ==
    LET go[i \in Levels, x \in Elems \cup {Header}, r \in Int] ==
            LET f == z.node[x].fwd[i]
                s == r + z.node[x].span[i]
            IN  IF f # Nil /\ Before(f, s) THEN go[i, f, s] ELSE <<x, r>>
        at[i \in 1..z.level] ==
            IF i = z.level THEN go[i, Header, 0] ELSE go[i, at[i + 1][1], at[i + 1][2]]
    IN  at
PathTo(z, s, e) ==
    Path(z, LAMBDA f, r : z.node[f].score < s \/ (z.node[f].score = s /\ f < e))

\* zslInsert, with the level zslRandomLevel has drawn.
zslInsert(z, s, e, lv) ==
    LET p == PathTo(z, s, e)
        upd == [i \in Levels |-> IF i <= z.level THEN p[i][1] ELSE Header]
        skip == [i \in Levels |-> p[1][2] - (IF i <= z.level THEN p[i][2] ELSE 0)]
        span(i) == IF i <= z.level THEN z.node[upd[i]].span[i] ELSE z.length
        top == Max({z.level, lv})
        next == z.node[upd[1]].fwd[1]
        x == [score |-> s, fwd |-> [i \in 1..lv |-> z.node[upd[i]].fwd[i]],
              span |-> [i \in 1..lv |-> span(i) - skip[i]],
              back |-> IF upd[1] = Header THEN Nil ELSE upd[1]]
        linked(n) == [z.node[n] EXCEPT
            !.fwd = [i \in DOMAIN @ |-> IF i <= lv /\ upd[i] = n THEN e ELSE @[i]],
            !.span = [i \in DOMAIN @ |-> IF i > top \/ upd[i] # n THEN @[i]
                                         ELSE IF i <= lv THEN skip[i] + 1 ELSE @[i] + 1],
            !.back = IF n = next THEN e ELSE @]
    IN  [node |-> (e :> x) @@ [n \in DOMAIN z.node |-> linked(n)],
         tail |-> IF next = Nil THEN e ELSE z.tail, level |-> top, length |-> z.length + 1]

\* zslDeleteNode, with the nodes before it on each level.
zslDeleteNode(z, x, upd) ==
    LET nx == z.node[x]
        unlinked(n) == [z.node[n] EXCEPT
            !.fwd = [i \in DOMAIN @ |-> IF i <= z.level /\ upd[i] = n /\ @[i] = x
                                        THEN nx.fwd[i] ELSE @[i]],
            !.span = [i \in DOMAIN @ |-> IF i > z.level \/ upd[i] # n THEN @[i]
                                         ELSE IF z.node[n].fwd[i] = x THEN @[i] + nx.span[i] - 1
                                         ELSE @[i] - 1],
            !.back = IF n = nx.fwd[1] THEN nx.back ELSE @]
        node == [n \in DOMAIN z.node \ {x} |-> unlinked(n)]
    IN  [node |-> node, tail |-> IF nx.fwd[1] = Nil THEN nx.back ELSE z.tail,
         level |-> Max({1} \cup {i \in 1..z.level : node[Header].fwd[i] # Nil}),
         length |-> z.length - 1]

NodesOf(p) == [i \in DOMAIN p |-> p[i][1]]
zslDelete(z, s, e) ==
    LET upd == NodesOf(PathTo(z, s, e))
        x == z.node[upd[1]].fwd[1]
    IN  IF x = e /\ z.node[x].score = s THEN zslDeleteNode(z, x, upd) ELSE z

\* The nodes from x on, along the first level, or back.
Chain(z, x) ==
    LET c[n \in Elems \cup {Nil}] == IF n = Nil THEN <<>> ELSE <<n>> \o c[z.node[n].fwd[1]]
    IN  c[x]
BackChain(z, x) ==
    LET c[n \in Elems \cup {Nil}] == IF n = Nil THEN <<>> ELSE <<n>> \o c[z.node[n].back]
    IN  c[x]
Prefix(s, In(_)) ==
    LET bad == {i \in 1..Len(s) : ~In(s[i])} IN SubSeq(s, 1, Min(bad \cup {Len(s) + 1}) - 1)

-----------------------------------------------------------------------------
(* Ranges of scores, and of elements of one score                            *)

MinStr == Min(Elems) - 100   \* shared.minstring, "-"
MaxStr == Max(Elems) + 100   \* shared.maxstring, "+"
\* zslParseRange, zslParseLexRange: the ranges a command can be given.
ScoreRanges == [min : Scores, max : Scores, minex : BOOLEAN, maxex : BOOLEAN]
LexRanges ==
    {r \in [min : Elems \cup {MinStr, MaxStr}, max : Elems \cup {MinStr, MaxStr},
            minex : BOOLEAN, maxex : BOOLEAN] :
        /\ r.min \in {MinStr, MaxStr} => ~r.minex
        /\ r.max \in {MinStr, MaxStr} => ~r.maxex}

ValueGteMin(s, r) == IF r.minex THEN s > r.min ELSE s >= r.min
ValueLteMax(s, r) == IF r.maxex THEN s < r.max ELSE s <= r.max

compareStringObjectsForLexRange(a, b) ==
    IF a = b THEN 0 ELSE IF a = MinStr \/ b = MaxStr THEN -1
    ELSE IF a = MaxStr \/ b = MinStr THEN 1 ELSE a - b
LexValueGteMin(e, r) ==
    LET c == compareStringObjectsForLexRange(e, r.min) IN IF r.minex THEN c > 0 ELSE c >= 0
LexValueLteMax(e, r) ==
    LET c == compareStringObjectsForLexRange(e, r.max) IN IF r.maxex THEN c < 0 ELSE c <= 0

\* The tests for ranges that are always empty (the lexicographic one lets the pairs
\* that compare as 1 through).
EmptyRange(r) == r.min > r.max \/ (r.min = r.max /\ (r.minex \/ r.maxex))
EmptyLexRange(r) ==
    compareStringObjectsForLexRange(r.min, r.max) > 1 \/ (r.min = r.max /\ (r.minex \/ r.maxex))

\* zslIsInRange, zslIsInLexRange: can any node be in a range with these bounds?
IsIn(z, Gte(_), Lte(_)) ==
    /\ z.tail # Nil /\ Gte(z.tail)
    /\ z.node[Header].fwd[1] # Nil /\ Lte(z.node[Header].fwd[1])
FirstIn(z, Gte(_), Lte(_)) ==
    LET x == z.node[Path(z, LAMBDA f, r : ~Gte(f))[1][1]].fwd[1]
    IN  IF IsIn(z, Gte, Lte) /\ Lte(x) THEN x ELSE Nil
LastIn(z, Gte(_), Lte(_)) ==
    LET x == Path(z, LAMBDA f, r : Lte(f))[1][1]
    IN  IF IsIn(z, Gte, Lte) /\ Gte(x) THEN x ELSE Nil

zslFirstInRange(z, r) ==
    IF EmptyRange(r) THEN Nil
    ELSE FirstIn(z, LAMBDA x : ValueGteMin(z.node[x].score, r), LAMBDA x : ValueLteMax(z.node[x].score, r))
zslLastInRange(z, r) ==
    IF EmptyRange(r) THEN Nil
    ELSE LastIn(z, LAMBDA x : ValueGteMin(z.node[x].score, r), LAMBDA x : ValueLteMax(z.node[x].score, r))
zslFirstInLexRange(z, r) ==
    IF EmptyLexRange(r) THEN Nil
    ELSE FirstIn(z, LAMBDA x : LexValueGteMin(x, r), LAMBDA x : LexValueLteMax(x, r))
zslLastInLexRange(z, r) ==
    IF EmptyLexRange(r) THEN Nil
    ELSE LastIn(z, LAMBDA x : LexValueGteMin(x, r), LAMBDA x : LexValueLteMax(x, r))

\* Deletion of the nodes after a path for as long as they are in range: one update
\* array serves them all.
DeleteAfter(z, p, In(_)) ==
    FoldLeft(LAMBDA y, x : zslDeleteNode(y, x, NodesOf(p)), z,
             Prefix(Chain(z, z.node[p[1][1]].fwd[1]), In))
zslDeleteRangeByScore(z, r) ==
    DeleteAfter(z, Path(z, LAMBDA f, k : ~ValueGteMin(z.node[f].score, r)),
                LAMBDA x : ValueLteMax(z.node[x].score, r))
zslDeleteRangeByLex(z, r) ==
    DeleteAfter(z, Path(z, LAMBDA f, k : ~LexValueGteMin(f, r)), LAMBDA x : LexValueLteMax(x, r))
zslDeleteRangeByRank(z, start, end) ==
    LET p == Path(z, LAMBDA f, k : k < start)
        todo == Chain(z, z.node[p[1][1]].fwd[1])
    IN  FoldLeft(LAMBDA y, x : zslDeleteNode(y, x, NodesOf(p)), z,
                 SubSeq(todo, 1, Min({Len(todo), end - p[1][2]})))

\* zslGetRank: on the highest level on which the search ends at the element itself.
zslGetRank(z, s, e) ==
    LET p == Path(z, LAMBDA f, k : z.node[f].score < s \/ (z.node[f].score = s /\ f <= e))
        hits == {i \in DOMAIN p : p[i][1] = e}
    IN  IF hits = {} THEN 0 ELSE p[Max(hits)][2]

zslGetElementByRank(z, rank) ==
    LET p == Path(z, LAMBDA f, k : k <= rank)
        hits == {i \in DOMAIN p : p[i][2] = rank}
    IN  IF hits = {} THEN Nil ELSE p[Max(hits)][1]

-----------------------------------------------------------------------------
(* The reference: a map from elements to scores, and its order               *)

Sorted(m) == SetToSortSeq(DOMAIN m, LAMBDA a, b : m[a] < m[b] \/ (m[a] = m[b] /\ a < b))

\* The structure of a list that holds map m: on each level the nodes of at least that
\* level in order, every span the distance in the order, the way back, and the ends.
SkipListSound(z, m) ==
    LET s == Sorted(m)
        pos(x) == IF x = Header THEN 0 ELSE CHOOSE i \in 1..Len(s) : s[i] = x
        level(x) == IF x = Header THEN z.level ELSE Len(z.node[x].fwd)
        next(x, i) == LET c == {j \in (pos(x) + 1)..Len(s) : level(s[j]) >= i}
                      IN  IF c = {} THEN Len(s) + 1 ELSE Min(c)
    IN  /\ DOMAIN z.node = {Header} \cup DOMAIN m /\ z.length = Len(s)
        /\ z.tail = IF s = <<>> THEN Nil ELSE Last(s)
        /\ z.level = Max({1} \cup {level(x) : x \in DOMAIN m})
        /\ \A x \in DOMAIN z.node : \A i \in 1..level(x) :
              IF next(x, i) > Len(s)
              THEN z.node[x].fwd[i] = Nil /\ z.node[x].span[i] = Len(s) - pos(x)
              ELSE z.node[x].fwd[i] = s[next(x, i)] /\ z.node[x].span[i] = next(x, i) - pos(x)
        /\ \A x \in DOMAIN m : z.node[x].back = (IF pos(x) = 1 THEN Nil ELSE s[pos(x) - 1])
                               /\ z.node[x].score = m[x]

-----------------------------------------------------------------------------
(* The ziplist encoding: a sequence of pairs                                 *)

Pos(zl, e) == {i \in 1..Len(zl) : zl[i][1] = e}
zzlDelete(zl, e) == SelectSeq(zl, LAMBDA p : p[1] # e)
zzlInsert(zl, s, e) ==
    InsertAt(zl, Min({i \in 1..Len(zl) : zl[i][2] > s \/ (zl[i][2] = s /\ zl[i][1] > e)}
                     \cup {Len(zl) + 1}), <<e, s>>)

\* Indices of the first and the last pair in range, or 0.
zzlIsIn(zl, Gte(_), Lte(_)) == zl # <<>> /\ Gte(Last(zl)) /\ Lte(Head(zl))
zzlFirstIn(zl, Gte(_), Lte(_)) ==
    LET c == {i \in 1..Len(zl) : Gte(zl[i])}
    IN  IF zzlIsIn(zl, Gte, Lte) /\ c # {} /\ Lte(zl[Min(c)]) THEN Min(c) ELSE 0
zzlLastIn(zl, Gte(_), Lte(_)) ==
    LET c == {i \in 1..Len(zl) : Lte(zl[i])}
    IN  IF zzlIsIn(zl, Gte, Lte) /\ c # {} /\ Gte(zl[Max(c)]) THEN Max(c) ELSE 0
zzlFirstInRange(zl, r) ==
    IF EmptyRange(r) THEN 0
    ELSE zzlFirstIn(zl, LAMBDA p : ValueGteMin(p[2], r), LAMBDA p : ValueLteMax(p[2], r))
zzlLastInRange(zl, r) ==
    IF EmptyRange(r) THEN 0
    ELSE zzlLastIn(zl, LAMBDA p : ValueGteMin(p[2], r), LAMBDA p : ValueLteMax(p[2], r))
zzlFirstInLexRange(zl, r) ==
    IF EmptyLexRange(r) THEN 0
    ELSE zzlFirstIn(zl, LAMBDA p : LexValueGteMin(p[1], r), LAMBDA p : LexValueLteMax(p[1], r))
zzlLastInLexRange(zl, r) ==
    IF EmptyLexRange(r) THEN 0
    ELSE zzlLastIn(zl, LAMBDA p : LexValueGteMin(p[1], r), LAMBDA p : LexValueLteMax(p[1], r))

\* Pairs first..last out; first 0: nothing.
Cut(zl, first, n) == IF first = 0 THEN zl
                     ELSE SubSeq(zl, 1, first - 1) \o SubSeq(zl, first + n, Len(zl))
From(zl, first) == SubSeq(zl, first, Len(zl))
zzlDeleteRangeByScore(zl, r) ==
    LET f == zzlFirstInRange(zl, r)
    IN  Cut(zl, f, IF f = 0 THEN 0 ELSE Len(Prefix(From(zl, f), LAMBDA p : ValueLteMax(p[2], r))))
zzlDeleteRangeByLex(zl, r) ==
    LET f == zzlFirstInLexRange(zl, r)
    IN  Cut(zl, f, IF f = 0 THEN 0 ELSE Len(Prefix(From(zl, f), LAMBDA p : LexValueLteMax(p[1], r))))
zzlDeleteRangeByRank(zl, start, end) == Cut(zl, start, end - start + 1)

-----------------------------------------------------------------------------
(* A value in either encoding                                                *)

Ziplist(zl) == [enc |-> "ziplist", zl |-> zl]
Skiplist(z, d) == [enc |-> "skiplist", zsl |-> z, dict |-> d]
IsZset(v) == v.enc \in {"ziplist", "skiplist"}
Without(f, D) == [x \in DOMAIN f \ D |-> f[x]]

zsetLength(v) == IF v.enc = "ziplist" THEN Len(v.zl) ELSE v.zsl.length
ElemsOf(v) == IF v.enc = "ziplist" THEN {p[1] : p \in ToSet(v.zl)} ELSE DOMAIN v.dict
\* zscoreCommand; zzlFind, or the dict.
zscore(v, e) ==
    IF v.enc = "ziplist" THEN v.zl[CHOOSE i \in Pos(v.zl, e) : TRUE][2] ELSE v.dict[e]

\* zsetConvert, either way; lv is the level drawn for each element.
ToSkiplist(v, lv) ==
    IF v.enc = "skiplist" THEN v
    ELSE FoldLeft(LAMBDA y, p : Skiplist(zslInsert(y.zsl, p[2], p[1], lv[p[1]]), (p[1] :> p[2]) @@ y.dict),
                  Skiplist(zslCreate, <<>>), v.zl)
ToZiplist(v) ==
    LET c == Chain(v.zsl, v.zsl.node[Header].fwd[1])
    IN  Ziplist([i \in 1..Len(c) |-> <<c[i], v.zsl.node[c[i]].score>>])

\* A new element goes in, or an old one gets another score.
Insert(v, s, e, lv) ==
    IF v.enc = "ziplist"
    THEN LET n == Ziplist(zzlInsert(v.zl, s, e))
         IN  IF Len(n.zl) > MaxEntries \/ e \in Long THEN ToSkiplist(n, lv) ELSE n
    ELSE Skiplist(zslInsert(v.zsl, s, e, lv[e]), (e :> s) @@ v.dict)
Update(v, s, e, lv) ==
    IF v.enc = "ziplist" THEN Ziplist(zzlInsert(zzlDelete(v.zl, e), s, e))
    ELSE Skiplist(zslInsert(zslDelete(v.zsl, v.dict[e], e), s, e, lv[e]), (e :> s) @@ v.dict)
Drop(v, e) ==
    IF v.enc = "ziplist" THEN Ziplist(zzlDelete(v.zl, e))
    ELSE Skiplist(zslDelete(v.zsl, v.dict[e], e), Without(v.dict, {e}))

\* dbDelete of a key whose set has become empty.
OrGone(v) == IF zsetLength(v) = 0 THEN None ELSE v

Put(k, v, m, l) == db' = [db EXCEPT ![k] = v] /\ ref' = [ref EXCEPT ![k] = m] /\ last' = l
Nothing == UNCHANGED <<db, ref>> /\ last' = Quiet
\* The levels zslRandomLevel draws for the elements of S.
LevelChoices(S) == {lv \in [Elems -> Levels] : \A e \in Elems \ S : lv[e] = 1}

-----------------------------------------------------------------------------
(* ZADD and ZINCRBY                                                          *)

\* One pair of the loop of zaddGenericCommand; acc holds the value and the changes so far.
AddOne(acc, p, o, lv) ==
    LET e == p[2]
        old == zscore(acc.v, e)
        s == IF o.incr THEN Plus(p[1], old) ELSE p[1]
    IN  IF e \in ElemsOf(acc.v)
        THEN IF o.nx \/ s \in {NaN, old} THEN acc
             ELSE [v |-> Update(acc.v, s, e, lv), n |-> acc.n + 1]
        ELSE IF o.xx THEN acc ELSE [v |-> Insert(acc.v, p[1], e, lv), n |-> acc.n + 1]

\* The same on a map.
RefAdd(m, p, o) ==
    LET s == IF o.incr /\ p[2] \in DOMAIN m THEN Plus(p[1], m[p[2]]) ELSE p[1]
    IN  IF (p[2] \in DOMAIN m /\ o.nx) \/ (p[2] \notin DOMAIN m /\ o.xx) \/ s = NaN THEN m
        ELSE (p[2] :> s) @@ m

Options == {o \in [nx : BOOLEAN, xx : BOOLEAN, incr : BOOLEAN] : ~(o.nx /\ o.xx)}
Pairs(o) == UNION {[1..n -> Scores \X Elems] : n \in 1..(IF o.incr THEN 1 ELSE MaxArgs)}

\* The encoding of a new key depends on the first element only.
NewZset(e) == IF MaxEntries = 0 \/ e \in Long THEN Skiplist(zslCreate, <<>>) ELSE Ziplist(<<>>)

zaddGenericCommand(k, o, ps, lv) ==
    LET new == db[k] = None
        r == FoldLeft(LAMBDA a, p : AddOne(a, p, o, lv),
                      [v |-> IF new THEN NewZset(ps[1][2]) ELSE db[k], n |-> 0], ps)
    IN  IF (~new /\ ~IsZset(db[k])) \/ (new /\ o.xx) THEN Nothing
        ELSE Put(k, r.v, FoldLeft(LAMBDA m, p : RefAdd(m, p, o), ref[k], ps),
                 IF r.n > 0 THEN Said({k}) ELSE Quiet)
zadd(k) ==
    \E o \in Options : \E ps \in Pairs(o) :
    \E lv \in LevelChoices({p[2] : p \in ToSet(ps)} \cup (IF db[k].enc = "ziplist" THEN Elems ELSE {})) :
        /\ \A p \in ToSet(ps) : IsZset(db[k]) /\ o.incr /\ p[2] \in ElemsOf(db[k])
               => Plus(p[1], zscore(db[k], p[2])) \in Scores \cup {NaN}
        /\ zaddGenericCommand(k, o, ps, lv)

\* Options and no pair: the number of arguments is even.  The new key's encoding is read
\* from beyond the arguments.
zaddNoPairs(k) ==
    /\ NoPairs /\ db[k] = None
    /\ \E v \in {Ziplist(<<>>), Skiplist(zslCreate, <<>>)} : Put(k, v, ref[k], Quiet)

-----------------------------------------------------------------------------
(* ZREM, ZREMRANGEBYRANK, ZREMRANGEBYSCORE and ZREMRANGEBYLEX                *)

zremCommand(k, es) ==
    LET gone == FoldLeft(LAMBDA v, e : IF e \in ElemsOf(v) THEN Drop(v, e) ELSE v, db[k], es)
    IN  IF ~IsZset(db[k]) \/ ElemsOf(db[k]) \cap ToSet(es) = {} THEN Nothing
        ELSE Put(k, OrGone(gone), Without(ref[k], ToSet(es)), Said({k}))
zrem(k) == \E n \in 1..MaxArgs : \E es \in [1..n -> Elems] : zremCommand(k, es)

\* The indices of a range of ranks, counted from 1; <<1, 0>>: none.
Sanitize(n, a, b) ==
    LET start == Max({0, IF a < 0 THEN n + a ELSE a})
        end == IF b < 0 THEN n + b ELSE b
    IN  IF start > end \/ start >= n THEN <<1, 0>> ELSE <<start + 1, Min({end, n - 1}) + 1>>
Ranks == (-Cardinality(Elems) - 1)..Cardinality(Elems)
\* zslDeleteRange*: the dict loses what the list has lost.
SameDict(z, d) == Skiplist(z, Without(d, DOMAIN d \ DOMAIN z.node))

RemoveRange(v, kind, r) ==
    IF v.enc = "ziplist"
    THEN Ziplist(CASE kind = "rank" -> zzlDeleteRangeByRank(v.zl, r[1], r[2])
                   [] kind = "score" -> zzlDeleteRangeByScore(v.zl, r)
                   [] kind = "lex" -> zzlDeleteRangeByLex(v.zl, r))
    ELSE SameDict(CASE kind = "rank" -> zslDeleteRangeByRank(v.zsl, r[1], r[2])
                    [] kind = "score" -> zslDeleteRangeByScore(v.zsl, r)
                    [] kind = "lex" -> zslDeleteRangeByLex(v.zsl, r), v.dict)

zremrangeGenericCommand(k, kind, r, doomed) ==
    LET v == RemoveRange(db[k], kind, r)
        n == zsetLength(db[k]) - zsetLength(v)
    IN  Put(k, OrGone(v), Without(ref[k], doomed), IF n > 0 THEN Said({k}) ELSE Quiet)

zremrangebyrankCommand(k) ==
    /\ IsZset(db[k])
    /\ \E a, b \in Ranks :
          LET r == Sanitize(zsetLength(db[k]), a, b)
          IN  IF r = <<1, 0>> THEN Nothing
              ELSE zremrangeGenericCommand(k, "rank", r, ToSet(SubSeq(Sorted(ref[k]), r[1], r[2])))
zremrangebyscoreCommand(k) ==
    /\ IsZset(db[k])
    /\ \E r \in ScoreRanges :
          zremrangeGenericCommand(k, "score", r,
              {e \in DOMAIN ref[k] : ValueGteMin(ref[k][e], r) /\ ValueLteMax(ref[k][e], r)})
\* What it removes is defined for elements of one score.
zremrangebylexCommand(k) ==
    /\ IsZset(db[k]) /\ Cardinality({ref[k][e] : e \in DOMAIN ref[k]}) = 1
    /\ \E r \in LexRanges :
          zremrangeGenericCommand(k, "lex", r,
              {e \in DOMAIN ref[k] : LexValueGteMin(e, r) /\ LexValueLteMax(e, r)})

-----------------------------------------------------------------------------
(* ZUNIONSTORE and ZINTERSTORE                                               *)

\* zuiInitIterator, zuiNext, zuiFind: the elements of a set have score 1.
SrcMap(k) == IF db[k] = None THEN <<>>
             ELSE IF db[k].enc = "set" THEN [e \in db[k].els |-> 1]
             ELSE [e \in ElemsOf(db[k]) |-> zscore(db[k], e)]
\* zuiLength
zuiLength(k) == IF db[k] = None THEN 0
                ELSE IF db[k].enc = "set" THEN Cardinality(db[k].els) ELSE zsetLength(db[k])

NotNaN(x) == IF x = NaN THEN 0 ELSE x
\* A comparison with NaN is false.
zunionInterAggregate(a, b, how) ==
    CASE how = "sum" -> IF NaN \in {a, b} THEN 0 ELSE NotNaN(Plus(a, b))
      [] how = "min" -> IF b # NaN /\ b < a THEN b ELSE a
      [] how = "max" -> IF b # NaN /\ b > a THEN b ELSE a

\* src: the sources, <<key, weight>>, in the order of their sizes.
Inter(src, how) ==
    LET common == {e \in DOMAIN SrcMap(src[1][1]) : \A j \in DOMAIN src : e \in DOMAIN SrcMap(src[j][1])}
        value(j, e) == Times(src[j][2], SrcMap(src[j][1])[e])
    IN  [e \in common |->
            FoldLeft(LAMBDA a, j : zunionInterAggregate(a, value(j, e), how),
                     NotNaN(value(1, e)), [i \in 1..(Len(src) - 1) |-> i + 1])]
Union(src, how) ==
    LET all == UNION {DOMAIN SrcMap(src[j][1]) : j \in DOMAIN src}
        has(e) == SelectSeq([j \in DOMAIN src |-> j], LAMBDA j : e \in DOMAIN SrcMap(src[j][1]))
        value(j, e) == NotNaN(Times(src[j][2], SrcMap(src[j][1])[e]))
    IN  [e \in all |-> FoldLeft(LAMBDA a, j : zunionInterAggregate(a, value(j, e), how),
                                value(has(e)[1], e), Tail(has(e)))]

\* The order of sources of one size is qsort's.
BySize(src) == \A i, j \in DOMAIN src : i < j => zuiLength(src[i][1]) <= zuiLength(src[j][1])

\* The result is built as a skip list, and becomes a ziplist when it is in limits.
Built(m, lv) ==
    FoldLeft(LAMBDA y, e : Skiplist(zslInsert(y.zsl, m[e], e, lv[e]), (e :> m[e]) @@ y.dict),
             Skiplist(zslCreate, <<>>), SetToSeq(DOMAIN m))
zunionInterGenericCommand(dst, op, src, how, lv) ==
    LET m == IF op = "inter" THEN Inter(src, how) ELSE Union(src, how)
        v == Built(m, lv)
        in == v.zsl.length <= MaxEntries /\ DOMAIN m \cap Long = {}
    IN  IF m = <<>> THEN Put(dst, None, <<>>, IF db[dst] = None THEN Quiet ELSE Said({dst}))
        ELSE Put(dst, IF in THEN ToZiplist(v) ELSE v, m, Said({dst}))
zstore(dst) ==
    \E n \in 1..MaxSources : \E src \in [1..n -> Keys \X Weights], op \in {"inter", "union"} :
    \E how \in {"sum", "min", "max"}, lv \in LevelChoices(Elems) :
        /\ BySize(src)
        /\ LET m == IF op = "inter" THEN Inter(src, how) ELSE Union(src, how)
           IN  \A e \in DOMAIN m : m[e] \in Scores \cup {NaN}
        /\ zunionInterGenericCommand(dst, op, src, how, lv)

-----------------------------------------------------------------------------
(* Commands that only read                                                   *)

\* zrangeGenericCommand: the skip list is entered at its ends or by rank.
zrange(v, a, b, rev) ==
    LET n == zsetLength(v)
        r == Sanitize(n, a, b)
        len == r[2] - r[1] + 1
        ln == IF rev THEN IF r[1] = 1 THEN v.zsl.tail ELSE zslGetElementByRank(v.zsl, n - (r[1] - 1))
              ELSE IF r[1] = 1 THEN v.zsl.node[Header].fwd[1] ELSE zslGetElementByRank(v.zsl, r[1])
    IN  IF len = 0 THEN <<>>
        ELSE IF v.enc = "ziplist"
        THEN [i \in 1..len |-> IF rev THEN v.zl[n - (r[1] - 1) - (i - 1)][1] ELSE v.zl[r[1] + i - 1][1]]
        ELSE SubSeq(IF rev THEN BackChain(v.zsl, ln) ELSE Chain(v.zsl, ln), 1, len)

\* The loops of ZRANGEBYSCORE and ZRANGEBYLEX over s: offset (a negative one runs off the
\* end), then at most limit (a negative one is none) for as long as they are in range.
Limited(s, off, lim, In(_)) ==
    LET t == IF off < 0 THEN <<>> ELSE SubSeq(s, off + 1, Len(s))
        p == Prefix(t, In)
    IN  IF lim < 0 THEN p ELSE SubSeq(p, 1, Min({lim, Len(p)}))
ZlFrom(zl, i, rev) ==
    IF i = 0 THEN <<>>
    ELSE IF rev THEN [j \in 1..i |-> zl[i - j + 1][1]] ELSE [j \in 1..(Len(zl) - i + 1) |-> zl[i + j - 1][1]]

genericZrangebyscoreCommand(v, r, off, lim, rev) ==
    LET s == IF v.enc = "ziplist"
             THEN ZlFrom(v.zl, IF rev THEN zzlLastInRange(v.zl, r) ELSE zzlFirstInRange(v.zl, r), rev)
             ELSE IF rev THEN BackChain(v.zsl, zslLastInRange(v.zsl, r))
             ELSE Chain(v.zsl, zslFirstInRange(v.zsl, r))
    IN  Limited(s, off, lim,
                LAMBDA e : IF rev THEN ValueGteMin(zscore(v, e), r) ELSE ValueLteMax(zscore(v, e), r))
genericZrangebylexCommand(v, r, off, lim, rev) ==
    LET s == IF v.enc = "ziplist"
             THEN ZlFrom(v.zl, IF rev THEN zzlLastInLexRange(v.zl, r) ELSE zzlFirstInLexRange(v.zl, r), rev)
             ELSE IF rev THEN BackChain(v.zsl, zslLastInLexRange(v.zsl, r))
             ELSE Chain(v.zsl, zslFirstInLexRange(v.zsl, r))
    IN  Limited(s, off, lim, LAMBDA e : IF rev THEN LexValueGteMin(e, r) ELSE LexValueLteMax(e, r))

\* ZCOUNT and ZLEXCOUNT: by counting, or by the ranks of the first and the last.
CountBetween(z, f, l) ==
    IF f = Nil THEN 0
    ELSE LET n == z.length - (zslGetRank(z, z.node[f].score, f) - 1)
         IN  IF l = Nil THEN n ELSE n - (z.length - zslGetRank(z, z.node[l].score, l))
zcountCommand(v, r) ==
    IF v.enc = "ziplist"
    THEN LET f == zzlFirstInRange(v.zl, r)
         IN  IF f = 0 THEN 0 ELSE Len(Prefix(From(v.zl, f), LAMBDA p : ValueLteMax(p[2], r)))
    ELSE CountBetween(v.zsl, zslFirstInRange(v.zsl, r), zslLastInRange(v.zsl, r))
zlexcountCommand(v, r) ==
    IF v.enc = "ziplist"
    THEN LET f == zzlFirstInLexRange(v.zl, r)
         IN  IF f = 0 THEN 0 ELSE Len(Prefix(From(v.zl, f), LAMBDA p : LexValueLteMax(p[1], r)))
    ELSE CountBetween(v.zsl, zslFirstInLexRange(v.zsl, r), zslLastInLexRange(v.zsl, r))

\* zrankGenericCommand, for an element that is there.
zrank(v, e, rev) ==
    LET rank == IF v.enc = "ziplist" THEN Min(Pos(v.zl, e)) ELSE zslGetRank(v.zsl, v.dict[e], e)
    IN  IF rev THEN zsetLength(v) - rank ELSE rank - 1

-----------------------------------------------------------------------------
\* A key of type set, by the commands of sets; and a deletion.
SetOther(k) ==
    /\ db[k] = None
    /\ \E S \in SUBSET Elems \ {{}} : Put(k, [enc |-> "set", els |-> S], <<>>, Said({k}))
Del(k) == db[k].enc = "set" /\ Put(k, None, <<>>, Said({k}))

Init == db = [k \in Keys |-> None] /\ ref = [k \in Keys |-> <<>>] /\ last = Quiet

Next ==
    \E k \in Keys :
        \/ zadd(k)
        \/ zaddNoPairs(k)
        \/ zrem(k)
        \/ zremrangebyrankCommand(k)
        \/ zremrangebyscoreCommand(k)
        \/ zremrangebylexCommand(k)
        \/ zstore(k)
        \/ SetOther(k)
        \/ Del(k)

Spec == Init /\ [][Next]_vars

-----------------------------------------------------------------------------
Zsets == {k \in Keys : IsZset(db[k])}

\* Every key has a value of a known form, with elements and scores of the instance.
TypeOK ==
    \A k \in Keys :
        /\ db[k].enc \in {"none", "set", "ziplist", "skiplist"}
        /\ IsZset(db[k]) => /\ ElemsOf(db[k]) \subseteq Elems
                            /\ \A e \in ElemsOf(db[k]) : zscore(db[k], e) \in Scores

\* The skip list stays a skip list, and it and the dict hold the same: after any
\* commands and for any levels drawn, every pointer on every level leads to the next
\* node of that level, and every span is the number of nodes it skips.
Structure == \A k \in Zsets : db[k].enc = "skiplist" => SkipListSound(db[k].zsl, db[k].dict)

\* Whatever its encoding, a sorted set holds what its commands have put there: inserts,
\* updates, range deletions with one update array, conversions and stores included.
Contents ==
    \A k \in Keys :
        IF IsZset(db[k])
        THEN /\ ElemsOf(db[k]) = DOMAIN ref[k]
             /\ \A e \in ElemsOf(db[k]) : zscore(db[k], e) = ref[k][e]
             /\ db[k].enc = "ziplist" => [i \in 1..Len(db[k].zl) |-> db[k].zl[i][1]] = Sorted(ref[k])
        ELSE ref[k] = <<>>

\* A key never holds an empty sorted set ("we know it has at least one element",
\* t_zset.c:1321; the assertion of zrankGenericCommand, t_zset.c:2858).
NoEmptyKey == \A k \in Zsets : zsetLength(db[k]) > 0

\* A ziplist stays within its limits, whichever command made it.
WithinLimits ==
    \A k \in Zsets : db[k].enc = "ziplist" => Len(db[k].zl) <= MaxEntries /\ ElemsOf(db[k]) \cap Long = {}

\* A command that changes a key counts as a change (it reaches replicas and the AOF
\* file) and signals the key to those who watch it.
Propagated ==
    \A k \in Keys : (ref'[k] # ref[k] \/ (db'[k] = None) # (db[k] = None))
                       => last'.dirty /\ k \in last'.touched

Offsets == -1..2
Slice(s, off, lim) ==
    IF off < 0 THEN <<>>
    ELSE SubSeq(s, off + 1, IF lim < 0 THEN Len(s) ELSE Min({Len(s), off + lim}))
\* Reads answer by the order of the map, forwards and backwards, whichever encoding they
\* work on: ranks, ranges of ranks, ...
RankQueries ==
    \A k \in Zsets :
        LET s == Sorted(ref[k])
            n == Len(s)
        IN  /\ \A i \in 1..n : zrank(db[k], s[i], FALSE) = i - 1 /\ zrank(db[k], s[i], TRUE) = n - i
            /\ \A a, b \in Ranks :
                  LET r == Sanitize(n, a, b)
                  IN  /\ zrange(db[k], a, b, FALSE) = SubSeq(s, r[1], r[2])
                      /\ zrange(db[k], a, b, TRUE) = SubSeq(Reverse(s), r[1], r[2])

\* ... ranges of scores with their limits, and their counts, ...
ScoreQueries ==
    \A k \in Zsets : \A r \in ScoreRanges :
        LET s == SelectSeq(Sorted(ref[k]), LAMBDA e : ValueGteMin(ref[k][e], r) /\ ValueLteMax(ref[k][e], r))
        IN  /\ zcountCommand(db[k], r) = Len(s)
            /\ \A off, lim \in Offsets :
                  /\ genericZrangebyscoreCommand(db[k], r, off, lim, FALSE) = Slice(s, off, lim)
                  /\ genericZrangebyscoreCommand(db[k], r, off, lim, TRUE) = Slice(Reverse(s), off, lim)

\* ... and ranges of elements, where all have one score.
LexQueries ==
    \A k \in Zsets : Cardinality({ref[k][e] : e \in DOMAIN ref[k]}) = 1 => \A r \in LexRanges :
        LET s == SelectSeq(Sorted(ref[k]), LAMBDA e : LexValueGteMin(e, r) /\ LexValueLteMax(e, r))
        IN  /\ zlexcountCommand(db[k], r) = Len(s)
            /\ \A off, lim \in Offsets :
                  /\ genericZrangebylexCommand(db[k], r, off, lim, FALSE) = Slice(s, off, lim)
                  /\ genericZrangebylexCommand(db[k], r, off, lim, TRUE) = Slice(Reverse(s), off, lim)
=============================================================================
