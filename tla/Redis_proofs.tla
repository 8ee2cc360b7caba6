----------------------------- MODULE Redis_proofs -----------------------------
(***************************************************************************)
(* Theorems about the Redis server, for every value of the constants: about  *)
(* ScriptCache, then about RdbSave (R), ScriptRun (U), Transactions (T), Aof *)
(* (A) and Eviction (V), for any number of clients, keys, commands, replicas, *)
(* failures and crashes.                                                    *)
(***************************************************************************)
EXTENDS ScriptCache, FiniteSetTheorems, SequenceTheorems, WellFoundedInduction, TLAPS

CONSTANTS Changes, Seconds, RetryDelay, Events, MaxWrites, MaxAge, MaxFaults
VARIABLES data, writes, file, dirty, before, child, last, faults, run, sent
R == INSTANCE RdbSave

-----------------------------------------------------------------------------
(* Scripts: what replicas and the append only file are sent                 *)

Cmd == ({"eval", "evalsha", "load"} \X Scripts) \cup {<<"flush">>}

ScriptTyped ==
    /\ lua_scripts \subseteq Scripts /\ fifo \in Seq(lua_scripts) /\ Len(fifo) <= repl_scriptcache_size
    /\ IsInjective(fifo)
    /\ replstate \in [Replicas -> {"none", "wait", "bgsave", "online", "gone"}]
    /\ link \in [Replicas -> Seq(Cmd)] /\ known \in [Replicas -> SUBSET Scripts]
    /\ aof \in [on : BOOLEAN, log : Seq(Cmd), rewriting : BOOLEAN, buf : Seq(Cmd)]

KnownAfter(k, cmds, s) == KnownBefore(k, cmds, Len(cmds) + 1, s)
\* Commands that can be run from the scripts k and after which those of S are known.
Serves(k, cmds, S) == Replays(k, cmds) /\ \A s \in S : KnownAfter(k, cmds, s)
Cached == ToSet(fifo)

FileServed ==
    /\ aof.on => Serves({}, aof.log, Cached)
    /\ aof.rewriting => Serves({}, aof.buf, Cached)
ReplicasServed ==
    \A r \in Replicas :
        /\ replstate[r] = "bgsave" => Serves({}, link[r], Cached)
        /\ replstate[r] \in {"online", "gone"} => Serves(known[r], link[r], Cached)

-----------------------------------------------------------------------------
(* Sequences of commands                                                    *)

LEMMA CommandIsFlush == 
    ASSUME NEW c \in Cmd
    PROVE  /\ c[1] # "flush" => c[1] \in {"eval", "evalsha", "load"} /\ c[2] \in Scripts
           /\ \A s : Tells(c, s) => c[1] # "flush"
<1>1. ASSUME NEW s, Tells(c, s) PROVE c[1] # "flush"
  BY <1>1 DEF Tells
<1>2. CASE c = <<"flush">>
  BY <1>1, <1>2
<1>3. CASE c \in {"eval", "evalsha", "load"} \X Scripts
  <2>1. c[1] \in {"eval", "evalsha", "load"} /\ c[2] \in Scripts
    BY <1>3
  <2> QED BY <1>1, <2>1
<1> QED BY <1>2, <1>3 DEF Cmd

\* What was known before a command is known as well when others follow it.
LEMMA KnownPrefix ==
    ASSUME NEW c \in Seq(Cmd), NEW x \in Cmd, NEW k, NEW s, NEW i \in 1..(Len(c) + 1)
    PROVE  KnownBefore(k, Append(c, x), i, s) <=> KnownBefore(k, c, i, s)
<1>1. \A j \in 1..(i - 1) : Append(c, x)[j] = c[j]
  OBVIOUS
<1> QED BY <1>1 DEF KnownBefore

LEMMA KnownAppend ==
    ASSUME NEW c \in Seq(Cmd), NEW x \in Cmd, NEW k, NEW s
    PROVE  KnownAfter(k, Append(c, x), s) <=> (KnownAfter(k, c, s) /\ x[1] # "flush") \/ Tells(x, s)
<1> DEFINE n == Len(c)
<1>1. /\ n \in Nat /\ Len(Append(c, x)) = n + 1 /\ Append(c, x)[n + 1] = x
      /\ \A j \in 1..n : Append(c, x)[j] = c[j]
  OBVIOUS
<1>2. Tells(x, s) => x[1] # "flush"
  BY CommandIsFlush
<1> QED BY <1>1, <1>2 DEF KnownAfter, KnownBefore

LEMMA ReplaysAppend ==
    ASSUME NEW c \in Seq(Cmd), NEW x \in Cmd, NEW k,
           Replays(k, c), x[1] = "evalsha" => KnownAfter(k, c, x[2])
    PROVE  Replays(k, Append(c, x))
<1> DEFINE n == Len(c)
<1>1. /\ n \in Nat /\ Len(Append(c, x)) = n + 1 /\ Append(c, x)[n + 1] = x
      /\ \A j \in 1..n : Append(c, x)[j] = c[j]
  OBVIOUS
<1> SUFFICES ASSUME NEW i \in 1..(n + 1), Append(c, x)[i][1] = "evalsha"
             PROVE  KnownBefore(k, Append(c, x), i, Append(c, x)[i][2])
  BY <1>1 DEF Replays
<1>2. CASE i = n + 1
  BY <1>1, <1>2, KnownPrefix DEF KnownAfter
<1>3. CASE i # n + 1
  <2>1. i \in 1..n /\ Append(c, x)[i] = c[i]
    BY <1>1, <1>3
  <2>2. KnownBefore(k, c, i, c[i][2])
    BY <2>1 DEF Replays
  <2> QED BY <2>1, <2>2, KnownPrefix
<1> QED BY <1>2, <1>3

LEMMA KnownEmpty ==
    ASSUME NEW k
    PROVE  Replays(k, <<>>) /\ \A s : KnownAfter(k, <<>>, s) <=> s \in k
  BY DEF Replays, KnownAfter, KnownBefore

\* More scripts at the start do no harm.
LEMMA MoreKnown ==
    ASSUME NEW c \in Seq(Cmd), NEW k, NEW k2, k \subseteq k2
    PROVE  /\ Replays(k, c) => Replays(k2, c)
           /\ \A s : KnownAfter(k, c, s) => KnownAfter(k2, c, s)
  BY DEF Replays, KnownAfter, KnownBefore

\* Running the first command.
LEMMA KnownTail ==
    ASSUME NEW c \in Seq(Cmd), c # <<>>, NEW k \in SUBSET Scripts, NEW s \in Scripts, NEW i \in 1..Len(c)
    PROVE  KnownBefore(Knows(k, Head(c)), Tail(c), i, s) <=> KnownBefore(k, c, i + 1, s)
<1>1. /\ Len(c) \in Nat \ {0} /\ Head(c) = c[1] /\ c[1] \in Cmd
      /\ Len(Tail(c)) = Len(c) - 1 /\ \A j \in 1..(Len(c) - 1) : Tail(c)[j] = c[j + 1]
  OBVIOUS
<1>2. s \in Knows(k, c[1]) <=> (s \in k /\ c[1][1] # "flush") \/ Tells(c[1], s)
  <2>1. CASE c[1][1] = "flush"
    BY <2>1 DEF Knows, Tells
  <2>2. CASE c[1][1] # "flush"
    BY <1>1, <2>2, CommandIsFlush DEF Knows, Tells
  <2> QED BY <2>1, <2>2
<1>3. Tells(c[1], s) => c[1][1] # "flush"
  BY <1>1, CommandIsFlush
<1>4. (\A f \in 1..i : c[f][1] # "flush") <=> c[1][1] # "flush" /\ \A f \in 1..(i - 1) : Tail(c)[f][1] # "flush"
  <2>1. ASSUME \A f \in 1..(i - 1) : Tail(c)[f][1] # "flush", c[1][1] # "flush", NEW f \in 1..i
        PROVE  c[f][1] # "flush"
    <3>1. f = 1 \/ (f - 1 \in 1..(i - 1) /\ c[f] = Tail(c)[f - 1])
      BY <1>1
    <3> QED BY <2>1, <3>1
  <2>2. ASSUME \A f \in 1..i : c[f][1] # "flush", NEW f \in 1..(i - 1) PROVE Tail(c)[f][1] # "flush"
    BY <1>1, <2>2
  <2> QED BY <2>1, <2>2, <1>1
<1>5. ASSUME NEW j \in 1..(i - 1)
      PROVE  (\A f \in (j + 1)..i : c[f][1] # "flush") <=> \A f \in j..(i - 1) : Tail(c)[f][1] # "flush"
  <2>1. ASSUME \A f \in j..(i - 1) : Tail(c)[f][1] # "flush", NEW f \in (j + 1)..i PROVE c[f][1] # "flush"
    <3>1. f - 1 \in j..(i - 1) /\ c[f] = Tail(c)[f - 1]
      BY <1>1
    <3> QED BY <2>1, <3>1
  <2>2. ASSUME \A f \in (j + 1)..i : c[f][1] # "flush", NEW f \in j..(i - 1) PROVE Tail(c)[f][1] # "flush"
    BY <1>1, <2>2
  <2> QED BY <2>1, <2>2
<1>6. ASSUME KnownBefore(Knows(k, Head(c)), Tail(c), i, s) PROVE KnownBefore(k, c, i + 1, s)
  <2>1. CASE s \in Knows(k, c[1]) /\ \A f \in 1..(i - 1) : Tail(c)[f][1] # "flush"
    BY <1>1, <1>2, <1>3, <1>4, <2>1 DEF KnownBefore
  <2>2. ASSUME NEW j \in 1..(i - 1), Tells(Tail(c)[j], s), \A f \in j..(i - 1) : Tail(c)[f][1] # "flush"
        PROVE  KnownBefore(k, c, i + 1, s)
    <3>1. j + 1 \in 1..i /\ Tells(c[j + 1], s) /\ \A f \in (j + 1)..i : c[f][1] # "flush"
      BY <1>1, <1>5, <2>2
    <3> QED BY <3>1 DEF KnownBefore
  <2> QED BY <1>1, <1>6, <2>1, <2>2 DEF KnownBefore
<1>7. ASSUME KnownBefore(k, c, i + 1, s) PROVE KnownBefore(Knows(k, Head(c)), Tail(c), i, s)
  <2>1. CASE s \in k /\ \A f \in 1..i : c[f][1] # "flush"
    BY <1>1, <1>2, <1>4, <2>1 DEF KnownBefore
  <2>2. ASSUME NEW j \in 1..i, Tells(c[j], s), \A f \in j..i : c[f][1] # "flush"
        PROVE  KnownBefore(Knows(k, Head(c)), Tail(c), i, s)
    <3>1. CASE j = 1
      BY <1>1, <1>2, <1>4, <2>2, <3>1 DEF KnownBefore
    <3>2. CASE j # 1
      <4>1. j - 1 \in 1..(i - 1) /\ Tells(Tail(c)[j - 1], s)
        BY <1>1, <2>2, <3>2
      <4>2. \A f \in (j - 1)..(i - 1) : Tail(c)[f][1] # "flush"
        BY <1>5, <2>2, <4>1
      <4> QED BY <4>1, <4>2 DEF KnownBefore
    <3> QED BY <3>1, <3>2
  <2> QED BY <1>7, <2>1, <2>2 DEF KnownBefore
<1> QED BY <1>6, <1>7

-----------------------------------------------------------------------------
(* What serves a replica or the file                                        *)

LEMMA ServesNothing == \A k : Serves(k, <<>>, {})
  BY KnownEmpty DEF Serves

LEMMA ServesLess ==
    ASSUME NEW c \in Seq(Cmd), NEW k, NEW k2, k \subseteq k2, NEW S, NEW S2, S2 \subseteq S, Serves(k, c, S)
    PROVE  Serves(k2, c, S2)
  BY MoreKnown DEF Serves

LEMMA ServesAppend ==
    ASSUME NEW c \in Seq(Cmd), NEW x \in Cmd, NEW k, NEW S, NEW S2, Serves(k, c, S),
           x[1] = "evalsha" => x[2] \in S,
           x[1] = "flush" => S2 = {},
           \A s \in S2 : s \in S \/ Tells(x, s)
    PROVE  Serves(k, Append(c, x), S2)
<1>1. Replays(k, Append(c, x))
  BY ReplaysAppend DEF Serves
<1>2. \A s \in S2 : KnownAfter(k, Append(c, x), s)
  BY KnownAppend DEF Serves
<1> QED BY <1>1, <1>2 DEF Serves

LEMMA ServesTail ==
    ASSUME NEW c \in Seq(Cmd), c # <<>>, NEW k \in SUBSET Scripts, NEW S \in SUBSET Scripts, Serves(k, c, S)
    PROVE  Serves(Knows(k, Head(c)), Tail(c), S) /\ Knows(k, Head(c)) \in SUBSET Scripts
<1>1. /\ Len(c) \in Nat \ {0} /\ Head(c) = c[1] /\ c[1] \in Cmd
      /\ Len(Tail(c)) = Len(c) - 1
      /\ \A j \in 1..(Len(c) - 1) : Tail(c)[j] = c[j + 1] /\ c[j + 1] \in Cmd
  OBVIOUS
<1>2. \A s \in S : KnownAfter(Knows(k, Head(c)), Tail(c), s)
  BY <1>1, KnownTail DEF Serves, KnownAfter
<1>3. ASSUME NEW i \in 1..Len(Tail(c)), Tail(c)[i][1] = "evalsha"
      PROVE  KnownBefore(Knows(k, Head(c)), Tail(c), i, Tail(c)[i][2])
  <2>1. i \in 1..Len(c) /\ i + 1 \in 1..Len(c) /\ Tail(c)[i] = c[i + 1] /\ c[i + 1] \in Cmd
    BY <1>1
  <2>2. c[i + 1][2] \in Scripts
    BY <1>3, <2>1, CommandIsFlush
  <2>3. KnownBefore(k, c, i + 1, c[i + 1][2])
    BY <1>3, <2>1 DEF Serves, Replays
  <2> QED BY <2>1, <2>2, <2>3, KnownTail
<1>4. Knows(k, Head(c)) \in SUBSET Scripts
  <2>1. c[1][1] = "flush" \/ c[1][2] \in Scripts
    BY <1>1, CommandIsFlush
  <2> QED BY <1>1, <2>1 DEF Knows
<1> QED BY <1>2, <1>3, <1>4 DEF Serves, Replays

-----------------------------------------------------------------------------
(* Steps                                                                    *)

\* A command that is propagated serves the cache as it will be.
LEMMA PropagateStep ==
    ASSUME ScriptTyped, NEW x \in Cmd, propagate(x), UNCHANGED <<replstate, known>>,
           x[1] = "evalsha" => x[2] \in Cached,
           x[1] = "flush" => Cached' = {},
           \A s \in Cached' : s \in Cached \/ Tells(x, s)
    PROVE  /\ FileServed => FileServed'
           /\ ReplicasServed => ReplicasServed'
           /\ link' \in [Replicas -> Seq(Cmd)]
           /\ aof' \in [on : BOOLEAN, log : Seq(Cmd), rewriting : BOOLEAN, buf : Seq(Cmd)]
<1> DEFINE log == IF aof.on THEN Append(aof.log, x) ELSE aof.log
           buf == IF aof.rewriting THEN Append(aof.buf, x) ELSE aof.buf
           logged == [aof EXCEPT !.log = log]
<1>1. log \in Seq(Cmd) /\ buf \in Seq(Cmd)
  BY DEF ScriptTyped
<1>2. aof' = [logged EXCEPT !.buf = buf]
  BY DEF propagate
<1> HIDE DEF log, buf
<1>3. /\ aof'.on = aof.on /\ aof'.rewriting = aof.rewriting /\ aof'.log = log /\ aof'.buf = buf
      /\ aof' \in [on : BOOLEAN, log : Seq(Cmd), rewriting : BOOLEAN, buf : Seq(Cmd)]
  <2>1. /\ logged \in [on : BOOLEAN, log : Seq(Cmd), rewriting : BOOLEAN, buf : Seq(Cmd)]
        /\ logged.on = aof.on /\ logged.rewriting = aof.rewriting /\ logged.log = log
    BY <1>1 DEF ScriptTyped
  <2> HIDE DEF logged
  <2> QED BY <1>1, <1>2, <2>1
<1>4. FileServed => FileServed'
  BY <1>3, ServesAppend DEF FileServed, ScriptTyped, log, buf
<1>5. \A r \in Replicas : link'[r] = IF r \in Fed THEN Append(link[r], x) ELSE link[r]
  BY DEF propagate
<1>6. link' \in [Replicas -> Seq(Cmd)]
  <2>1. \A r \in Replicas : Append(link[r], x) \in Seq(Cmd)
    BY DEF ScriptTyped
  <2> QED BY <2>1 DEF propagate, ScriptTyped
<1>7. ASSUME ReplicasServed PROVE ReplicasServed'
  <2> SUFFICES ASSUME NEW r \in Replicas
               PROVE  /\ replstate'[r] = "bgsave" => Serves({}, link'[r], Cached')
                      /\ replstate'[r] \in {"online", "gone"} => Serves(known'[r], link'[r], Cached')
    BY DEF ReplicasServed
  <2>1. link[r] \in Seq(Cmd)
    BY DEF ScriptTyped
  <2>2. replstate[r] \in {"bgsave", "online", "gone"} => link'[r] = Append(link[r], x)
    BY <1>5 DEF Fed
  <2> QED BY <1>7, <2>1, <2>2, ServesAppend DEF ReplicasServed
<1> QED BY <1>3, <1>4, <1>6, <1>7

\* The newest entry takes the place of the oldest one when the cache is full.
LEMMA CacheAdd ==
    ASSUME ScriptTyped, ScriptCacheAssumption, NEW s \in lua_scripts, s \notin Cached
    PROVE  /\ replicationScriptCacheAdd(s) \in Seq(lua_scripts)
           /\ Len(replicationScriptCacheAdd(s)) <= repl_scriptcache_size
           /\ IsInjective(replicationScriptCacheAdd(s))
           /\ \A t \in ToSet(replicationScriptCacheAdd(s)) : t \in Cached \/ t = s
<1> DEFINE kept == IF Len(fifo) = repl_scriptcache_size THEN Front(fifo) ELSE fifo
           new == replicationScriptCacheAdd(s)
<1>0. fifo \in Seq(lua_scripts) /\ Len(fifo) \in Nat /\ Len(fifo) <= repl_scriptcache_size
      /\ repl_scriptcache_size \in Nat \ {0}
  BY DEF ScriptTyped, ScriptCacheAssumption
<1>1. /\ kept \in Seq(lua_scripts) /\ Len(kept) \in Nat /\ Len(kept) < repl_scriptcache_size
      /\ Len(kept) <= Len(fifo) /\ \A i \in 1..Len(kept) : kept[i] = fifo[i]
  <2>1. CASE Len(fifo) = repl_scriptcache_size
    <3>1. Front(fifo) \in Seq(lua_scripts) /\ Len(Front(fifo)) = Len(fifo) - 1
          /\ \A i \in 1..(Len(fifo) - 1) : Front(fifo)[i] = fifo[i]
      BY <1>0, <2>1 DEF Front
    <3> QED BY <1>0, <2>1, <3>1
  <2>2. CASE Len(fifo) # repl_scriptcache_size
    BY <1>0, <2>2
  <2> QED BY <2>1, <2>2
<1>2. new = <<s>> \o kept
  BY DEF replicationScriptCacheAdd
<1> HIDE DEF kept
<1>3. /\ new \in Seq(lua_scripts) /\ Len(new) = Len(kept) + 1 /\ new[1] = s
      /\ \A i \in 2..Len(new) : new[i] = kept[i - 1]
  BY <1>1, <1>2
<1> HIDE DEF new
<1>4. \A i \in 2..Len(new) : i - 1 \in 1..Len(fifo) /\ new[i] = fifo[i - 1]
  BY <1>0, <1>1, <1>3
<1>5. \A i \in 1..Len(fifo) : fifo[i] \in Cached
  BY <1>0 DEF Cached, ToSet
<1>6. IsInjective(new)
  <2>1. \A i, j \in 1..Len(fifo) : fifo[i] = fifo[j] => i = j
    BY <1>0 DEF ScriptTyped, IsInjective
  <2> SUFFICES ASSUME NEW i \in 1..Len(new), NEW j \in 1..Len(new), new[i] = new[j] PROVE i = j
    BY <1>3 DEF IsInjective
  <2>2. CASE i = 1 /\ j = 1
    BY <2>2
  <2>3. CASE i = 1 /\ j # 1
    BY <1>1, <1>3, <1>4, <1>5, <2>3
  <2>4. CASE i # 1 /\ j = 1
    BY <1>1, <1>3, <1>4, <1>5, <2>4
  <2>5. CASE i # 1 /\ j # 1
    <3>1. i - 1 \in 1..Len(fifo) /\ j - 1 \in 1..Len(fifo) /\ fifo[i - 1] = fifo[j - 1]
      BY <1>1, <1>3, <1>4, <2>5
    <3>2. i - 1 = j - 1
      BY <2>1, <3>1
    <3> QED BY <1>1, <1>3, <3>2
  <2> QED BY <2>2, <2>3, <2>4, <2>5
<1>7. \A t \in ToSet(new) : t \in Cached \/ t = s
  <2> SUFFICES ASSUME NEW i \in 1..Len(new) PROVE new[i] \in Cached \/ new[i] = s
    BY <1>3 DEF ToSet
  <2> QED BY <1>1, <1>3, <1>4, <1>5
<1> QED BY <1>0, <1>1, <1>3, <1>6, <1>7 DEF new

-----------------------------------------------------------------------------

LEMMA CachedAre == ScriptTyped => Cached \subseteq lua_scripts /\ Cached \subseteq Scripts
  BY DEF ScriptTyped, Cached, ToSet

LEMMA ScriptStep ==
    ASSUME ScriptCacheAssumption, ScriptTyped, Next
    PROVE  ScriptTyped' /\ (FileServed => FileServed') /\ (ReplicasServed /\ ~ClientFlush => ReplicasServed')
<1> DEFINE Holds == ScriptTyped' /\ (FileServed => FileServed') /\ (ReplicasServed /\ ~ClientFlush => ReplicasServed')
<1>a. replicationScriptCacheFlush \in Seq({}) /\ Len(replicationScriptCacheFlush) = 0
      /\ ToSet(replicationScriptCacheFlush) = {} /\ IsInjective(replicationScriptCacheFlush)
  BY DEF replicationScriptCacheFlush, ToSet, IsInjective
<1>b. repl_scriptcache_size \in Nat
  BY DEF ScriptCacheAssumption
<1>c. \A X : replicationScriptCacheFlush \in Seq(X)
  BY DEF replicationScriptCacheFlush
<1>d. \A k : Serves(k, <<>>, {})
  BY ServesNothing
\* A command that is not propagated and does not change the cache.
<1>1. ASSUME UNCHANGED <<fifo, replstate, known, link, aof>>, lua_scripts' \subseteq Scripts, lua_scripts \subseteq lua_scripts'
      PROVE  Holds
  <2>1. fifo \in Seq(lua_scripts')
    BY <1>1 DEF ScriptTyped
  <2> QED BY <1>1, <2>1 DEF ScriptTyped, FileServed, ReplicasServed, Cached
<1>2. ASSUME NEW s \in Scripts, NEW x \in {<<"eval", s>>, <<"load", s>>}, propagate(x),
             lua_scripts' = lua_scripts \cup {s}, UNCHANGED <<fifo, replstate, known>>
      PROVE  Holds
  <2>1. x \in Cmd /\ x[1] # "evalsha" /\ x[1] # "flush" /\ Cached' = Cached
    BY <1>2 DEF Cmd, Cached
  <2>2. fifo \in Seq(lua_scripts')
    BY <1>2 DEF ScriptTyped
  <2> QED BY <1>2, <2>1, <2>2, PropagateStep DEF ScriptTyped
<1>3. ASSUME NEW s \in Scripts, NEW d \in BOOLEAN, evalCommand(s, d) PROVE Holds
  BY <1>1, <1>2, <1>3 DEF evalCommand, NotPropagated, ScriptTyped
<1>4. ASSUME NEW s \in Scripts, scriptLoad(s) PROVE Holds
  BY <1>2, <1>4 DEF scriptLoad
<1>5. ASSUME NEW s \in Scripts, NEW d \in BOOLEAN, evalShaCommand(s, d) PROVE Holds
  <2>1. CASE s \in Cached /\ ~d
    BY <1>1, <1>5, <2>1 DEF evalShaCommand, replicationScriptCacheExists, NotPropagated, Cached, ScriptTyped
  <2>2. CASE s \in Cached /\ d
    <3>1. propagate(<<"evalsha", s>>) /\ UNCHANGED <<lua_scripts, fifo, replstate, known>>
      BY <1>5, <2>2 DEF evalShaCommand, replicationScriptCacheExists, Cached
    <3>2. <<"evalsha", s>> \in Cmd /\ Cached' = Cached
      BY <3>1 DEF Cmd, Cached
    <3> QED BY <2>2, <3>1, <3>2, PropagateStep DEF ScriptTyped
  <2>3. CASE s \notin Cached
    <3>1. /\ propagate(<<"eval", s>>) /\ UNCHANGED <<lua_scripts, replstate, known>>
          /\ s \in lua_scripts /\ fifo' = replicationScriptCacheAdd(s)
      BY <1>5, <2>3 DEF evalShaCommand, replicationScriptCacheExists, Cached
    <3>2. /\ fifo' \in Seq(lua_scripts) /\ Len(fifo') <= repl_scriptcache_size /\ IsInjective(fifo')
          /\ \A t \in Cached' : t \in Cached \/ t = s
      BY <2>3, <3>1, CacheAdd DEF Cached
    <3>3. <<"eval", s>> \in Cmd /\ Tells(<<"eval", s>>, s)
      BY DEF Cmd, Tells
    <3> QED BY <3>1, <3>2, <3>3, PropagateStep DEF ScriptTyped
  <2> QED BY <2>1, <2>2, <2>3
<1>6. CASE scriptFlush
  <2>1. <<"flush">> \in Cmd /\ Cached' = {}
    BY <1>6, <1>a DEF scriptFlush, Cmd, Cached
  <2> QED BY <1>6, <1>a, <1>b, <1>c, <2>1, PropagateStep DEF scriptFlush, ScriptTyped
\* The cache becomes empty, and what is sent does not change.
<1>7. ASSUME fifo' = replicationScriptCacheFlush
      PROVE  Cached' = {} /\ Cached' \subseteq Cached /\ fifo' \in Seq(lua_scripts)
             /\ Len(fifo') <= repl_scriptcache_size /\ IsInjective(fifo')
  BY <1>7, <1>a, <1>b, <1>c DEF Cached
<1>8. ASSUME ReplicasServed, NEW r \in Replicas, Cached' \subseteq Cached, link'[r] = link[r], known'[r] = known[r],
             \/ replstate'[r] = replstate[r] \/ replstate'[r] \in {"none", "wait"}
             \/ replstate[r] \in {"bgsave", "online", "gone"} /\ replstate'[r] \in {"online", "gone"}
      PROVE  /\ replstate'[r] = "bgsave" => Serves({}, link'[r], Cached')
             /\ replstate'[r] \in {"online", "gone"} => Serves(known'[r], link'[r], Cached')
  BY <1>8, ServesLess DEF ReplicasServed, ScriptTyped
<1>9. ASSUME UNCHANGED aof, FileServed, Cached' \subseteq Cached PROVE FileServed'
  BY <1>9, ServesLess DEF FileServed, ScriptTyped
<1>10. CASE startBgsaveForReplication
  <2>1. /\ Cached' = {} /\ Cached' \subseteq Cached /\ UNCHANGED <<lua_scripts, known, aof>>
        /\ \A r \in Replicas : replstate'[r] = IF replstate[r] = "wait" THEN "bgsave" ELSE replstate[r]
        /\ \A r \in Replicas : link'[r] = IF replstate[r] = "wait" THEN <<>> ELSE link[r]
    BY <1>7, <1>10 DEF startBgsaveForReplication
  <2>2. ScriptTyped'
    BY <1>7, <1>10 DEF startBgsaveForReplication, ScriptTyped
  <2>3. ReplicasServed => ReplicasServed'
    BY <1>8, <1>d, <2>1 DEF ReplicasServed
  <2> QED BY <1>9, <2>1, <2>2, <2>3
<1>11. CASE updateSlavesWaitingBgsave
  <2>1. /\ Cached' = Cached /\ UNCHANGED <<lua_scripts, fifo, link, known, aof>>
        /\ \A r \in Replicas : replstate'[r] = IF replstate[r] = "bgsave" THEN "online" ELSE replstate[r]
    BY <1>11 DEF updateSlavesWaitingBgsave, Cached
  <2>2. ScriptTyped'
    BY <1>11 DEF updateSlavesWaitingBgsave, ScriptTyped
  <2>3. ReplicasServed => ReplicasServed'
    <3> SUFFICES ASSUME ReplicasServed, NEW r \in Replicas
                 PROVE  /\ replstate'[r] = "bgsave" => Serves({}, link'[r], Cached')
                        /\ replstate'[r] \in {"online", "gone"} => Serves(known'[r], link'[r], Cached')
      BY DEF ReplicasServed
    <3> QED BY <1>8, <2>1
  <2> QED BY <1>9, <2>1, <2>2, <2>3
<1>12. CASE replicationCron
  <2>1. UNCHANGED <<lua_scripts, replstate, link, known, aof>> /\ fifo' = replicationScriptCacheFlush
    BY <1>12 DEF replicationCron
  <2> QED BY <1>7, <1>8, <1>9, <2>1 DEF ScriptTyped, ReplicasServed
<1>13. ASSUME NEW r \in Replicas, syncCommand(r) PROVE Holds
  <2>0. UNCHANGED <<lua_scripts, fifo, known, aof>> /\ Cached' = Cached /\ replstate[r] = "none"
    BY <1>13 DEF syncCommand, Cached
  <2>1. CASE replstate' = [replstate EXCEPT ![r] = "wait"] /\ UNCHANGED link
    BY <1>8, <1>9, <2>0, <2>1 DEF ScriptTyped, ReplicasServed
  <2>2. ASSUME NEW q \in Replicas, replstate[q] = "bgsave", replstate' = [replstate EXCEPT ![r] = "bgsave"],
               link' = [link EXCEPT ![r] = link[q]]
        PROVE  Holds
    <3>1. ScriptTyped'
      BY <2>0, <2>2 DEF ScriptTyped
    <3>2. ASSUME ReplicasServed, NEW p \in Replicas
          PROVE  /\ replstate'[p] = "bgsave" => Serves({}, link'[p], Cached')
                 /\ replstate'[p] \in {"online", "gone"} => Serves(known'[p], link'[p], Cached')
      BY <2>0, <2>2, <3>2 DEF ReplicasServed, ScriptTyped
    <3> QED BY <1>9, <2>0, <3>1, <3>2 DEF ReplicasServed
  <2> QED BY <1>13, <2>1, <2>2 DEF syncCommand
<1>14. ASSUME NEW r \in Replicas, replicaRuns(r) PROVE Holds
  <2>0. UNCHANGED <<lua_scripts, fifo, replstate, aof>> /\ Cached' = Cached
        /\ replstate[r] = "online" /\ link[r] # <<>>
        /\ known' = [known EXCEPT ![r] = Knows(known[r], Head(link[r]))] /\ link' = [link EXCEPT ![r] = Tail(link[r])]
    BY <1>14 DEF replicaRuns, Cached
  <2>1. link[r] \in Seq(Cmd) /\ Tail(link[r]) \in Seq(Cmd) /\ known[r] \in SUBSET Scripts
    BY <2>0 DEF ScriptTyped
  <2>2. Knows(known[r], Head(link[r])) \in SUBSET Scripts
    <3>1. Serves(known[r], link[r], {}) => Knows(known[r], Head(link[r])) \in SUBSET Scripts
      BY <2>0, <2>1, ServesTail
    <3>2. Head(link[r]) \in Cmd
      BY <2>0, <2>1
    <3>3. Head(link[r])[1] # "flush" => Head(link[r])[2] \in Scripts
      BY <3>2, CommandIsFlush
    <3> QED BY <2>1, <3>3 DEF Knows
  <2>3. ScriptTyped'
    BY <2>0, <2>1, <2>2 DEF ScriptTyped
  <2>4. ASSUME ReplicasServed, NEW p \in Replicas
        PROVE  /\ replstate'[p] = "bgsave" => Serves({}, link'[p], Cached')
               /\ replstate'[p] \in {"online", "gone"} => Serves(known'[p], link'[p], Cached')
    <3>1. CASE p = r
      <4>1. Serves(known[r], link[r], Cached)
        BY <2>0, <2>4 DEF ReplicasServed
      <4>2. Serves(known'[r], link'[r], Cached)
        BY <2>0, <2>1, <4>1, ServesTail, CachedAre DEF ScriptTyped
      <4> QED BY <2>0, <3>1, <4>2
    <3>2. CASE p # r
      BY <2>0, <2>4, <3>2 DEF ReplicasServed, ScriptTyped
    <3> QED BY <3>1, <3>2
  <2> QED BY <1>9, <2>0, <2>3, <2>4 DEF ReplicasServed
<1>15. ASSUME NEW r \in Replicas, replicaGone(r) PROVE Holds
  <2>1. UNCHANGED <<lua_scripts, fifo, link, known, aof>> /\ replstate[r] = "online" /\ replstate' = [replstate EXCEPT ![r] = "gone"]
    BY <1>15 DEF replicaGone
  <2> QED BY <1>8, <1>9, <2>1 DEF ScriptTyped, ReplicasServed, Cached
<1>16. ASSUME NEW r \in Replicas, replicaBack(r) PROVE Holds
  <2>0. UNCHANGED <<lua_scripts, fifo, aof>> /\ Cached' = Cached /\ replstate[r] = "gone"
    BY <1>16 DEF replicaBack, Cached
  <2>1. CASE replstate' = [replstate EXCEPT ![r] = "online"] /\ UNCHANGED <<link, known>>
    BY <1>8, <1>9, <2>0, <2>1 DEF ScriptTyped, ReplicasServed
  <2>2. ASSUME NEW k \in {known[r], {}}, known' = [known EXCEPT ![r] = k],
               replstate' = [replstate EXCEPT ![r] = "none"], link' = [link EXCEPT ![r] = <<>>]
        PROVE  Holds
    <3>1. k \in SUBSET Scripts /\ <<>> \in Seq(Cmd)
      BY <2>2 DEF ScriptTyped
    <3>2. ScriptTyped'
      BY <2>0, <2>2, <3>1 DEF ScriptTyped
    <3>3. ReplicasServed => ReplicasServed'
      BY <2>0, <2>2 DEF ReplicasServed, ScriptTyped
    <3> QED BY <1>9, <2>0, <3>2, <3>3
  <2> QED BY <1>16, <2>1, <2>2 DEF replicaBack
<1>17. ASSUME NEW r \in Replicas, flushAtReplica(r) PROVE Holds
  <2>1. ClientFlush /\ known' = [known EXCEPT ![r] = {}] /\ UNCHANGED <<lua_scripts, fifo, replstate, link, aof>>
    BY <1>17 DEF flushAtReplica
  <2>2. ScriptTyped'
    BY <2>1 DEF ScriptTyped
  <2> QED BY <1>9, <2>1, <2>2 DEF Cached
\* The file
<1>18. ASSUME UNCHANGED <<lua_scripts, replstate, link, known>>, Cached' \subseteq Cached, ReplicasServed PROVE ReplicasServed'
  BY <1>8, <1>18 DEF ReplicasServed
<1>19. CASE rewriteAppendOnlyFileBackground
  <2>1. /\ aof' \in [on : BOOLEAN, log : Seq(Cmd), rewriting : BOOLEAN, buf : Seq(Cmd)]
        /\ aof'.on = aof.on /\ aof'.log = aof.log /\ aof'.buf = <<>>
    <3> DEFINE half == [aof EXCEPT !.rewriting = TRUE]
    <3>1. half \in [on : BOOLEAN, log : Seq(Cmd), rewriting : BOOLEAN, buf : Seq(Cmd)] /\ half.on = aof.on /\ half.log = aof.log
      BY DEF ScriptTyped
    <3>2. aof' = [half EXCEPT !.buf = <<>>] /\ <<>> \in Seq(Cmd)
      BY <1>19 DEF rewriteAppendOnlyFileBackground
    <3> HIDE DEF half
    <3> QED BY <3>1, <3>2
  <2>2. UNCHANGED <<lua_scripts, replstate, link, known>> /\ fifo' = replicationScriptCacheFlush
    BY <1>19 DEF rewriteAppendOnlyFileBackground
  <2>3. FileServed => FileServed'
    <3>1. Cached' = {} /\ aof.log \in Seq(Cmd) /\ {} \subseteq Cached
      BY <1>7, <2>2 DEF ScriptTyped
    <3>2. Serves({}, aof.log, Cached) => Serves({}, aof.log, {})
      BY <3>1, ServesLess
    <3> QED BY <1>d, <2>1, <3>1, <3>2 DEF FileServed
  <2> QED BY <1>7, <1>18, <2>1, <2>2, <2>3 DEF ScriptTyped
<1>20. ASSUME NEW ok \in BOOLEAN, backgroundRewriteDoneHandler(ok) PROVE Holds
  <2>1. UNCHANGED <<lua_scripts, fifo, replstate, link, known>> /\ Cached' = Cached /\ aof.rewriting
    BY <1>20 DEF backgroundRewriteDoneHandler, Cached
  <2>2. CASE ok
    <3>1. aof' = [on |-> TRUE, log |-> aof.buf, rewriting |-> FALSE, buf |-> <<>>]
      BY <1>20, <2>2 DEF backgroundRewriteDoneHandler
    <3>2. FileServed => FileServed'
      BY <2>1, <3>1 DEF FileServed
    <3> QED BY <1>18, <2>1, <3>1, <3>2 DEF ScriptTyped
  <2>3. CASE ~ok
    <3> DEFINE half == [aof EXCEPT !.rewriting = FALSE]
    <3>1. half \in [on : BOOLEAN, log : Seq(Cmd), rewriting : BOOLEAN, buf : Seq(Cmd)]
          /\ half.on = aof.on /\ half.log = aof.log /\ half.rewriting = FALSE
      BY DEF ScriptTyped
    <3>2. aof' = [half EXCEPT !.buf = <<>>] /\ <<>> \in Seq(Cmd)
      BY <1>20, <2>3 DEF backgroundRewriteDoneHandler
    <3> HIDE DEF half
    <3>3. /\ aof' \in [on : BOOLEAN, log : Seq(Cmd), rewriting : BOOLEAN, buf : Seq(Cmd)]
          /\ aof'.on = aof.on /\ aof'.log = aof.log /\ aof'.rewriting = FALSE
      BY <3>1, <3>2
    <3>4. FileServed => FileServed'
      BY <2>1, <3>3 DEF FileServed
    <3> QED BY <1>18, <2>1, <3>3, <3>4 DEF ScriptTyped
  <2> QED BY <2>2, <2>3
<1>21. CASE stopAppendOnly
  <2>1. UNCHANGED <<lua_scripts, fifo, replstate, link, known>> /\ Cached' = Cached
        /\ aof' = [on |-> FALSE, log |-> <<>>, rewriting |-> FALSE, buf |-> <<>>]
    BY <1>21 DEF stopAppendOnly, Cached
  <2> QED BY <1>18, <2>1 DEF ScriptTyped, FileServed
<1> QED
  BY <1>3, <1>4, <1>5, <1>6, <1>10, <1>11, <1>12, <1>13, <1>14, <1>15, <1>16, <1>17, <1>19, <1>20, <1>21 DEF Next

LEMMA ScriptInitially == ScriptCacheAssumption /\ Init => ScriptTyped /\ FileServed /\ ReplicasServed
<1> SUFFICES ASSUME ScriptCacheAssumption, Init PROVE ScriptTyped /\ FileServed /\ ReplicasServed
  OBVIOUS
<1>1. \A X : <<>> \in Seq(X)
  OBVIOUS
<1>2. Len(<<>>) <= repl_scriptcache_size /\ IsInjective(<<>>)
  BY DEF ScriptCacheAssumption, IsInjective
<1> QED BY <1>1, <1>2 DEF Init, ScriptTyped, FileServed, ReplicasServed

LEMMA ScriptUnchanged ==
    UNCHANGED vars => /\ ScriptTyped => ScriptTyped'
                      /\ FileServed => FileServed'
                      /\ ReplicasServed => ReplicasServed'
  BY DEF vars, ScriptTyped, FileServed, ReplicasServed, Cached

(* The script cache is at most repl_scriptcache_size entries, none twice, all   *)
(* of scripts that the primary knows (replicationScriptCacheAdd).                *)
THEOREM ScriptCacheTyped == ASSUME ScriptCacheAssumption PROVE Spec => []TypeOK
<1>1. ScriptTyped /\ [Next]_vars => ScriptTyped'
  BY ScriptStep, ScriptUnchanged
<1>2. ScriptTyped => TypeOK
  BY CachedAre DEF ScriptTyped, TypeOK, Cached
<1> QED BY <1>1, <1>2, ScriptInitially, PTL DEF Spec

(* The append only file, and the one a rewrite prepares, can be replayed by a    *)
(* server that knows no script, whatever was evicted, flushed or rewritten:      *)
(* evalShaCommand turns what the cache does not hold into EVAL, and a rewrite    *)
(* starts with an empty cache.                                                   *)
THEOREM ScriptsInFile == ASSUME ScriptCacheAssumption PROVE Spec => []FileReplays
<1>1. ScriptTyped /\ FileServed /\ [Next]_vars => ScriptTyped' /\ FileServed'
  BY ScriptStep, ScriptUnchanged
<1>2. FileServed => FileReplays
  BY DEF FileServed, Serves, FileReplays
<1> QED BY <1>1, <1>2, ScriptInitially, PTL DEF Spec

(* No replica is sent an EVALSHA of a script it does not know, whenever it       *)
(* attached, by whose BGSAVE, and whatever it missed, provided that clients do   *)
(* not flush its scripts (replicationScriptCacheExists, replication.c).           *)
THEOREM ReplicasKnowScripts ==
    ASSUME ScriptCacheAssumption, ~ClientFlush
    PROVE  Spec => []ReplicasKnow
<1>1. ScriptTyped /\ ReplicasServed /\ [Next]_vars => ScriptTyped' /\ ReplicasServed'
  BY ScriptStep, ScriptUnchanged
<1>2. ScriptTyped /\ ReplicasServed => ReplicasKnow
  <2> SUFFICES ASSUME ScriptTyped, ReplicasServed, NEW r \in Fed PROVE Replays(known[r], link[r])
    BY DEF ReplicasKnow
  <2>1. link[r] \in Seq(Cmd) /\ r \in Replicas /\ replstate[r] \in {"bgsave", "online", "gone"}
    BY DEF Fed, ScriptTyped
  <2>2. CASE replstate[r] = "bgsave"
    BY <2>1, <2>2, MoreKnown DEF ReplicasServed, Serves
  <2>3. CASE replstate[r] # "bgsave"
    BY <2>1, <2>3 DEF ReplicasServed, Serves
  <2> QED BY <2>2, <2>3
<1> QED BY <1>1, <1>2, ScriptInitially, PTL DEF Spec

-----------------------------------------------------------------------------
(* Snapshots: the invariant of a server that is no slave                    *)

\* A server that is no slave.
Primary == "resync" \notin Events

ChildStates == {"none", "write", "rename", "exit0", "exit1", "signal"}
Childs == [st : ChildStates, snap : Nat, sig : {"no", "usr1", "other"}, temp : Int]
\* The child has still to rename its file.
Busy == child.st \in {"write", "rename"}

Ages == [save : 0..MaxAge, try : 0..MaxAge, status : {"ok", "err"}]

RdbTyped ==
    /\ data \in Nat /\ writes \in Nat /\ file \in Nat /\ dirty \in Nat /\ before \in Nat
    /\ child \in Childs
    /\ last \in Ages
    /\ run \in {"up", "down"}
    /\ data = writes /\ dirty <= writes /\ writes <= MaxWrites /\ before <= MaxWrites
\* What is on disk is not newer than what the child writes, and that not newer than the data.
Order == file <= data /\ (Busy => file <= child.snap /\ child.snap <= data)
\* The changes since the file are counted; while a child runs also those since its snapshot,
\* and after its rename before the parent knows of it.
Counted ==
    R!Up => /\ child.st # "exit0" => dirty >= data - file
            /\ child.st = "exit0" => dirty - before >= data - file
            /\ Busy => dirty - before >= data - child.snap
\* A temporary file that is about to be renamed is complete.
TempWhole == child.st = "rename" => child.temp = child.snap
RdbInv == RdbTyped /\ Order /\ Counted /\ TempWhole

LEMMA RdbInitially == R!RdbSaveAssumption /\ R!Init => RdbInv
  BY DEF R!RdbSaveAssumption, R!Init, R!NoChild, R!Partial, RdbInv, RdbTyped, Ages, Order, Counted, Busy, TempWhole, Childs, ChildStates, R!Up

\* Killing the child leaves one that does not write any more.
LEMMA KilledChild ==
    ASSUME RdbTyped
    PROVE  /\ R!Killed \in Childs
           /\ R!Killed.st \in {"none", "exit0", "exit1", "signal"}
           /\ (R!Killed.st = "exit0") <=> (child.st = "exit0")
  BY DEF RdbTyped, R!Killed, Childs, ChildStates

\* last after a step, field by field.
LEMMA LastAfter ==
    ASSUME R!RdbSaveAssumption, RdbTyped
    PROVE  /\ R!rdbSaved \in Ages
           /\ [last EXCEPT !.save = R!Older(@), !.try = R!Older(@)] \in Ages
           /\ [last EXCEPT !.try = 0] \in Ages
           /\ [last EXCEPT !.try = 0, !.status = "err"] \in Ages
           /\ [last EXCEPT !.save = 0, !.status = "ok"] \in Ages
           /\ [last EXCEPT !.status = "err"] \in Ages /\ [last EXCEPT !.status = "err"].status = "err"
           /\ [save |-> 0, try |-> MaxAge, status |-> "ok"] \in Ages
<1>1. MaxAge \in Nat /\ R!Older(last.save) \in 0..MaxAge /\ R!Older(last.try) \in 0..MaxAge
  BY DEF R!RdbSaveAssumption, R!Older, RdbTyped, Ages
<1>2. [last EXCEPT !.save = R!Older(@), !.try = R!Older(@)] \in Ages
  BY <1>1 DEF RdbTyped, Ages
<1>3. [last EXCEPT !.try = 0] \in Ages
  BY <1>1 DEF RdbTyped, Ages
<1>4. [last EXCEPT !.try = 0, !.status = "err"] \in Ages
  <2> DEFINE l == [last EXCEPT !.try = 0]
  <2>1. [l EXCEPT !.status = "err"] \in Ages
    BY <1>3 DEF Ages
  <2> QED BY <2>1
<1>5. [last EXCEPT !.save = 0, !.status = "ok"] \in Ages
  <2> DEFINE l == [last EXCEPT !.save = 0]
  <2>1. l \in Ages
    BY <1>1 DEF RdbTyped, Ages
  <2>2. [l EXCEPT !.status = "ok"] \in Ages
    BY <2>1 DEF Ages
  <2> QED BY <2>2
<1>6. [last EXCEPT !.status = "err"] \in Ages /\ [last EXCEPT !.status = "err"].status = "err"
  BY <1>1 DEF RdbTyped, Ages
<1>7. [save |-> 0, try |-> MaxAge, status |-> "ok"] \in Ages
  BY <1>1 DEF Ages
<1> QED BY <1>2, <1>3, <1>4, <1>5, <1>6, <1>7 DEF R!rdbSaved

LEMMA RdbStep ==
    ASSUME Primary, R!RdbSaveAssumption, RdbInv, R!Next
    PROVE  RdbInv' /\ file' >= file
<1> USE DEF RdbInv, RdbTyped, Order, Counted, Busy, TempWhole, Childs, ChildStates, R!Up, R!Partial
<1>a. MaxAge \in Nat /\ MaxWrites \in Nat
  BY DEF R!RdbSaveAssumption
<1>b. R!Fault \in BOOLEAN
  BY DEF R!Fault
<1>1. CASE R!write
  BY <1>1, <1>a DEF R!write
<1>2. CASE R!tick
  <2>1. last' \in Ages
    BY <1>2, LastAfter DEF R!tick
  <2>2. UNCHANGED <<data, writes, file, dirty, before, child, run>>
    BY <1>2 DEF R!tick
  <2> QED BY <2>1, <2>2, <1>a
<1>3. ASSUME NEW ok \in BOOLEAN, R!saveCommand(ok) PROVE RdbInv' /\ file' >= file
  <2>1. last' \in Ages
    BY <1>3, LastAfter DEF R!saveCommand
  <2>2. /\ child.st = "none" /\ UNCHANGED <<data, writes, before, child, run>>
    BY <1>3 DEF R!saveCommand
  <2>3. CASE file' = data /\ dirty' = 0
    BY <2>1, <2>2, <2>3, <1>a
  <2>4. CASE file' = file /\ dirty' = dirty
    BY <2>1, <2>2, <2>4, <1>a
  <2> QED BY <1>3, <2>3, <2>4 DEF R!saveCommand
<1>4. ASSUME NEW ok \in BOOLEAN, R!rdbSaveBackground(ok), child.st = "none", R!Up
      PROVE  RdbInv' /\ file' >= file
  <2>1. last' \in Ages
    BY <1>4, LastAfter DEF R!rdbSaveBackground, Ages
  <2>2. /\ before' = dirty /\ UNCHANGED <<data, writes, file, dirty, run>>
        /\ child' = [st |-> "write", snap |-> data, sig |-> "no", temp |-> R!Partial] \/ child' = child
    BY <1>4 DEF R!rdbSaveBackground
  <2> QED BY <1>4, <2>1, <2>2, <1>a
<1>5. ASSUME NEW ok \in BOOLEAN, R!flushallCommand(ok) PROVE RdbInv' /\ file' >= file
  <2>1. last' \in Ages
    BY <1>5, LastAfter DEF R!flushallCommand
  <2>2. /\ R!Up /\ writes < MaxWrites /\ UNCHANGED <<before, run>> /\ child' = R!Killed
        /\ writes' = writes + 1 /\ data' = writes + 1 /\ dirty' = dirty + 1
        /\ file' = writes + 1 \/ file' = file
    BY <1>5 DEF R!flushallCommand
  <2> QED BY <2>1, <2>2, <1>a, KilledChild
<1>6. ASSUME NEW ok \in BOOLEAN, R!prepareForShutdown(ok) PROVE RdbInv' /\ file' >= file
  <2>1. last' \in Ages
    BY <1>6, LastAfter DEF R!prepareForShutdown
  <2>2. /\ R!Up /\ UNCHANGED <<data, writes, before>> /\ child' = R!Killed
        /\ \/ file' = data /\ dirty' = 0 /\ run' = "down"
           \/ file' = file /\ dirty' = dirty /\ run' = run
    BY <1>6 DEF R!prepareForShutdown
  <2> QED BY <2>1, <2>2, <1>a, KilledChild
<1>7. CASE R!backgroundSaveDoneHandler
  <2>1. /\ R!Up /\ child.st \in {"exit0", "exit1", "signal"} /\ child' = R!NoChild
        /\ UNCHANGED <<data, writes, file, before, run>>
    BY <1>7 DEF R!backgroundSaveDoneHandler
  <2>2. CASE child.st = "exit0"
    <3>1. dirty' = dirty - before /\ last' \in Ages
      BY <1>7, <2>2, LastAfter DEF R!backgroundSaveDoneHandler, R!Handled
    <3> QED BY <2>1, <2>2, <3>1, <1>a DEF R!NoChild
  <2>3. CASE child.st # "exit0"
    <3>1. dirty' = dirty /\ last' \in Ages
      BY <1>7, <2>1, <2>3, LastAfter DEF R!backgroundSaveDoneHandler, R!Handled
    <3> QED BY <2>1, <2>3, <3>1, <1>a DEF R!NoChild
  <2> QED BY <2>2, <2>3
<1>8. CASE R!readSyncBulkPayload \/ R!rdbLoad
  BY <1>8 DEF R!readSyncBulkPayload, R!rdbLoad, Primary
<1>9. CASE R!childWrites
  <2> DEFINE c == [child EXCEPT !.st = "rename"]
  <2>1. c \in Childs /\ c.st = "rename" /\ c.snap = child.snap /\ child.snap \in Int
    OBVIOUS
  <2>2. /\ child' = [c EXCEPT !.temp = child.snap] /\ child.st = "write"
        /\ UNCHANGED <<data, writes, file, dirty, before, last, run>>
    BY <1>9 DEF R!childWrites
  <2> HIDE DEF c
  <2>3. /\ child' \in Childs /\ child'.st = "rename" /\ child'.snap = child.snap
        /\ child'.temp = child.snap
    BY <2>1, <2>2
  <2> QED BY <2>2, <2>3, <1>a
<1>10. CASE R!childRenames
  BY <1>10 DEF R!childRenames, R!Childs
<1>11. CASE R!childFails
  BY <1>11 DEF R!childFails, R!Childs
<1>12. CASE R!childKilled
  <2> DEFINE c == [child EXCEPT !.st = "signal"]
  <2>1. c \in Childs /\ c.st = "signal"
    OBVIOUS
  <2>2. /\ child' = [c EXCEPT !.sig = "other"] /\ Busy
        /\ UNCHANGED <<data, writes, file, dirty, before, last, run>>
    BY <1>12 DEF R!childKilled
  <2>3. child' \in Childs /\ child'.st = "signal"
    BY <2>1, <2>2
  <2> QED BY <2>2, <2>3, <1>a
<1>13. CASE R!crash
  BY <1>13 DEF R!crash
<1>14. CASE R!restart
  <2>1. last' \in Ages /\ dirty' = 0 /\ before' = 0
    BY <1>14, LastAfter DEF R!restart
  <2>2. data' = file /\ writes' = file /\ file' = file /\ child' = R!NoChild /\ run' = "up"
    BY <1>14 DEF R!restart
  <2> QED BY <2>1, <2>2, <1>a DEF R!NoChild
<1> QED
  BY <1>1, <1>2, <1>3, <1>4, <1>5, <1>6, <1>7, <1>8, <1>9, <1>10, <1>11, <1>12, <1>13, <1>14
     DEF R!Next, R!bgsaveCommand, R!cronSave

LEMMA RdbInvariant ==
    ASSUME Primary, R!RdbSaveAssumption
    PROVE  R!Spec => []RdbInv
<1>1. R!Init => RdbInv
  BY RdbInitially
<1>2. RdbInv /\ [R!Next]_R!vars => RdbInv'
  <2>1. RdbInv /\ R!Next => RdbInv'
    BY RdbStep
  <2>2. RdbInv /\ UNCHANGED R!vars => RdbInv'
    BY DEF R!vars, RdbInv, RdbTyped, Order, Counted, Busy, TempWhole, R!Up
  <2> QED BY <2>1, <2>2
<1> QED BY <1>1, <1>2, PTL DEF R!Spec

(* dump.rdb is at every moment a whole snapshot (rdb.c:743), whatever saves,     *)
(* failures, signals and crashes there are: a child that may rename its          *)
(* temporary file has written all of its snapshot to it (TempWhole), and what a   *)
(* child leaves that fails or is killed is never renamed.                         *)
THEOREM DumpIsWhole ==
    ASSUME Primary, R!RdbSaveAssumption
    PROVE  R!Spec => []R!FileWhole
<1>1. RdbInv => R!FileWhole
  BY DEF RdbInv, RdbTyped, R!FileWhole, R!Partial
<1> QED BY <1>1, RdbInvariant, PTL

(* Without a child, server.dirty counts at least the writes that dump.rdb       *)
(* lacks: backgroundSaveDoneHandler subtracts dirty_before_bgsave and FLUSHALL   *)
(* and failed saves leave it, so that no save point forgets a write.             *)
THEOREM NoWriteForgotten ==
    ASSUME Primary, R!RdbSaveAssumption
    PROVE  R!Spec => []R!NothingForgotten
<1>1. RdbInv => R!NothingForgotten
  BY DEF RdbInv, RdbTyped, Order, Counted, R!NothingForgotten, R!Up
<1> QED BY <1>1, RdbInvariant, PTL

(* No step of the parent, of a child, of a crash or a restart replaces dump.rdb *)
(* by an older snapshot: FLUSHALL and SHUTDOWN kill the child before they save   *)
(* (redis.c:2339).                                                               *)
THEOREM SnapshotsNeverOlder ==
    ASSUME Primary, R!RdbSaveAssumption
    PROVE  R!Spec => [][R!NeverOlder]_R!vars
<1>1. RdbInv /\ [R!Next]_R!vars => [R!NeverOlder]_R!vars
  BY RdbStep DEF R!NeverOlder
<1> QED BY <1>1, RdbInvariant, PTL DEF R!Spec

(* After a child that failed the status is "err", on which redis refuses         *)
(* writes (backgroundSaveDoneHandler, rdb.c:1252, 1265).                         *)
THEOREM FailedSaveTells ==
    ASSUME Primary, R!RdbSaveAssumption
    PROVE  R!Spec => [][R!FailureTells]_R!vars
<1>1. RdbInv /\ [R!Next]_R!vars => [R!FailureTells]_R!vars
  <2> SUFFICES ASSUME RdbInv, R!Next, child.st = "exit1", child'.st = "none", R!Up
               PROVE  last'.status = "err"
    BY DEF R!FailureTells
  <2>1. CASE R!backgroundSaveDoneHandler
    BY <2>1, LastAfter DEF R!backgroundSaveDoneHandler, R!Handled, RdbInv
  <2>2. CASE \E ok \in BOOLEAN : R!flushallCommand(ok) \/ R!prepareForShutdown(ok)
    BY <2>2 DEF R!flushallCommand, R!prepareForShutdown, R!Killed
  <2>3. CASE \E ok \in BOOLEAN : R!saveCommand(ok) \/ R!bgsaveCommand(ok) \/ R!cronSave(ok)
    BY <2>3 DEF R!saveCommand, R!bgsaveCommand, R!cronSave
  <2>4. CASE R!childWrites \/ R!childRenames \/ R!childFails \/ R!childKilled
    BY <2>4 DEF R!childWrites, R!childRenames, R!childFails, R!childKilled
  <2>5. CASE R!write \/ R!tick \/ R!readSyncBulkPayload \/ R!rdbLoad \/ R!crash
    BY <2>5 DEF R!write, R!tick, R!readSyncBulkPayload, R!rdbLoad, R!crash
  <2>6. CASE R!restart
    BY <2>6 DEF R!restart, R!Up
  <2> QED BY <2>1, <2>2, <2>3, <2>4, <2>5, <2>6 DEF R!Next
<1> QED BY <1>1, RdbInvariant, PTL DEF R!Spec

-----------------------------------------------------------------------------
(* One script at a time: what it writes, and what stops it                  *)

CONSTANTS Conns, NoConn, lua_time_limit, Catches, Pipelines, cluster_enabled, MaxCalls,
          MaxScripts
VARIABLES lua_caller, lua_random_dirty, lua_write_dirty, lua_timedout, lua_kill, hook, inHook,
          readable, pending, connected, executed, refusedOOM, outcome, unkillable, masterhost,
          lastbgsave_ok, scripts, up, caught
U == INSTANCE ScriptRun

RunTyped ==
    /\ lua_caller \in Conns \cup {NoConn}
    /\ lua_random_dirty \in BOOLEAN /\ lua_write_dirty \in BOOLEAN /\ lua_timedout \in BOOLEAN
    /\ lua_kill \in BOOLEAN /\ hook \in BOOLEAN /\ inHook \in BOOLEAN
    /\ executed \in Seq(U!Commands) /\ refusedOOM \in {-1, 0}
    /\ outcome \in {"none", "ok", "error", "killed"} /\ unkillable \in BOOLEAN
    /\ lua_timedout => hook
    /\ hook => lua_caller # NoConn
    /\ inHook => lua_timedout

Writes(cmds) == \E i \in DOMAIN cmds : "write" \in cmds[i]
Randoms(cmds) == \E i \in DOMAIN cmds : "random" \in cmds[i]

\* The flags of the script say what it has executed.
Flagged ==
    /\ Writes(executed) => lua_write_dirty
    /\ Randoms(executed) => lua_random_dirty
    /\ U!WritesAreDeterministic

RunInv == RunTyped /\ Flagged

\* A script that is to be killed has written nothing, and is in the hook until it ends or
\* catches the error; before that it had written nothing either.
KillInv ==
    /\ lua_kill /\ lua_caller # NoConn /\ caught = -1 => inHook /\ ~lua_write_dirty
    /\ lua_caller # NoConn => outcome = "none"
    /\ outcome = "killed" /\ caught = -1 => ~lua_write_dirty
    /\ caught # -1 => /\ caught \in 0..Len(executed)
                      /\ \A i \in DOMAIN executed : "write" \in executed[i] => i > caught

\* Outside a cluster a command that sets a flag is executed.
ExactInv ==
    /\ lua_write_dirty => Writes(executed)
    /\ unkillable => Writes(executed)

\* All connections are readable, but the caller of a script that has timed out; the caller
\* has no output that could fail to be written.
CallerInv ==
    /\ connected \subseteq Conns /\ pending \subseteq connected
    /\ lua_caller # NoConn => lua_caller \in connected \ pending
    /\ readable = IF lua_timedout THEN connected \ {lua_caller} ELSE connected

\* What one more command adds to what was executed.
LEMMA OneMore ==
    ASSUME NEW cmds \in Seq(U!Commands), NEW cmd \in U!Commands
    PROVE  /\ Append(cmds, cmd) \in Seq(U!Commands)
           /\ DOMAIN Append(cmds, cmd) = DOMAIN cmds \cup {Len(cmds) + 1}
           /\ \A i \in DOMAIN cmds : Append(cmds, cmd)[i] = cmds[i] /\ i < Len(cmds) + 1
           /\ Append(cmds, cmd)[Len(cmds) + 1] = cmd
           /\ Writes(Append(cmds, cmd)) <=> Writes(cmds) \/ "write" \in cmd
           /\ Randoms(Append(cmds, cmd)) <=> Randoms(cmds) \/ "random" \in cmd
<1>1. Append(cmds, cmd) \in Seq(U!Commands) /\ Len(cmds) \in Nat /\ DOMAIN cmds = 1..Len(cmds)
  OBVIOUS
<1>2. /\ DOMAIN Append(cmds, cmd) = DOMAIN cmds \cup {Len(cmds) + 1}
      /\ \A i \in DOMAIN cmds : Append(cmds, cmd)[i] = cmds[i] /\ i < Len(cmds) + 1
      /\ Append(cmds, cmd)[Len(cmds) + 1] = cmd
  OBVIOUS
<1> QED
  BY <1>1, <1>2 DEF Writes, Randoms

LEMMA NothingWritten ==
    ASSUME ~Writes(executed)
    PROVE  Cardinality({i \in DOMAIN executed : "write" \in executed[i]}) = 0
<1>1. {i \in DOMAIN executed : "write" \in executed[i]} = {}
  BY DEF Writes
<1> QED
  BY <1>1, FS_EmptySet

LEMMA RunCounts == \A S : U!Cardinality(S) = Cardinality(S)
  BY DEF U!Cardinality, Cardinality

\* redis.call() goes on or ends the script, with the types kept.
LEMMA Failing ==
    ASSUME RunTyped, U!CallFails, ~inHook, UNCHANGED <<lua_kill, inHook, executed, unkillable>>,
           lua_random_dirty' \in BOOLEAN, lua_write_dirty' \in BOOLEAN, refusedOOM' \in {-1, 0}
    PROVE  RunTyped'
<1>1. CASE UNCHANGED <<lua_caller, hook, lua_timedout, outcome, readable, pending>>
  BY <1>1 DEF RunTyped
<1>2. CASE U!ScriptEnds("error")
  BY <1>2 DEF RunTyped, U!ScriptEnds
<1> QED
  BY <1>1, <1>2 DEF U!CallFails

LEMMA RunStep ==
    ASSUME U!ScriptRunAssumption, RunInv, [U!Next]_U!vars
    PROVE  RunInv'
<1> USE DEF U!Running, U!InScript, U!Events, U!dirty, U!told, U!env, U!past
<1>0. RunTyped /\ Flagged
  BY DEF RunInv
<1>1. ASSUME NEW c \in Conns, NEW b \in BOOLEAN, U!evalGenericCommand(c, b) PROVE RunInv'
  <2>1. executed' = <<>> /\ <<>> \in Seq(U!Commands) /\ DOMAIN <<>> = {}
    BY <1>1 DEF U!evalGenericCommand
  <2>2. RunTyped'
    BY <1>0, <1>1, <2>1 DEF U!evalGenericCommand, RunTyped, U!ScriptRunAssumption
  <2>3. Flagged'
    BY <2>1 DEF Flagged, Writes, Randoms, U!WritesAreDeterministic
  <2> QED
    BY <2>2, <2>3 DEF RunInv
<1>2. ASSUME UNCHANGED <<executed, lua_random_dirty, lua_write_dirty>>, RunTyped' PROVE RunInv'
  BY <1>0, <1>2 DEF RunInv, Flagged, Writes, Randoms, U!WritesAreDeterministic
<1>3. CASE U!scriptReturns
  BY <1>0, <1>2, <1>3 DEF U!scriptReturns, U!ScriptEnds, RunTyped
<1>4. CASE U!luaCallRefused
  <2>1. UNCHANGED <<executed, lua_random_dirty, lua_write_dirty, lua_kill, inHook, refusedOOM, unkillable>>
        /\ ~inHook /\ U!CallFails
    BY <1>4 DEF U!luaCallRefused
  <2>2. /\ lua_random_dirty' \in BOOLEAN /\ lua_write_dirty' \in BOOLEAN
        /\ refusedOOM' \in {-1, 0}
    BY <1>0, <2>1 DEF RunTyped
  <2>3. RunTyped'
    BY <1>0, <2>1, <2>2, Failing
  <2> QED
    BY <1>2, <2>1, <2>3
<1>5. ASSUME NEW cmd \in U!Commands, U!luaOutOfMemory(cmd) PROVE RunInv'
  <2>1. ~lua_write_dirty /\ refusedOOM' = U!Cardinality({i \in DOMAIN executed : "write" \in executed[i]})
        /\ UNCHANGED <<executed, lua_random_dirty, lua_write_dirty, lua_kill, inHook, unkillable>>
        /\ ~inHook /\ U!CallFails
    BY <1>5 DEF U!luaOutOfMemory, U!MemoryChecked
  <2>2. refusedOOM' = 0
    BY <1>0, <2>1, NothingWritten, RunCounts DEF Flagged
  <2>3. lua_random_dirty' \in BOOLEAN /\ lua_write_dirty' \in BOOLEAN
    BY <1>0, <2>1 DEF RunTyped
  <2>4. RunTyped'
    BY <1>0, <2>1, <2>2, <2>3, Failing
  <2> QED
    BY <1>2, <2>1, <2>4
<1>6. ASSUME NEW cmd \in U!Commands, NEW b \in BOOLEAN, U!luaRedisGenericCommand(cmd, b) PROVE RunInv'
  <2>0. ~U!Refused(cmd) /\ lua_caller # NoConn /\ ~inHook
        /\ lua_random_dirty' = (lua_random_dirty \/ "random" \in cmd)
        /\ lua_write_dirty' = (lua_write_dirty \/ "write" \in cmd)
    BY <1>6 DEF U!luaRedisGenericCommand
  <2>1. CASE executed' = Append(executed, cmd)
             /\ UNCHANGED <<lua_caller, hook, lua_timedout, outcome, readable, pending>>
    <3>1. executed \in Seq(U!Commands)
      BY <1>0 DEF RunTyped
    <3>2. RunTyped'
      BY <1>0, <1>6, <2>0, <2>1, <3>1, OneMore DEF RunTyped, U!luaRedisGenericCommand
    <3>3. (Writes(executed') => lua_write_dirty') /\ (Randoms(executed') => lua_random_dirty')
      BY <1>0, <2>0, <2>1, <3>1, OneMore DEF Flagged
    <3>4. U!WritesAreDeterministic'
      <4> SUFFICES ASSUME NEW i \in DOMAIN executed', NEW j \in DOMAIN executed', i < j,
                          "random" \in executed'[i]
                   PROVE  "write" \notin executed'[j]
        BY DEF U!WritesAreDeterministic
      <4>1. i \in DOMAIN executed /\ executed'[i] = executed[i]
        BY <2>1, <3>1, OneMore
      <4>2. lua_random_dirty
        BY <1>0, <4>1 DEF Flagged, Randoms
      <4>3. "write" \notin cmd
        BY <2>0, <4>2 DEF U!Refused
      <4>4. CASE j \in DOMAIN executed
        BY <1>0, <2>1, <3>1, <4>1, <4>4, OneMore DEF Flagged, U!WritesAreDeterministic
      <4>5. CASE j = Len(executed) + 1
        BY <2>1, <3>1, <4>3, <4>5, OneMore
      <4> QED
        BY <2>1, <3>1, <4>4, <4>5, OneMore
    <3>5. Flagged'
      BY <3>3, <3>4 DEF Flagged, Writes, Randoms, U!WritesAreDeterministic
    <3> QED
      BY <3>2, <3>5 DEF RunInv
  <2>2. CASE executed' = executed /\ U!CallFails
    <3>0. /\ UNCHANGED <<lua_kill, inHook, refusedOOM, unkillable>>
          /\ lua_random_dirty' \in BOOLEAN /\ lua_write_dirty' \in BOOLEAN
          /\ refusedOOM' \in {-1, 0}
      BY <1>0, <1>6, <2>0 DEF U!luaRedisGenericCommand, RunTyped
    <3>1. RunTyped'
      BY <1>0, <2>0, <2>2, <3>0, Failing
    <3>2. Flagged'
      BY <1>0, <2>0, <2>2 DEF Flagged, Writes, Randoms, U!WritesAreDeterministic
    <3> QED
      BY <3>1, <3>2 DEF RunInv
  <2> QED
    BY <1>6, <2>1, <2>2 DEF U!luaRedisGenericCommand
<1>7. CASE U!luaMaskCountHook
  BY <1>0, <1>2, <1>7 DEF U!luaMaskCountHook, U!HookEntered, RunTyped
<1>8. CASE U!HookReturns
  <2>1. /\ inHook' = FALSE
        /\ UNCHANGED <<lua_random_dirty, lua_write_dirty, lua_kill, executed, refusedOOM, unkillable>>
    BY <1>8 DEF U!HookReturns
  <2>2. CASE U!ScriptEnds("killed")
    BY <1>0, <1>2, <2>1, <2>2 DEF U!ScriptEnds, RunTyped
  <2>3. CASE UNCHANGED <<lua_caller, hook, lua_timedout, outcome>>
    BY <1>0, <1>2, <2>1, <2>3 DEF RunTyped
  <2> QED
    BY <1>8, <2>2, <2>3 DEF U!HookReturns
<1>9. ASSUME NEW c \in Conns, U!scriptKill(c) PROVE RunInv'
  BY <1>0, <1>2, <1>9 DEF U!scriptKill, RunTyped
<1>10. ASSUME NEW c \in Conns,
              \/ U!shutdownNosave(c) \/ U!slaveofCommand(c) \/ U!readQueryFromClient(c)
              \/ U!sendReplyToClient(c)
       PROVE  RunInv'
  BY <1>0, <1>2, <1>10
     DEF U!shutdownNosave, U!slaveofCommand, U!readQueryFromClient, U!sendReplyToClient, RunTyped
<1>11. CASE U!backgroundSaveDone \/ UNCHANGED U!vars
  BY <1>0, <1>2, <1>11 DEF U!backgroundSaveDone, U!vars, RunTyped
<1>12. \A b \in {FALSE, Pipelines} : b \in BOOLEAN
  BY DEF U!ScriptRunAssumption
<1> QED
  BY <1>1, <1>3, <1>4, <1>5, <1>6, <1>7, <1>8, <1>9, <1>10, <1>11, <1>12 DEF U!Next

LEMMA RunFirst ==
    ASSUME U!ScriptRunAssumption, U!Init
    PROVE  RunInv /\ KillInv /\ ExactInv /\ CallerInv
<1>1. executed \in Seq(U!Commands) /\ DOMAIN executed = {}
  BY DEF U!Init
<1>2. RunTyped /\ KillInv /\ CallerInv
  BY <1>1 DEF U!Init, RunTyped, KillInv, CallerInv, U!ScriptRunAssumption
<1>3. Flagged /\ ExactInv
  BY <1>1 DEF U!Init, Flagged, ExactInv, Writes, Randoms, U!WritesAreDeterministic
<1> QED
  BY <1>2, <1>3 DEF RunInv

LEMMA KillStep ==
    ASSUME RunInv, KillInv, [U!Next]_U!vars
    PROVE  KillInv'
<1> USE DEF U!Running, U!InScript, U!Events, U!dirty, U!told, U!env, U!past
<1>0. RunTyped
  BY DEF RunInv
<1>1. ASSUME NEW c \in Conns, NEW b \in {FALSE, Pipelines}, U!evalGenericCommand(c, b)
      PROVE  KillInv'
  BY <1>1 DEF U!evalGenericCommand, KillInv
<1>2. ASSUME UNCHANGED <<lua_kill, inHook, lua_write_dirty, executed, caught>>, ~inHook, U!CallFails
      PROVE  KillInv'
  <2>1. CASE UNCHANGED <<lua_caller, hook, lua_timedout, outcome, readable, pending>>
    BY <1>2, <2>1 DEF KillInv
  <2>2. CASE U!ScriptEnds("error")
    BY <1>2, <2>2 DEF KillInv, U!ScriptEnds
  <2> QED
    BY <1>2, <2>1, <2>2 DEF U!CallFails
<1>3. CASE U!scriptReturns
  BY <1>3 DEF U!scriptReturns, U!ScriptEnds, KillInv
<1>4. CASE U!luaCallRefused
  BY <1>2, <1>4 DEF U!luaCallRefused
<1>5. ASSUME NEW cmd \in U!Commands, U!luaOutOfMemory(cmd) PROVE KillInv'
  BY <1>2, <1>5 DEF U!luaOutOfMemory
<1>6. ASSUME NEW cmd \in U!Commands, NEW b \in BOOLEAN, U!luaRedisGenericCommand(cmd, b)
      PROVE  KillInv'
  <2>1. lua_caller # NoConn /\ ~inHook /\ UNCHANGED <<lua_kill, inHook, caught>>
    BY <1>6 DEF U!luaRedisGenericCommand
  <2>2. outcome = "none" /\ (lua_kill => caught # -1)
    BY <2>1 DEF KillInv
  <2>3. CASE /\ UNCHANGED <<lua_caller, hook, lua_timedout, outcome, readable, pending>>
             /\ executed' = Append(executed, cmd)
    <3>1. executed \in Seq(U!Commands)
      BY <1>0 DEF RunTyped
    <3>2. /\ \A i \in DOMAIN executed' : (i \in DOMAIN executed /\ executed'[i] = executed[i]) \/ i = Len(executed) + 1
          /\ Len(executed') = Len(executed) + 1 /\ Len(executed) \in Nat
      BY <2>3, <3>1
    <3>3. caught' # -1 => /\ caught' \in 0..Len(executed')
                         /\ \A i \in DOMAIN executed' : "write" \in executed'[i] => i > caught'
      BY <2>1, <3>2 DEF KillInv
    <3> QED
      BY <2>1, <2>2, <2>3, <3>3 DEF KillInv
  <2>4. CASE U!ScriptEnds("error") /\ executed' = executed
    BY <2>1, <2>2, <2>4 DEF KillInv, U!ScriptEnds
  <2>5. CASE UNCHANGED <<lua_caller, hook, lua_timedout, outcome, readable, pending>> /\ executed' = executed
    BY <2>1, <2>2, <2>5 DEF KillInv
  <2> QED
    BY <1>6, <2>3, <2>4, <2>5 DEF U!luaRedisGenericCommand, U!CallFails
<1>7. CASE U!luaMaskCountHook
  BY <1>7 DEF U!luaMaskCountHook, U!HookEntered, KillInv
<1>8. CASE U!HookReturns
  <2>1. inHook /\ lua_caller # NoConn /\ UNCHANGED <<lua_kill, lua_write_dirty, executed>>
    BY <1>0, <1>8 DEF U!HookReturns, RunTyped
  <2>2. CASE lua_kill /\ U!ScriptEnds("killed") /\ UNCHANGED caught
    BY <2>1, <2>2 DEF U!ScriptEnds, KillInv
  <2>3. CASE lua_kill /\ caught = -1 /\ caught' = Len(executed) /\ UNCHANGED <<lua_caller, outcome>>
    <3>1. executed \in Seq(U!Commands) /\ Len(executed) \in Nat /\ Len(executed) # -1
      BY <1>0 DEF RunTyped
    <3>2. \A i \in DOMAIN executed : "write" \notin executed[i]
      BY <2>1, <2>3 DEF KillInv, RunInv, Flagged, Writes
    <3> QED
      BY <2>1, <2>3, <3>1, <3>2 DEF KillInv
  <2>4. CASE ~(lua_kill /\ caught = -1) /\ UNCHANGED <<caught, lua_caller, outcome>>
    BY <2>1, <2>4 DEF KillInv
  <2> QED
    BY <1>8, <2>2, <2>3, <2>4 DEF U!HookReturns
<1>9. ASSUME NEW c \in Conns, U!scriptKill(c) PROVE KillInv'
  BY <1>0, <1>9 DEF U!scriptKill, KillInv, RunTyped
<1>10. ASSUME NEW c \in Conns,
              \/ U!shutdownNosave(c) \/ U!slaveofCommand(c) \/ U!readQueryFromClient(c)
              \/ U!sendReplyToClient(c)
       PROVE  KillInv'
  BY <1>10 DEF U!shutdownNosave, U!slaveofCommand, U!readQueryFromClient, U!sendReplyToClient, KillInv
<1>11. CASE U!backgroundSaveDone \/ UNCHANGED U!vars
  BY <1>11 DEF U!backgroundSaveDone, U!vars, KillInv
<1> QED
  BY <1>1, <1>3, <1>4, <1>5, <1>6, <1>7, <1>8, <1>9, <1>10, <1>11 DEF U!Next

LEMMA ExactStep ==
    ASSUME ~cluster_enabled, RunInv, ExactInv, [U!Next]_U!vars
    PROVE  ExactInv'
<1> USE DEF U!dirty, U!told, U!env, U!past
<1>0. executed \in Seq(U!Commands)
  BY DEF RunInv, RunTyped
<1>1. ASSUME NEW c \in Conns, NEW b \in {FALSE, Pipelines}, U!evalGenericCommand(c, b)
      PROVE  ExactInv'
  BY <1>1 DEF U!evalGenericCommand, ExactInv
<1>2. ASSUME UNCHANGED <<executed, lua_write_dirty, unkillable>> PROVE ExactInv'
  BY <1>2 DEF ExactInv, Writes
<1>3. CASE U!scriptReturns \/ U!luaCallRefused \/ U!luaMaskCountHook \/ U!HookReturns
           \/ U!backgroundSaveDone \/ UNCHANGED U!vars
  BY <1>2, <1>3 DEF U!scriptReturns, U!luaCallRefused, U!luaMaskCountHook, U!HookReturns,
                    U!backgroundSaveDone, U!vars
<1>4. ASSUME NEW cmd \in U!Commands, U!luaOutOfMemory(cmd) PROVE ExactInv'
  BY <1>2, <1>4 DEF U!luaOutOfMemory
<1>5. ASSUME NEW cmd \in U!Commands, NEW b \in BOOLEAN, U!luaRedisGenericCommand(cmd, b)
      PROVE  ExactInv'
  <2>1. executed' = Append(executed, cmd) /\ lua_write_dirty' = (lua_write_dirty \/ "write" \in cmd)
        /\ unkillable' = unkillable
    BY <1>5 DEF U!luaRedisGenericCommand
  <2>2. Writes(executed') <=> Writes(executed) \/ "write" \in cmd
    BY <1>0, <2>1, OneMore
  <2> QED
    BY <2>1, <2>2 DEF ExactInv
<1>6. ASSUME NEW c \in Conns, U!scriptKill(c) PROVE ExactInv'
  BY <1>6 DEF U!scriptKill, ExactInv, Writes
<1>7. ASSUME NEW c \in Conns,
             \/ U!shutdownNosave(c) \/ U!slaveofCommand(c) \/ U!readQueryFromClient(c)
             \/ U!sendReplyToClient(c)
      PROVE  ExactInv'
  BY <1>2, <1>7 DEF U!shutdownNosave, U!slaveofCommand, U!readQueryFromClient, U!sendReplyToClient
<1> QED
  BY <1>1, <1>3, <1>4, <1>5, <1>6, <1>7 DEF U!Next

LEMMA CallerStep ==
    ASSUME U!ScriptRunAssumption, ~Pipelines, RunInv, CallerInv, [U!Next]_U!vars
    PROVE  CallerInv'
<1> USE DEF U!Running, U!InScript, U!Events, U!dirty, U!told, U!env, U!past
<1>0. RunTyped /\ NoConn \notin Conns
  BY DEF RunInv, U!ScriptRunAssumption
<1>1. ASSUME NEW c \in Conns, NEW b \in {FALSE, Pipelines}, U!evalGenericCommand(c, b)
      PROVE  CallerInv'
  <2>1. b = FALSE
    BY DEF U!ScriptRunAssumption
  <2>2. ~lua_timedout /\ c \in connected \ pending /\ lua_caller' = c
        /\ UNCHANGED <<readable, connected, lua_timedout>>
    BY <1>0, <1>1 DEF U!evalGenericCommand, RunTyped
  <2>3. pending' = pending
    BY <1>1, <2>1 DEF U!evalGenericCommand
  <2> QED
    BY <2>2, <2>3 DEF CallerInv
<1>2. ASSUME NEW how, U!ScriptEnds(how), lua_caller # NoConn, pending' = pending \cup {lua_caller},
             connected' = connected
      PROVE  CallerInv'
  BY <1>2 DEF U!ScriptEnds, CallerInv
<1>3. ASSUME UNCHANGED <<lua_caller, lua_timedout, readable, pending, connected>> PROVE CallerInv'
  BY <1>3 DEF CallerInv
<1>4. ASSUME U!CallFails, lua_caller # NoConn, connected' = connected PROVE CallerInv'
  BY <1>2, <1>3, <1>4 DEF U!CallFails
<1>5. CASE U!scriptReturns \/ U!luaCallRefused
  BY <1>2, <1>4, <1>5 DEF U!scriptReturns, U!luaCallRefused
<1>6. ASSUME NEW cmd \in U!Commands, U!luaOutOfMemory(cmd) PROVE CallerInv'
  BY <1>4, <1>6 DEF U!luaOutOfMemory
<1>7. ASSUME NEW cmd \in U!Commands, NEW b \in BOOLEAN, U!luaRedisGenericCommand(cmd, b)
      PROVE  CallerInv'
  BY <1>3, <1>4, <1>7 DEF U!luaRedisGenericCommand
<1>8. CASE U!luaMaskCountHook
  BY <1>8 DEF U!luaMaskCountHook, U!HookEntered, CallerInv
<1>9. CASE U!HookReturns
  <2>1. lua_caller # NoConn /\ connected' = connected
    BY <1>0, <1>9 DEF U!HookReturns, RunTyped
  <2> QED
    BY <1>2, <1>3, <1>9, <2>1 DEF U!HookReturns
<1>10. ASSUME NEW c \in Conns, U!readQueryFromClient(c) PROVE CallerInv'
  BY <1>0, <1>10 DEF U!readQueryFromClient, CallerInv, RunTyped
<1>11. ASSUME NEW c \in Conns, U!sendReplyToClient(c) PROVE CallerInv'
  BY <1>0, <1>11 DEF U!sendReplyToClient, CallerInv, RunTyped
<1>12. ASSUME NEW c \in Conns, U!scriptKill(c) \/ U!shutdownNosave(c) \/ U!slaveofCommand(c)
       PROVE  CallerInv'
  BY <1>3, <1>12 DEF U!scriptKill, U!shutdownNosave, U!slaveofCommand
<1>13. CASE U!backgroundSaveDone \/ UNCHANGED U!vars
  BY <1>3, <1>13 DEF U!backgroundSaveDone, U!vars
<1> QED
  BY <1>1, <1>5, <1>6, <1>7, <1>8, <1>9, <1>10, <1>11, <1>12, <1>13 DEF U!Next

\* luaRedisGenericCommand: no command that writes is executed by a script after a random one,
\* whatever it calls and however it fails: what replicas get is the script, not its effects.
THEOREM ScriptsAreDeterministic ==
    ASSUME U!ScriptRunAssumption
    PROVE  U!Spec => [](U!WritesAreDeterministic /\ U!MemoryOnlyAtStart)
<1>1. RunInv => U!WritesAreDeterministic /\ U!MemoryOnlyAtStart
  BY DEF RunInv, RunTyped, Flagged, U!MemoryOnlyAtStart
<1> QED
  BY <1>1, RunFirst, RunStep, PTL DEF U!Spec

\* luaMaskCountHook and SCRIPT KILL: a script that a kill has ended had written nothing when
\* the kill was accepted, whether or not it catches errors; if it does, and has caught the
\* error of the kill, it may have written after that, and only after that.
THEOREM KilledScriptsWroteNothing ==
    ASSUME U!ScriptRunAssumption
    PROVE  U!Spec => []U!KilledWroteNothing
<1>1. RunInv /\ KillInv => U!KilledWroteNothing
  BY DEF RunInv, Flagged, KillInv, Writes, U!KilledWroteNothing
<1> QED
  BY <1>1, RunFirst, RunStep, KillStep, PTL DEF U!Spec

\* SCRIPT KILL says UNKILLABLE only of a script that has written: outside a cluster, where
\* no command is refused after it has set lua_write_dirty.
THEOREM UnkillableScriptsWrote ==
    ASSUME U!ScriptRunAssumption, ~cluster_enabled
    PROVE  U!Spec => []U!UnkillableWrote
<1>1. ExactInv => U!UnkillableWrote
  BY DEF ExactInv, Writes, U!UnkillableWrote
<1> QED
  BY <1>1, RunFirst, RunStep, ExactStep, PTL DEF U!Spec

\* The caller of a script stays connected until it ends and is read again afterwards: if no
\* reply to an earlier command is pending, whose failed write would free the client.
THEOREM CallersComeBack ==
    ASSUME U!ScriptRunAssumption, ~Pipelines
    PROVE  U!Spec => [](U!CallersReadable /\ U!CallerStays)
<1>1. RunInv /\ CallerInv => U!CallersReadable /\ U!CallerStays
  BY DEF RunInv, RunTyped, CallerInv, U!CallersReadable, U!CallerStays, U!Running
<1> QED
  BY <1>1, RunFirst, RunStep, CallerStep, PTL DEF U!Spec

THEOREM RunTypes ==
    ASSUME U!ScriptRunAssumption, ~Pipelines
    PROVE  U!Spec => []U!TypeOK
<1>1. RunInv /\ KillInv /\ CallerInv => U!TypeOK
  <2>1. RunInv /\ KillInv => caught \in -1..Len(executed)
    BY DEF RunInv, RunTyped, KillInv
  <2> QED
    BY <2>1 DEF RunInv, RunTyped, CallerInv, U!TypeOK, U!Running, U!ScriptRunAssumption
<1> QED
  BY <1>1, RunFirst, RunStep, KillStep, CallerStep, PTL DEF U!Spec

-----------------------------------------------------------------------------
(* Transactions: what commands do to a server                              *)

CONSTANTS Clients, Keys, Dbs, Ops, Happens, HasSlave, MaxCmds, MaxQueue
VARIABLES srv, stream, rep, hist
T == INSTANCE Transactions WITH s <- srv, Events <- Happens

NatLess == {p \in Nat \X Nat : p[1] < p[2]}

LEMMA Smallest ==
    ASSUME NEW S \in SUBSET Nat, S # {}
    PROVE  \E m \in S : \A q \in S : m <= q
<1>1. IsWellFoundedOn(NatLess, Nat)
  <2>1. IsWellFoundedOn(OpToRel(<, Nat), Nat)
    BY NatLessThanWellFounded
  <2>2. OpToRel(<, Nat) = NatLess
    BY DEF OpToRel, NatLess
  <2> QED
    BY <2>1, <2>2
<1>2. PICK m \in S : \A q \in S : ~(<<q, m>> \in NatLess)
  BY <1>1, WFMin
<1>3. ASSUME NEW q \in S, ~(m <= q) PROVE FALSE
  <2>1. <<q, m>> \in NatLess
    BY <1>3 DEF NatLess
  <2> QED
    BY <1>2, <2>1
<1> QED
  BY <1>3

\* h goes through the commands q, from w.
Runs(h, w, q) == h = [i \in 0..Len(q) |-> IF i = 0 THEN w ELSE T!ExecTurn(h[i - 1], q[i])]
RunsTo(h, w, q, n) == h = [i \in 0..n |-> IF i = 0 THEN w ELSE T!ExecTurn(h[i - 1], q[i])]

LEMMA RunExists ==
    ASSUME NEW w, NEW q, Len(q) \in Nat
    PROVE  \E h : RunsTo(h, w, q, Len(q))
<1> DEFINE S == {n \in Nat : ~ \E h : RunsTo(h, w, q, n)}
<1> SUFFICES ASSUME S # {} PROVE FALSE
  OBVIOUS
<1>1. PICK m \in S : \A n \in S : m <= n
  <2>1. S \in SUBSET Nat
    OBVIOUS
  <2> HIDE DEF S
  <2> QED
    BY <2>1, Smallest
<1>2. CASE m = 0
  <2> DEFINE h0 == [i \in 0..0 |-> w]
  <2>1. RunsTo(h0, w, q, 0)
    BY DEF RunsTo
  <2> QED
    BY <1>1, <1>2, <2>1
<1>3. CASE m # 0
  <2>1. m - 1 \in Nat /\ m - 1 \notin S /\ m \in Nat
    BY <1>1, <1>3
  <2>2. PICK g : RunsTo(g, w, q, m - 1)
    BY <2>1
  <2> DEFINE h == [i \in 0..m |-> IF i = m THEN T!ExecTurn(g[m - 1], q[m]) ELSE g[i]]
  <2>3. ASSUME NEW i \in 0..m PROVE h[i] = IF i = 0 THEN w ELSE T!ExecTurn(h[i - 1], q[i])
    <3>1. CASE i = 0
      BY <1>3, <2>1, <2>2, <3>1 DEF RunsTo
    <3>2. CASE i # 0 /\ i # m
      <4>1. i \in 0..(m-1) /\ i - 1 \in 0..m /\ i - 1 # m /\ i - 1 \in 0..(m-1)
        BY <2>1, <3>2
      <4>2. g[i] = T!ExecTurn(g[i - 1], q[i])
        BY <2>2, <3>2, <4>1 DEF RunsTo
      <4>3. h[i] = g[i] /\ h[i - 1] = g[i - 1]
        BY <3>2, <4>1
      <4> HIDE DEF h
      <4> QED
        BY <3>2, <4>2, <4>3
    <3>3. CASE i = m
      <4>1. m - 1 \in 0..m /\ m - 1 # m
        BY <2>1
      <4>2. h[m - 1] = g[m - 1] /\ h[m] = T!ExecTurn(g[m - 1], q[m])
        BY <2>1, <4>1
      <4> HIDE DEF h
      <4> QED
        BY <1>3, <3>3, <4>2
    <3> QED
      BY <3>1, <3>2, <3>3
  <2>4. RunsTo(h, w, q, m)
    <3>1. h = [i \in 0..m |-> h[i]]
      OBVIOUS
    <3> HIDE DEF h
    <3> QED
      BY <2>3, <3>1 DEF RunsTo
  <2> QED
    BY <1>1, <2>4
<1> QED
  BY <1>2, <1>3

LEMMA RunFound ==
    ASSUME NEW w, NEW q, Len(q) \in Nat
    PROVE  \E h : RunsTo(h, w, q, Len(q)) /\ T!ExecTurns(w, q) = h[Len(q)]
<1> DEFINE h == CHOOSE h : h = [i \in 0..Len(q) |-> IF i = 0 THEN w ELSE T!ExecTurn(h[i - 1], q[i])]
<1>1. T!ExecTurns(w, q) = h[Len(q)]
  BY DEF T!ExecTurns
<1>2. RunsTo(h, w, q, Len(q))
  BY RunExists DEF RunsTo
<1> QED
  BY <1>1, <1>2

Reasons == {"bad", "readonly", "diskerr", "nested"}
ClientState ==
    [multi : BOOLEAN, cas : BOOLEAN, exec : BOOLEAN, queue : Seq(T!Command), refused : SUBSET Reasons,
     watched : SUBSET T!Slots, missed : SUBSET T!Slots, snap : [T!Slots -> Nat]]
ServerState ==
    [data : [T!Slots -> Nat], watch : [T!Slots -> SUBSET Clients], n : Nat, v : Nat,
     slave : BOOLEAN, diskerr : BOOLEAN, cl : [Clients -> ClientState]]
Matched(t) == \A p \in T!Slots : t.watch[p] = {c \in Clients : p \in t.cl[c].watched}
Values(t) == \A p \in T!Slots : t.data[p] <= t.v

SameCommands(x, y) ==
    /\ y.multi = x.multi /\ y.exec = x.exec /\ y.queue = x.queue /\ y.refused = x.refused
    /\ y.watched = x.watched /\ y.snap = x.snap
\* From t to u only values, the flag cas of clients and what they have missed have changed; a
\* client that watches what has changed has the flag set, or has missed it.
Executes(t, u) ==
    /\ u \in ServerState /\ Values(u) /\ t.v <= u.v
    /\ u.watch = t.watch /\ u.slave = t.slave /\ u.diskerr = t.diskerr
    /\ \A c \in Clients : /\ SameCommands(t.cl[c], u.cl[c]) /\ (t.cl[c].cas => u.cl[c].cas)
                          /\ t.cl[c].missed \subseteq u.cl[c].missed
    /\ \A c \in Clients : ~u.cl[c].cas =>
         \A p \in t.cl[c].watched \ u.cl[c].missed : u.data[p] = t.data[p]
\* The flag cas was set for the clients of A, those that watch a key of P have missed it,
\* nothing else was done.
Marks(t, u, A, P) ==
    /\ u \in ServerState /\ u.data = t.data /\ u.v = t.v
    /\ u.watch = t.watch /\ u.n = t.n /\ u.slave = t.slave /\ u.diskerr = t.diskerr
    /\ \A c \in Clients : /\ SameCommands(t.cl[c], u.cl[c]) /\ u.cl[c].cas = (t.cl[c].cas \/ c \in A)
                          /\ u.cl[c].missed = t.cl[c].missed \cup (P \cap t.cl[c].watched)

LEMMA CasMarks ==
    ASSUME NEW t \in ServerState, NEW A
    PROVE  Marks(t, [t EXCEPT !.cl = T!DirtyCas(@, A)], A, {})
<1> DEFINE new == T!DirtyCas(t.cl, A)
<1>1. \A c \in Clients : t.cl[c] \in ClientState
  BY DEF ServerState
<1>2. /\ \A c \in Clients : new[c] = [t.cl[c] EXCEPT !.cas = @ \/ c \in A]
      /\ new = [c \in Clients |-> new[c]]
  BY DEF T!DirtyCas
<1> HIDE DEF new
<1>3. \A c \in Clients : /\ new[c] \in ClientState /\ SameCommands(t.cl[c], new[c])
                         /\ new[c].cas = (t.cl[c].cas \/ c \in A)
                         /\ new[c].missed = t.cl[c].missed \cup ({} \cap t.cl[c].watched)
  <2> SUFFICES ASSUME NEW c \in Clients
               PROVE  /\ new[c] \in ClientState /\ SameCommands(t.cl[c], new[c])
                      /\ new[c].cas = (t.cl[c].cas \/ c \in A)
                      /\ new[c].missed = t.cl[c].missed \cup ({} \cap t.cl[c].watched)
    OBVIOUS
  <2> DEFINE x == t.cl[c]
             b == x.cas \/ c \in A
             y == [x EXCEPT !.cas = b]
  <2>1. x \in ClientState
    BY <1>1
  <2>2. new[c] = y
    BY <1>2
  <2> HIDE DEF x
  <2>3. b \in BOOLEAN
    BY <2>1 DEF ClientState
  <2> HIDE DEF b
  <2>4. y \in ClientState /\ SameCommands(x, y) /\ y.cas = b /\ y.missed = x.missed
    BY <2>1, <2>3 DEF ClientState, SameCommands
  <2> HIDE DEF y
  <2> QED
    BY <2>2, <2>4 DEF x, b
<1>4. new \in [Clients -> ClientState]
  BY <1>2, <1>3
<1>5. Marks(t, [t EXCEPT !.cl = new], A, {})
  BY <1>3, <1>4 DEF Marks, ServerState
<1> QED
  BY <1>5 DEF new

LEMMA UntoldMarks ==
    ASSUME NEW t \in ServerState, NEW P
    PROVE  Marks(t, T!Untold(t, P), {}, P)
<1> DEFINE new == T!Missing(t.cl, P)
<1>1. \A c \in Clients : t.cl[c] \in ClientState
  BY DEF ServerState
<1>2. /\ \A c \in Clients : new[c] = [t.cl[c] EXCEPT !.missed = @ \cup (P \cap t.cl[c].watched)]
      /\ new = [c \in Clients |-> new[c]]
  BY DEF T!Missing
<1> HIDE DEF new
<1>3. \A c \in Clients : /\ new[c] \in ClientState /\ SameCommands(t.cl[c], new[c])
                         /\ new[c].cas = t.cl[c].cas
                         /\ new[c].missed = t.cl[c].missed \cup (P \cap t.cl[c].watched)
  <2> SUFFICES ASSUME NEW c \in Clients
               PROVE  /\ new[c] \in ClientState /\ SameCommands(t.cl[c], new[c])
                      /\ new[c].cas = t.cl[c].cas
                      /\ new[c].missed = t.cl[c].missed \cup (P \cap t.cl[c].watched)
    OBVIOUS
  <2> DEFINE x == t.cl[c]
             M == x.missed \cup (P \cap x.watched)
             y == [x EXCEPT !.missed = M]
  <2>1. x \in ClientState
    BY <1>1
  <2>2. new[c] = y
    BY <1>2
  <2> HIDE DEF x
  <2>3. M \in SUBSET T!Slots
    BY <2>1 DEF ClientState
  <2> HIDE DEF M
  <2>4. y \in ClientState /\ SameCommands(x, y) /\ y.cas = x.cas /\ y.missed = M
    BY <2>1, <2>3 DEF ClientState, SameCommands
  <2> HIDE DEF y
  <2> QED
    BY <2>2, <2>4 DEF x, M
<1>4. new \in [Clients -> ClientState]
  BY <1>2, <1>3
<1>5. \A c \in Clients : t.cl[c].cas \in BOOLEAN
  BY <1>1 DEF ClientState
<1>6. Marks(t, [t EXCEPT !.cl = new], {}, P)
  BY <1>3, <1>4, <1>5 DEF Marks, ServerState
<1> QED
  BY <1>6 DEF new, T!Untold

LEMMA EffectIs ==
    ASSUME NEW vals \in [T!Slots -> Nat], NEW v \in Nat, \A p \in T!Slots : vals[p] <= v,
           NEW o \in T!Command
    PROVE  /\ T!Effect(vals, o, v) \in [T!Slots -> Nat]
           /\ \A p \in T!Slots : T!Effect(vals, o, v)[p] <= v
           /\ o.op \in {"set", "del"} =>
                \A p \in T!Slots : p # <<o.d, o.k>> => T!Effect(vals, o, v)[p] = vals[p]
           /\ o.op = "rename" =>
                \A p \in T!Slots : p \notin {<<o.d, o.k>>, T!Renamed(o)} => T!Effect(vals, o, v)[p] = vals[p]
           /\ o.op = "move" =>
                \A p \in T!Slots : p \notin {<<o.d, o.k>>, <<T!Other(o.d), o.k>>} => T!Effect(vals, o, v)[p] = vals[p]
           /\ o.op = "flush" =>
                \A p \in T!Slots : T!Effect(vals, o, v)[p] # vals[p] => p[1] = o.d /\ vals[p] # 0
           /\ o.op \in {"get", "bad"} => T!Effect(vals, o, v) = vals
<1>1. <<o.d, o.k>> \in T!Slots /\ o.op \in Ops /\ vals[<<o.d, o.k>>] \in 0..v
  BY DEF T!Command, T!Slots
<1> DEFINE p0 == <<o.d, o.k>>
           val == vals[p0]
           to == <<T!Other(o.d), o.k>>
           ren == T!Renamed(o)
<1>2. p0 \in T!Slots /\ val \in 0..v
  BY <1>1
<1> HIDE DEF p0, val, to, ren
<1>3. ASSUME NEW q
      PROVE  /\ [vals EXCEPT ![p0] = 0, ![q] = val] \in [T!Slots -> Nat]
             /\ \A p \in T!Slots : [vals EXCEPT ![p0] = 0, ![q] = val][p] <= v
             /\ \A p \in T!Slots : p \notin {p0, q} => [vals EXCEPT ![p0] = 0, ![q] = val][p] = vals[p]
  <2> DEFINE d1 == [vals EXCEPT ![p0] = 0]
             d2 == [d1 EXCEPT ![q] = val]
  <2>1. [vals EXCEPT ![p0] = 0, ![q] = val] = d2
    OBVIOUS
  <2>2. /\ d1 \in [T!Slots -> Nat] /\ \A p \in T!Slots : d1[p] <= v
        /\ \A p \in T!Slots : p # p0 => d1[p] = vals[p]
    BY <1>2
  <2> HIDE DEF d1
  <2>3. /\ d2 \in [T!Slots -> Nat] /\ \A p \in T!Slots : d2[p] <= v
        /\ \A p \in T!Slots : p # q => d2[p] = d1[p]
    <3>1. \A p \in T!Slots : d2[p] = IF p = q THEN val ELSE d1[p]
      BY <2>2
    <3>2. d2 = [p \in T!Slots |-> d2[p]]
      BY <2>2
    <3>3. val \in Nat /\ val <= v
      BY <1>2
    <3> HIDE DEF d2
    <3> QED
      BY <2>2, <3>1, <3>2, <3>3
  <2> HIDE DEF d2
  <2> QED
    BY <2>1, <2>2, <2>3
<1>4. ASSUME NEW x \in 0..v
      PROVE  /\ [vals EXCEPT ![p0] = x] \in [T!Slots -> Nat]
             /\ \A p \in T!Slots : [vals EXCEPT ![p0] = x][p] <= v
             /\ \A p \in T!Slots : p # p0 => [vals EXCEPT ![p0] = x][p] = vals[p]
  BY <1>2
<1>5. /\ [p \in T!Slots |-> IF p[1] = o.d THEN 0 ELSE vals[p]] \in [T!Slots -> Nat]
      /\ \A p \in T!Slots : [q \in T!Slots |-> IF q[1] = o.d THEN 0 ELSE vals[q]][p] <= v
  OBVIOUS
<1>6. CASE o.op = "set"
  <2>1. T!Effect(vals, o, v) = [vals EXCEPT ![p0] = v]
    BY <1>6 DEF T!Effect, p0
  <2> QED
    BY <1>4, <1>6, <2>1 DEF p0
<1>7. CASE o.op = "del"
  <2>1. T!Effect(vals, o, v) = [vals EXCEPT ![p0] = 0]
    BY <1>7 DEF T!Effect, p0
  <2> QED
    BY <1>4, <1>7, <2>1 DEF p0
<1>8. CASE o.op = "move"
  <2>1. T!Effect(vals, o, v) = [vals EXCEPT ![p0] = 0, ![to] = val]
    BY <1>8 DEF T!Effect, p0, to, val
  <2>2. /\ T!Effect(vals, o, v) \in [T!Slots -> Nat]
        /\ \A p \in T!Slots : T!Effect(vals, o, v)[p] <= v
        /\ \A p \in T!Slots : p \notin {p0, to} => T!Effect(vals, o, v)[p] = vals[p]
    BY <1>3, <2>1
  <2> QED
    BY <1>8, <2>2 DEF p0, to
<1>9. CASE o.op = "rename"
  <2>1. T!Effect(vals, o, v) = [vals EXCEPT ![p0] = 0, ![ren] = val]
    BY <1>9 DEF T!Effect, p0, ren, val
  <2>2. /\ T!Effect(vals, o, v) \in [T!Slots -> Nat]
        /\ \A p \in T!Slots : T!Effect(vals, o, v)[p] <= v
        /\ \A p \in T!Slots : p \notin {p0, ren} => T!Effect(vals, o, v)[p] = vals[p]
    BY <1>3, <2>1
  <2> QED
    BY <1>9, <2>2 DEF p0, ren
<1>10. CASE o.op = "flush"
  <2>1. T!Effect(vals, o, v) = [p \in T!Slots |-> IF p[1] = o.d THEN 0 ELSE vals[p]]
    BY <1>10 DEF T!Effect
  <2> QED
    BY <1>5, <1>10, <2>1
<1>11. CASE o.op \notin {"set", "del", "move", "rename", "flush"}
  <2>1. T!Effect(vals, o, v) = vals
    BY <1>11 DEF T!Effect
  <2> QED
    BY <1>11, <2>1
<1> QED
  BY <1>6, <1>7, <1>8, <1>9, <1>10, <1>11

LEMMA MarksBoth ==
    ASSUME NEW t, NEW u, NEW w, NEW A, NEW B, NEW P, NEW Q, Marks(t, u, A, P), Marks(u, w, B, Q)
    PROVE  Marks(t, w, A \cup B, P \cup Q)
<1>1. \A c \in Clients : SameCommands(t.cl[c], w.cl[c])
  BY DEF Marks, SameCommands
<1>2. ASSUME NEW c \in Clients
      PROVE  /\ w.cl[c].cas = (t.cl[c].cas \/ c \in A \cup B)
             /\ w.cl[c].missed = t.cl[c].missed \cup ((P \cup Q) \cap t.cl[c].watched)
  <2>1. w.cl[c].cas = (u.cl[c].cas \/ c \in B) /\ u.cl[c].cas = (t.cl[c].cas \/ c \in A)
    BY DEF Marks
  <2>2. /\ w.cl[c].missed = u.cl[c].missed \cup (Q \cap u.cl[c].watched)
        /\ u.cl[c].missed = t.cl[c].missed \cup (P \cap t.cl[c].watched)
        /\ u.cl[c].watched = t.cl[c].watched
    BY DEF Marks, SameCommands
  <2>3. w.cl[c].cas = (t.cl[c].cas \/ c \in A \cup B)
    BY <2>1
  <2>4. w.cl[c].missed = t.cl[c].missed \cup ((P \cup Q) \cap t.cl[c].watched)
    BY <2>2
  <2> QED
    BY <2>3, <2>4
<1> QED
  BY <1>1, <1>2 DEF Marks

\* When clients were marked, from t to u, and the data are then vals, of which those whose
\* clients were not marked are as before, the server r that results is one after a command.
LEMMA MarkedExecutes ==
    ASSUME NEW t \in ServerState, NEW u, NEW A, NEW P, Marks(t, u, A, P),
           NEW r \in ServerState, r.cl = u.cl, r.watch = u.watch, r.slave = u.slave, r.diskerr = u.diskerr,
           t.v <= r.v, Values(r),
           \A c \in Clients : c \notin A => \A p \in t.cl[c].watched \ P : r.data[p] = t.data[p]
    PROVE  Executes(t, r)
<1>1. ASSUME NEW c \in Clients
      PROVE  /\ SameCommands(t.cl[c], r.cl[c]) /\ (t.cl[c].cas => r.cl[c].cas)
             /\ t.cl[c].missed \subseteq r.cl[c].missed
             /\ ~r.cl[c].cas => c \notin A
             /\ t.cl[c].watched \ r.cl[c].missed \subseteq t.cl[c].watched \ P
  <2>1. /\ SameCommands(t.cl[c], u.cl[c]) /\ u.cl[c].cas = (t.cl[c].cas \/ c \in A)
        /\ u.cl[c].missed = t.cl[c].missed \cup (P \cap t.cl[c].watched)
    BY DEF Marks
  <2>2. r.cl[c] = u.cl[c]
    OBVIOUS
  <2> QED
    BY <2>1, <2>2
<1>2. r.watch = t.watch /\ r.slave = t.slave /\ r.diskerr = t.diskerr
  BY DEF Marks
<1> QED
  BY <1>1, <1>2 DEF Executes

\* signalModifiedKey is called for what a command changes; by MOVE it is not.
LEMMA SignalMarks ==
    ASSUME T!TransactionsAssumption,
           NEW t \in ServerState, Matched(t), Values(t), NEW o \in T!Command
    PROVE  \E A, P : /\ Marks(t, T!Signal(t, o), A, P)
                     /\ \A c \in Clients : c \notin A =>
                          \A p \in t.cl[c].watched \ P : T!Effect(t.data, o, t.v + 1)[p] = t.data[p]
<1> DEFINE p0 == <<o.d, o.k>>
           ren == T!Renamed(o)
           to == <<T!Other(o.d), o.k>>
           new == T!Effect(t.data, o, t.v + 1)
<1>1. p0 \in T!Slots /\ o.op \in Ops
  BY DEF T!Command, T!Slots
<1>2. /\ o.op \in {"set", "del"} => \A p \in T!Slots : p # p0 => new[p] = t.data[p]
      /\ o.op = "rename" => \A p \in T!Slots : p \notin {p0, ren} => new[p] = t.data[p]
      /\ o.op = "move" => \A p \in T!Slots : p \notin {p0, to} => new[p] = t.data[p]
      /\ o.op = "flush" => \A p \in T!Slots : new[p] # t.data[p] => p[1] = o.d /\ t.data[p] # 0
      /\ o.op \in {"get", "bad"} => new = t.data
  <2>1. t.data \in [T!Slots -> Nat] /\ t.v + 1 \in Nat
    BY DEF ServerState
  <2>2. \A p \in T!Slots : t.data[p] <= t.v + 1
    BY DEF ServerState, Values
  <2> QED
    BY <2>1, <2>2, EffectIs
<1>3. ASSUME NEW c \in Clients, NEW p \in t.cl[c].watched PROVE p \in T!Slots /\ c \in t.watch[p]
  <2>1. p \in T!Slots
    BY DEF ServerState, ClientState
  <2> QED
    BY <2>1 DEF Matched
<1> HIDE DEF new, p0, ren, to
<1>4. CASE o.op \in {"set", "del"}
  <2>1. Marks(t, T!Signal(t, o), t.watch[p0], {})
    BY <1>4, CasMarks DEF T!Signal, T!touch, p0
  <2>2. \A c \in Clients : c \notin t.watch[p0] => \A p \in t.cl[c].watched : new[p] = t.data[p]
    BY <1>2, <1>3, <1>4
  <2> QED
    BY <2>1, <2>2 DEF new
<1>5. CASE o.op = "rename"
  <2> DEFINE u == T!touch(t, p0)
             A1 == t.watch[p0]
             A2 == u.watch[ren]
  <2>1. T!Signal(t, o) = T!touch(u, ren)
    BY <1>5 DEF T!Signal, p0, ren
  <2>2. Marks(t, u, A1, {})
    BY CasMarks DEF T!touch
  <2>3. Marks(u, T!touch(u, ren), A2, {})
    <3>1. u \in ServerState
      BY <2>2 DEF Marks
    <3> HIDE DEF u
    <3> QED
      BY <3>1, CasMarks DEF T!touch
  <2>4. A2 = t.watch[ren]
    BY <2>2 DEF Marks
  <2> HIDE DEF u, A1, A2
  <2>5. Marks(t, T!Signal(t, o), A1 \cup A2, {} \cup {})
    BY <2>1, <2>2, <2>3, MarksBoth
  <2>6. \A c \in Clients : c \notin A1 \cup A2 => \A p \in t.cl[c].watched : new[p] = t.data[p]
    BY <1>2, <1>3, <1>5, <2>4 DEF A1
  <2> QED
    BY <2>5, <2>6 DEF new
<1>6. CASE o.op = "flush"
  <2> DEFINE A == {c \in Clients : \E p \in t.cl[c].watched : p[1] \in {o.d} /\ t.data[p] # 0}
  <2>1. Marks(t, T!Signal(t, o), A, {})
    BY <1>6, CasMarks DEF T!Signal, T!touchWatchedKeysOnFlush
  <2>2. \A c \in Clients : c \notin A => \A p \in t.cl[c].watched : new[p] = t.data[p]
    BY <1>2, <1>3, <1>6
  <2> HIDE DEF A
  <2> QED
    BY <2>1, <2>2 DEF new
<1>7. CASE o.op = "move"
  <2> DEFINE P == {p0, to}
  <2>1. T!Signal(t, o) = T!Untold(t, P)
    BY <1>7 DEF T!Signal, p0, to
  <2>2. Marks(t, T!Signal(t, o), {}, P)
    BY <2>1, UntoldMarks
  <2>3. \A c \in Clients : \A p \in t.cl[c].watched \ P : new[p] = t.data[p]
    BY <1>2, <1>3, <1>7
  <2> HIDE DEF P
  <2> QED
    BY <2>2, <2>3 DEF new
<1>8. CASE o.op \notin {"set", "del", "rename", "flush", "move"}
  <2>1. T!Signal(t, o) = t
    BY <1>8 DEF T!Signal
  <2>2. Marks(t, t, {}, {})
    <3>1. \A c \in Clients : t.cl[c].cas \in BOOLEAN
      BY DEF ServerState, ClientState
    <3> QED
      BY <3>1 DEF Marks, SameCommands
  <2>3. new = t.data
    BY <1>1, <1>2, <1>8 DEF T!TransactionsAssumption
  <2> QED
    BY <2>1, <2>2, <2>3 DEF new
<1> QED
  BY <1>4, <1>5, <1>6, <1>7, <1>8

\* call: whatever it executes, the server is well-formed and WATCH is told, or has missed it.
LEMMA CallExecutes ==
    ASSUME T!TransactionsAssumption,
           NEW t \in ServerState, Matched(t), Values(t), NEW o \in T!Command, NEW st
    PROVE  Executes(t, T!call([s |-> t, stream |-> st], o).s)
<1>1. CASE ~T!Dirty(t, o)
  <2>1. T!call([s |-> t, stream |-> st], o).s = t
    BY <1>1 DEF T!call
  <2> QED
    BY <2>1 DEF Executes, SameCommands, ServerState
<1>2. CASE T!Dirty(t, o)
  <2> DEFINE u == T!Signal(t, o)
             new == T!Effect(t.data, o, t.v + 1)
             r == [u EXCEPT !.data = new, !.v = t.v + 1]
  <2>1. T!call([s |-> t, stream |-> st], o).s = r
    BY <1>2 DEF T!call
  <2>2. PICK A, P : /\ Marks(t, u, A, P)
                    /\ \A c \in Clients : c \notin A => \A p \in t.cl[c].watched \ P : new[p] = t.data[p]
    BY SignalMarks
  <2>3. new \in [T!Slots -> Nat] /\ \A p \in T!Slots : new[p] <= t.v + 1
    <3>1. t.data \in [T!Slots -> Nat] /\ t.v + 1 \in Nat
      BY DEF ServerState
    <3>2. \A p \in T!Slots : t.data[p] <= t.v + 1
      BY DEF ServerState, Values
    <3> QED
      BY <3>1, <3>2, EffectIs
  <2>4. u \in ServerState /\ t.v \in Nat
    BY <2>2 DEF Marks, ServerState
  <2> HIDE DEF u, new
  <2>5. r \in ServerState /\ r.data = new /\ r.v = t.v + 1 /\ r.cl = u.cl /\ r.watch = u.watch
        /\ r.slave = u.slave /\ r.diskerr = u.diskerr
    <3> DEFINE v1 == t.v + 1
    <3>1. v1 \in Nat
      BY <2>4
    <3> HIDE DEF v1
    <3>2. /\ [u EXCEPT !.data = new, !.v = v1] \in ServerState
          /\ [u EXCEPT !.data = new, !.v = v1].data = new /\ [u EXCEPT !.data = new, !.v = v1].v = v1
          /\ [u EXCEPT !.data = new, !.v = v1].cl = u.cl
          /\ [u EXCEPT !.data = new, !.v = v1].watch = u.watch
          /\ [u EXCEPT !.data = new, !.v = v1].slave = u.slave
          /\ [u EXCEPT !.data = new, !.v = v1].diskerr = u.diskerr
      BY <2>3, <2>4, <3>1 DEF ServerState
    <3> QED
      BY <3>2 DEF v1
  <2> HIDE DEF r
  <2>6. t.v <= r.v /\ Values(r)
    BY <2>3, <2>4, <2>5 DEF Values
  <2>7. \A c \in Clients : c \notin A => \A p \in t.cl[c].watched \ P : r.data[p] = t.data[p]
    BY <2>2, <2>5
  <2>8. Executes(t, r)
    BY <2>2, <2>5, <2>6, <2>7, MarkedExecutes
  <2> QED
    BY <2>1, <2>8
<1> QED
  BY <1>1, <1>2

LEMMA ExecutesBoth ==
    ASSUME NEW t \in ServerState, NEW u, NEW w, Executes(t, u), Executes(u, w)
    PROVE  Executes(t, w)
<1>1. t.v <= w.v
  BY DEF Executes, ServerState
<1>2. \A c \in Clients : /\ SameCommands(t.cl[c], w.cl[c]) /\ (t.cl[c].cas => w.cl[c].cas)
                         /\ t.cl[c].missed \subseteq w.cl[c].missed
  BY DEF Executes, SameCommands
<1>3. ASSUME NEW c \in Clients, ~w.cl[c].cas, NEW p \in t.cl[c].watched \ w.cl[c].missed
      PROVE  w.data[p] = t.data[p]
  <2>1. ~u.cl[c].cas /\ u.cl[c].watched = t.cl[c].watched /\ p \notin u.cl[c].missed
    BY <1>3 DEF Executes, SameCommands
  <2>2. w.data[p] = u.data[p] /\ u.data[p] = t.data[p]
    BY <1>3, <2>1 DEF Executes
  <2> QED
    BY <2>2
<1> QED
  BY <1>1, <1>2, <1>3 DEF Executes

\* The commands of a transaction, one after the other.
\* The state of execCommand while it executes what t had queued.
Turning(t, x) == \E u, st, m : x = [s |-> u, stream |-> st, multi |-> m] /\ Executes(t, u)

LEMMA TurnExecutes ==
    ASSUME T!TransactionsAssumption, NEW t \in ServerState, Matched(t),
           NEW x, Turning(t, x), NEW o \in T!Command
    PROVE  Turning(t, T!ExecTurn(x, o))
<1>0. PICK u, st, m : x = [s |-> u, stream |-> st, multi |-> m] /\ Executes(t, u)
  BY DEF Turning
<1> DEFINE w == [s |-> u, stream |-> st, multi |-> m]
           w2 == IF ~w.multi /\ T!Write(o) THEN [w EXCEPT !.stream = T!Mark("multi", w), !.multi = TRUE] ELSE w
           r == T!call([s |-> u, stream |-> w2.stream], o)
<1>1. w2.s = u
  OBVIOUS
<1>2. T!ExecTurn(w, o) = [s |-> r.s, stream |-> r.stream, multi |-> w2.multi]
  BY <1>1 DEF T!ExecTurn
<1>3. u \in ServerState /\ Matched(u) /\ Values(u)
  BY <1>0 DEF Executes, Matched, SameCommands
<1> HIDE DEF w2
<1>4. Executes(u, r.s)
  BY <1>3, CallExecutes
<1> HIDE DEF r
<1>5. Executes(t, r.s)
  BY <1>0, <1>4, ExecutesBoth
<1> QED
  BY <1>0, <1>2, <1>5 DEF Turning

LEMMA TurnsExecute ==
    ASSUME T!TransactionsAssumption, NEW t \in ServerState, Matched(t), Values(t),
           NEW q \in Seq(T!Command), NEW st
    PROVE  Executes(t, T!ExecTurns([s |-> t, stream |-> st, multi |-> FALSE], q).s)
<1> DEFINE w == [s |-> t, stream |-> st, multi |-> FALSE]
<1>0. Len(q) \in Nat /\ \A i \in 1..Len(q) : q[i] \in T!Command
  OBVIOUS
<1>1. PICK h : RunsTo(h, w, q, Len(q)) /\ T!ExecTurns(w, q) = h[Len(q)]
  BY <1>0, RunFound
<1>2. Executes(t, t)
  BY DEF Executes, SameCommands, ServerState
<1>3. Turning(t, w)
  BY <1>2 DEF Turning
<1> HIDE DEF w
<1>5. \A i \in 0..Len(q) : Turning(t, h[i])
  <2> DEFINE S == {i \in 0..Len(q) : ~Turning(t, h[i])}
  <2> SUFFICES ASSUME S # {} PROVE FALSE
    OBVIOUS
  <2>1. PICK k \in S : \A i \in S : k <= i
    <3>1. S \in SUBSET Nat
      BY <1>0
    <3> HIDE DEF S
    <3> QED
      BY <3>1, Smallest
  <2>2. k # 0
    BY <1>0, <1>1, <1>3, <2>1 DEF RunsTo
  <2>3. k - 1 \in 0..Len(q) /\ k \in 1..Len(q) /\ k - 1 \notin S
    BY <1>0, <2>1, <2>2
  <2>4. Turning(t, h[k - 1])
    BY <2>3
  <2>5. h[k] = T!ExecTurn(h[k - 1], q[k])
    BY <1>0, <1>1, <2>2, <2>3 DEF RunsTo
  <2>6. Turning(t, h[k])
    BY <1>0, <2>3, <2>4, <2>5, TurnExecutes
  <2> QED
    BY <2>1, <2>6
<1>6. Turning(t, T!ExecTurns(w, q))
  BY <1>0, <1>1, <1>5
<1> QED
  BY <1>6 DEF Turning, w

-----------------------------------------------------------------------------
(* Transactions: the invariant                                             *)

\* A client that is not in a transaction has nothing queued, and no error noted; if a command
\* was refused that flags the transaction, the flag is set; a client that is not marked watches
\* what has not changed, or has missed the change.
ClientFine(x, vals) ==
    /\ ~x.multi => x.queue = <<>> /\ ~x.exec
    /\ x.refused \ {"readonly", "nested"} # {} => x.exec
    /\ ~x.cas => \A p \in x.watched \ x.missed : vals[p] = x.snap[p]
ServerInv(t) ==
    /\ t \in ServerState /\ Matched(t) /\ Values(t)
    /\ \A c \in Clients : ClientFine(t.cl[c], t.data)

\* Only the client c was changed.
Own(t, u, c) ==
    /\ u \in ServerState /\ Matched(u) /\ u.data = t.data /\ u.v = t.v
    /\ \A e \in Clients \ {c} : u.cl[e] = t.cl[e]

LEMMA OwnKeeps ==
    ASSUME NEW t, NEW u, NEW c \in Clients, Own(t, u, c), ServerInv(t), ClientFine(u.cl[c], t.data)
    PROVE  ServerInv(u)
<1>1. Values(u)
  BY DEF Own, Values, ServerInv
<1>2. ASSUME NEW e \in Clients PROVE ClientFine(u.cl[e], u.data)
  <2>1. u.data = t.data
    BY DEF Own
  <2>2. CASE e = c
    BY <2>1, <2>2
  <2>3. CASE e # c
    <3>1. u.cl[e] = t.cl[e]
      BY <2>3 DEF Own
    <3> QED
      BY <2>1, <3>1 DEF ServerInv
  <2> QED
    BY <2>2, <2>3
<1> QED
  BY <1>1, <1>2 DEF Own, ServerInv

SetClient(t, c, x, k) == [t EXCEPT !.cl = [t.cl EXCEPT ![c] = x], !.n = k]

\* The lists of clients that watch a key are not concerned.
LEMMA OwnSet ==
    ASSUME NEW t \in ServerState, Matched(t), NEW c \in Clients, NEW x \in ClientState,
           x.watched = t.cl[c].watched, NEW k \in Nat
    PROVE  Own(t, SetClient(t, c, x, k), c) /\ SetClient(t, c, x, k).cl[c] = x
<1> DEFINE new == [t.cl EXCEPT ![c] = x]
           u == [t EXCEPT !.cl = new, !.n = k]
<1>1. /\ new \in [Clients -> ClientState] /\ new[c] = x
      /\ \A e \in Clients \ {c} : new[e] = t.cl[e]
  BY DEF ServerState
<1> HIDE DEF new
<1>2. u \in ServerState /\ u.cl = new /\ u.watch = t.watch /\ u.data = t.data /\ u.v = t.v
  BY <1>1 DEF ServerState
<1> HIDE DEF u
<1>3. Matched(u)
  <2>1. \A e \in Clients : u.cl[e].watched = t.cl[e].watched
    BY <1>1, <1>2
  <2> QED
    BY <1>2, <2>1 DEF Matched
<1>4. Own(t, u, c) /\ u.cl[c] = x
  BY <1>1, <1>2, <1>3 DEF Own
<1> QED
  BY <1>4 DEF u, new, SetClient

\* A step that changes no more than one client, and not what it watches.
LEMMA SetKeeps ==
    ASSUME NEW t, ServerInv(t), NEW c \in Clients, NEW x \in ClientState,
           x.watched = t.cl[c].watched, NEW k \in Nat, ClientFine(x, t.data)
    PROVE  ServerInv(SetClient(t, c, x, k))
<1> DEFINE u == SetClient(t, c, x, k)
<1>1. Own(t, u, c) /\ u.cl[c] = x
  BY OwnSet DEF ServerInv
<1> HIDE DEF u
<1>2. ServerInv(u)
  BY <1>1, OwnKeeps
<1> QED
  BY <1>2 DEF u

LEMMA UnwatchOwn ==
    ASSUME NEW t \in ServerState, Matched(t), NEW c \in Clients
    PROVE  /\ Own(t, T!unwatchAllKeys(t, c), c) /\ T!unwatchAllKeys(t, c).n = t.n
           /\ T!unwatchAllKeys(t, c).cl[c]
                = [t.cl[c] EXCEPT !.watched = {}, !.missed = {}, !.snap = [p \in T!Slots |-> 0]]
           /\ T!unwatchAllKeys(t, c).cl[c] \in ClientState
<1> DEFINE none == [p \in T!Slots |-> 0]
           lists == [p \in T!Slots |-> t.watch[p] \ {c}]
           x == [t.cl[c] EXCEPT !.watched = {}, !.missed = {}, !.snap = none]
           new == [t.cl EXCEPT ![c] = x]
           u == [t EXCEPT !.watch = lists, !.cl = new]
<1>1. T!unwatchAllKeys(t, c) = u
  BY DEF T!unwatchAllKeys, ServerState
<1>2. none \in [T!Slots -> Nat] /\ lists \in [T!Slots -> SUBSET Clients]
  BY DEF ServerState
<1> HIDE DEF none
<1>3. t.cl[c] \in ClientState
  BY DEF ServerState
<1>4. x \in ClientState /\ x.watched = {}
  BY <1>2, <1>3 DEF ClientState
<1>5. /\ \A p \in T!Slots : lists[p] = t.watch[p] \ {c}
  OBVIOUS
<1> HIDE DEF x, lists
<1>6. /\ new \in [Clients -> ClientState] /\ new[c] = x
      /\ \A e \in Clients \ {c} : new[e] = t.cl[e]
  BY <1>4 DEF ServerState
<1> HIDE DEF new
<1>7. u \in ServerState /\ u.cl = new /\ u.watch = lists /\ u.data = t.data /\ u.v = t.v
      /\ u.n = t.n
  BY <1>2, <1>6 DEF ServerState
<1> HIDE DEF u
<1>8. Matched(u)
  BY <1>4, <1>5, <1>6, <1>7 DEF Matched
<1>9. Own(t, u, c) /\ u.cl[c] = x
  BY <1>6, <1>7, <1>8 DEF Own
<1> QED
  BY <1>1, <1>4, <1>7, <1>9 DEF x, none

LEMMA UnwatchKeeps ==
    ASSUME NEW t, ServerInv(t), NEW c \in Clients
    PROVE  ServerInv(T!unwatchAllKeys(t, c)) /\ T!unwatchAllKeys(t, c).cl[c].watched = {}
<1> DEFINE u == T!unwatchAllKeys(t, c)
           y == t.cl[c]
<1>1. t \in ServerState /\ Matched(t)
  BY DEF ServerInv
<1>2. Own(t, u, c) /\ u.cl[c] = [y EXCEPT !.watched = {}, !.missed = {}, !.snap = [p \in T!Slots |-> 0]]
  BY <1>1, UnwatchOwn
<1>3. y \in ClientState
  BY <1>1 DEF ServerState
<1>4. ClientFine(y, t.data)
  BY DEF ServerInv
<1> HIDE DEF u, y
<1>5. /\ u.cl[c].watched = {} /\ u.cl[c].multi = y.multi /\ u.cl[c].exec = y.exec
      /\ u.cl[c].queue = y.queue /\ u.cl[c].refused = y.refused
  BY <1>2, <1>3 DEF ClientState
<1>6. ClientFine(u.cl[c], t.data)
  BY <1>4, <1>5 DEF ClientFine
<1>7. ServerInv(u)
  BY <1>2, <1>6, OwnKeeps
<1> QED
  BY <1>5, <1>7 DEF u

\* DISCARD, the end of EXEC, and a client that goes.
LEMMA DiscardKeeps ==
    ASSUME NEW t, ServerInv(t), NEW c \in Clients
    PROVE  ServerInv(T!discardTransaction(t, c))
<1> DEFINE w == T!unwatchAllKeys(t, c)
           y == w.cl[c]
           x == T!NoMulti(y)
           u == SetClient(w, c, x, w.n)
<1>1. ServerInv(w) /\ y.watched = {}
  BY UnwatchKeeps
<1>2. w \in ServerState /\ w.n \in Nat /\ y \in ClientState
  BY <1>1 DEF ServerInv, ServerState
<1> HIDE DEF w
<1>3. T!discardTransaction(t, c) = u
  <2>1. T!discardTransaction(t, c) = [w EXCEPT !.cl[c] = x]
    BY DEF T!discardTransaction, w
  <2>2. [w EXCEPT !.cl[c] = x] = [w EXCEPT !.cl = [w.cl EXCEPT ![c] = x], !.n = w.n]
    <3> HIDE DEF x
    <3> QED
      BY <1>2 DEF ServerState
  <2> QED
    BY <2>1, <2>2 DEF SetClient
<1>4. /\ x \in ClientState /\ x.watched = y.watched /\ x.queue = <<>>
      /\ ~x.exec /\ x.refused = {}
  <2>1. <<>> \in Seq(T!Command)
    OBVIOUS
  <2> HIDE DEF y
  <2>2. x = [y EXCEPT !.multi = FALSE, !.cas = FALSE, !.exec = FALSE, !.queue = <<>>, !.refused = {}]
    BY DEF T!NoMulti
  <2> HIDE DEF x
  <2>3. x \in ClientState /\ x.watched = y.watched /\ x.queue = <<>> /\ ~x.exec /\ x.refused = {}
    BY <1>2, <2>1, <2>2 DEF ClientState
  <2> QED
    BY <2>3
<1> HIDE DEF x
<1>5. ClientFine(x, w.data)
  BY <1>1, <1>4 DEF ClientFine
<1>6. ServerInv(u)
  BY <1>1, <1>2, <1>4, <1>5, SetKeeps
<1> QED
  BY <1>3, <1>6

\* What commands of others and of the transaction itself leave of the invariant.
LEMMA ExecutesKeeps ==
    ASSUME NEW t, ServerInv(t), NEW u, Executes(t, u)
    PROVE  ServerInv(u)
<1>1. u \in ServerState /\ Values(u)
  BY DEF Executes
<1>2. Matched(u)
  BY DEF ServerInv, Executes, Matched, SameCommands
<1>3. ASSUME NEW c \in Clients PROVE ClientFine(u.cl[c], u.data)
  <2> DEFINE x == t.cl[c]
             y == u.cl[c]
  <2>1. /\ SameCommands(x, y) /\ (x.cas => y.cas) /\ x.missed \subseteq y.missed
        /\ ~y.cas => \A p \in x.watched \ y.missed : u.data[p] = t.data[p]
    BY DEF Executes
  <2>2. ClientFine(x, t.data)
    BY DEF ServerInv
  <2> HIDE DEF x, y
  <2>3. ASSUME ~y.cas, NEW p \in y.watched \ y.missed PROVE u.data[p] = y.snap[p]
    <3>1. ~x.cas /\ p \in x.watched \ x.missed /\ p \in x.watched \ y.missed
      BY <2>1, <2>3 DEF SameCommands
    <3>2. u.data[p] = t.data[p] /\ t.data[p] = x.snap[p]
      BY <2>1, <2>2, <2>3, <3>1 DEF ClientFine
    <3> QED
      BY <2>1, <3>2 DEF SameCommands
  <2>4. ClientFine(y, u.data)
    BY <2>1, <2>2, <2>3 DEF ClientFine, SameCommands
  <2> QED
    BY <2>4 DEF y
<1> QED
  BY <1>1, <1>2, <1>3 DEF ServerInv

\* One more command.
LEMMA CountKeeps ==
    ASSUME NEW t, ServerInv(t)
    PROVE  ServerInv(T!Count(t))
<1>1. t \in ServerState /\ t.n \in Nat
  BY DEF ServerInv, ServerState
<1> DEFINE u == T!Count(t)
<1>2. u \in ServerState /\ u.data = t.data /\ u.v = t.v /\ u.cl = t.cl /\ u.watch = t.watch
  BY <1>1 DEF T!Count, ServerState
<1> HIDE DEF u
<1>3. ServerInv(u)
  BY <1>2 DEF ServerInv, Matched, Values
<1> QED
  BY <1>3 DEF u

\* A command is refused, and the transaction flagged if the reason is one that flags.
LEMMA RefusedKeeps ==
    ASSUME ServerInv(srv), NEW c \in Clients, NEW why \in Reasons
    PROVE  ServerInv(T!Refused(c, why))
<1>0. srv \in ServerState /\ srv.n \in Nat
  BY DEF ServerInv, ServerState
<1>1. CASE ~srv.cl[c].multi
  BY <1>1 DEF T!Refused
<1>2. CASE srv.cl[c].multi
  <2> DEFINE y == srv.cl[c]
             e == y.exec \/ why \in T!Flagging
             rs == y.refused \cup {why}
             x == [y EXCEPT !.exec = e, !.refused = rs]
  <2>1. y \in ClientState /\ ClientFine(y, srv.data) /\ y.multi
    BY <1>0, <1>2 DEF ServerInv, ServerState
  <2>2. T!Refused(c, why) = SetClient(srv, c, x, srv.n)
    <3>1. T!Refused(c, why)
            = [srv EXCEPT !.cl[c].exec = @ \/ why \in T!Flagging, !.cl[c].refused = @ \cup {why}]
      BY <1>2 DEF T!Refused
    <3>2. [srv EXCEPT !.cl[c].exec = @ \/ why \in T!Flagging, !.cl[c].refused = @ \cup {why}]
            = [srv EXCEPT !.cl = [srv.cl EXCEPT ![c] = x], !.n = srv.n]
      BY <1>0, <2>1 DEF ServerState, ClientState
    <3> QED
      BY <3>1, <3>2 DEF SetClient
  <2>3. e \in BOOLEAN /\ rs \in SUBSET Reasons
    BY <2>1 DEF ClientState
  <2>4. rs \ {"readonly", "nested"} # {} => e
    <3>1. why \in {"readonly", "nested"} \/ why \in T!Flagging
      BY DEF Reasons, T!Flagging
    <3> QED
      BY <2>1, <3>1 DEF ClientFine
  <2> HIDE DEF e, rs, y
  <2>5. /\ x \in ClientState /\ x.watched = y.watched /\ x.multi = y.multi /\ x.exec = e
        /\ x.refused = rs /\ x.cas = y.cas /\ x.snap = y.snap /\ x.missed = y.missed
    BY <2>1, <2>3 DEF ClientState
  <2> HIDE DEF x
  <2>6. ClientFine(x, srv.data)
    BY <2>1, <2>4, <2>5 DEF ClientFine
  <2>7. x.watched = srv.cl[c].watched
    BY <2>5 DEF y
  <2>8. ServerInv(SetClient(srv, c, x, srv.n))
    BY <1>0, <2>5, <2>6, <2>7, SetKeeps
  <2> QED
    BY <2>2, <2>8
<1> QED
  BY <1>1, <1>2

LEMMA ProcessKeeps ==
    ASSUME T!TransactionsAssumption, ServerInv(srv), NEW c \in Clients, NEW o \in T!Command,
           T!processCommand(c, o)
    PROVE  ServerInv(srv')
<1>1. CASE srv' = T!Count(T!Refused(c, T!Refusal(srv, o))) /\ T!Refusal(srv, o) # ""
  <2> DEFINE why == T!Refusal(srv, o)
  <2>1. why \in Reasons
    BY <1>1 DEF T!Refusal, Reasons
  <2> HIDE DEF why
  <2>2. ServerInv(T!Refused(c, why))
    BY <2>1, RefusedKeeps
  <2>3. ServerInv(T!Count(T!Refused(c, why)))
    BY <2>2, CountKeeps
  <2> QED
    BY <1>1, <2>3 DEF why
<1>2. CASE srv' = T!queueMultiCommand(T!Count(srv), c, o) /\ srv.cl[c].multi
  <2> DEFINE t == T!Count(srv)
             y == t.cl[c]
             q == Append(y.queue, o)
             x == [y EXCEPT !.queue = q]
  <2>1. ServerInv(t)
    BY CountKeeps
  <2>2. t.cl = srv.cl
    BY DEF T!Count, ServerInv, ServerState
  <2> HIDE DEF t
  <2>3. t \in ServerState /\ t.n \in Nat /\ y \in ClientState /\ ClientFine(y, t.data) /\ y.multi
    BY <1>2, <2>1, <2>2 DEF ServerInv, ServerState
  <2>4. srv' = SetClient(t, c, x, t.n)
    <3>1. srv' = [t EXCEPT !.cl[c].queue = Append(@, o)]
      BY <1>2 DEF T!queueMultiCommand, t
    <3>2. [t EXCEPT !.cl[c].queue = Append(@, o)] = [t EXCEPT !.cl = [t.cl EXCEPT ![c] = x], !.n = t.n]
      BY <2>3 DEF ServerState
    <3> QED
      BY <3>1, <3>2 DEF SetClient
  <2>5. q \in Seq(T!Command)
    BY <2>3 DEF ClientState
  <2> HIDE DEF q, y
  <2>6. /\ x \in ClientState /\ x.watched = y.watched /\ x.multi = y.multi /\ x.exec = y.exec
        /\ x.refused = y.refused /\ x.cas = y.cas /\ x.snap = y.snap /\ x.missed = y.missed
    BY <2>3, <2>5 DEF ClientState
  <2> HIDE DEF x
  <2>7. ClientFine(x, t.data) /\ x.watched = t.cl[c].watched
    BY <2>3, <2>6 DEF ClientFine, y
  <2>8. ServerInv(SetClient(t, c, x, t.n))
    BY <2>1, <2>3, <2>6, <2>7, SetKeeps
  <2> QED
    BY <2>4, <2>8
<1>3. CASE srv' = T!call([s |-> T!Count(srv), stream |-> stream], o).s
  <2> DEFINE t == T!Count(srv)
  <2>1. ServerInv(t)
    BY CountKeeps
  <2> HIDE DEF t
  <2>2. Executes(t, T!call([s |-> t, stream |-> stream], o).s)
    BY <2>1, CallExecutes DEF ServerInv
  <2>3. ServerInv(T!call([s |-> t, stream |-> stream], o).s)
    BY <2>1, <2>2, ExecutesKeeps
  <2> QED
    BY <1>3, <2>3 DEF t
<1> QED
  BY <1>1, <1>2, <1>3 DEF T!processCommand

LEMMA MultiKeeps ==
    ASSUME ServerInv(srv), NEW c \in Clients, T!multiCommand(c)
    PROVE  ServerInv(srv')
<1>0. srv \in ServerState /\ srv.n \in Nat
  BY DEF ServerInv, ServerState
<1> DEFINE y == srv.cl[c]
           x == [y EXCEPT !.multi = TRUE]
<1>1. CASE y.multi
  <2>1. srv' = T!Refused(c, "nested")
    BY <1>1 DEF T!multiCommand
  <2> QED
    BY <2>1, RefusedKeeps DEF Reasons
<1>2. CASE ~y.multi
  <2>1. y \in ClientState /\ ClientFine(y, srv.data)
    BY <1>0 DEF ServerInv, ServerState
  <2>2. srv' = SetClient(srv, c, x, srv.n)
    <3>1. srv' = [srv EXCEPT !.cl[c].multi = TRUE]
      BY <1>2 DEF T!multiCommand
    <3>2. [srv EXCEPT !.cl[c].multi = TRUE] = [srv EXCEPT !.cl = [srv.cl EXCEPT ![c] = x], !.n = srv.n]
      BY <1>0 DEF ServerState
    <3> QED
      BY <3>1, <3>2 DEF SetClient
  <2> HIDE DEF y
  <2>3. /\ x \in ClientState /\ x.watched = y.watched /\ x.multi /\ x.exec = y.exec
        /\ x.refused = y.refused /\ x.cas = y.cas /\ x.snap = y.snap /\ x.missed = y.missed
    BY <2>1 DEF ClientState
  <2> HIDE DEF x
  <2>4. ClientFine(x, srv.data) /\ x.watched = srv.cl[c].watched
    BY <2>1, <2>3 DEF ClientFine, y
  <2>5. ServerInv(SetClient(srv, c, x, srv.n))
    BY <1>0, <2>3, <2>4, SetKeeps
  <2> QED
    BY <2>2, <2>5
<1> QED
  BY <1>1, <1>2

LEMMA UnwatchCommandKeeps ==
    ASSUME ServerInv(srv), NEW c \in Clients, T!unwatchCommand(c)
    PROVE  ServerInv(srv')
<1> DEFINE t == T!unwatchAllKeys(srv, c)
           y == t.cl[c]
           x == [y EXCEPT !.cas = FALSE]
<1>1. ServerInv(t) /\ y.watched = {}
  BY UnwatchKeeps
<1>2. srv' = [t EXCEPT !.cl[c].cas = FALSE]
  BY DEF T!unwatchCommand
<1> HIDE DEF t
<1>3. t \in ServerState /\ t.n \in Nat /\ y \in ClientState /\ ClientFine(y, t.data)
  BY <1>1 DEF ServerInv, ServerState
<1>4. srv' = SetClient(t, c, x, t.n)
  <2>1. [t EXCEPT !.cl[c].cas = FALSE] = [t EXCEPT !.cl = [t.cl EXCEPT ![c] = x], !.n = t.n]
    BY <1>3 DEF ServerState
  <2> QED
    BY <1>2, <2>1 DEF SetClient
<1> HIDE DEF y
<1>5. /\ x \in ClientState /\ x.watched = y.watched /\ x.multi = y.multi /\ x.exec = y.exec
      /\ x.refused = y.refused /\ x.queue = y.queue
  BY <1>3 DEF ClientState
<1> HIDE DEF x
<1>6. ClientFine(x, t.data) /\ x.watched = t.cl[c].watched
  BY <1>1, <1>3, <1>5 DEF ClientFine, y
<1>7. ServerInv(SetClient(t, c, x, t.n))
  BY <1>1, <1>3, <1>5, <1>6, SetKeeps
<1> QED
  BY <1>4, <1>7

LEMMA ExecKeeps ==
    ASSUME T!TransactionsAssumption, ServerInv(srv), NEW c \in Clients, T!execCommand(c)
    PROVE  ServerInv(srv')
<1>1. CASE srv' = T!discardTransaction(srv, c)
  BY <1>1, DiscardKeeps
<1>2. CASE ~T!Aborts(c)
  <2> DEFINE t == T!unwatchAllKeys(srv, c)
             q == srv.cl[c].queue
             u == T!ExecTurns([s |-> t, stream |-> stream, multi |-> FALSE], q).s
  <2>1. ServerInv(t)
    BY UnwatchKeeps
  <2>2. q \in Seq(T!Command)
    BY DEF ServerInv, ServerState, ClientState
  <2>3. srv' = T!discardTransaction(u, c)
    BY <1>2 DEF T!execCommand
  <2> HIDE DEF t, q
  <2>4. Executes(t, u)
    BY <2>1, <2>2, TurnsExecute DEF ServerInv
  <2> HIDE DEF u
  <2>5. ServerInv(u)
    BY <2>1, <2>4, ExecutesKeeps
  <2> QED
    BY <2>3, <2>5, DiscardKeeps
<1> QED
  BY <1>1, <1>2 DEF T!execCommand

LEMMA WatchKeeps ==
    ASSUME ServerInv(srv), NEW c \in Clients, NEW p \in T!Slots, T!watchCommand(c, p)
    PROVE  ServerInv(srv')
<1>0. srv \in ServerState /\ Matched(srv) /\ Values(srv)
  BY DEF ServerInv
<1>1. CASE srv.cl[c].multi
  <2>1. srv' = T!Refused(c, "nested")
    BY <1>1 DEF T!watchCommand
  <2> QED
    BY <2>1, RefusedKeeps DEF Reasons
<1>2. CASE ~srv.cl[c].multi /\ p \in srv.cl[c].watched
  <2>1. srv' = srv
    BY <1>2 DEF T!watchCommand, T!watchForKey
  <2> QED
    BY <2>1
<1>3. CASE ~srv.cl[c].multi /\ p \notin srv.cl[c].watched
  <2> DEFINE y == srv.cl[c]
             value == srv.data[p]
             W == y.watched \cup {p}
             snaps == [y.snap EXCEPT ![p] = value]
             x == [y EXCEPT !.watched = W, !.snap = snaps]
             new == [srv.cl EXCEPT ![c] = x]
             lists == [srv.watch EXCEPT ![p] = @ \cup {c}]
             u == [srv EXCEPT !.watch = lists, !.cl = new]
  <2>1. srv' = u
    <3>1. x = T!Watching(y, p, value)
      BY <1>0 DEF ServerState, ClientState, T!Watching
    <3>2. srv' = [srv EXCEPT !.watch[p] = @ \cup {c}, !.cl[c] = T!Watching(y, p, value)]
      BY <1>3 DEF T!watchCommand, T!watchForKey
    <3> HIDE DEF x, y, value
    <3>3. srv' = [srv EXCEPT !.watch[p] = @ \cup {c}, !.cl[c] = x]
      BY <3>1, <3>2
    <3> QED
      BY <1>0, <3>3 DEF ServerState
  <2>2. y \in ClientState /\ value \in Nat /\ ClientFine(y, srv.data)
    BY <1>0 DEF ServerInv, ServerState
  <2>3. /\ lists \in [T!Slots -> SUBSET Clients] /\ lists[p] = srv.watch[p] \cup {c}
        /\ \A r \in T!Slots \ {p} : lists[r] = srv.watch[r]
    BY <1>0 DEF ServerState
  <2> HIDE DEF lists, y
  <2>5. /\ snaps \in [T!Slots -> Nat] /\ snaps[p] = value
        /\ \A r \in T!Slots \ {p} : snaps[r] = y.snap[r]
        /\ W \in SUBSET T!Slots
    BY <2>2 DEF ClientState
  <2> HIDE DEF snaps, W
  <2>6. /\ x \in ClientState /\ x.watched = W /\ x.multi = y.multi /\ x.exec = y.exec
        /\ x.refused = y.refused /\ x.queue = y.queue /\ x.cas = y.cas /\ x.snap = snaps
        /\ x.missed = y.missed
    BY <2>2, <2>5 DEF ClientState
  <2> HIDE DEF x
  <2>7. /\ new \in [Clients -> ClientState] /\ new[c] = x
        /\ \A e \in Clients \ {c} : new[e] = srv.cl[e]
    BY <1>0, <2>6 DEF ServerState
  <2> HIDE DEF new
  <2>8. u \in ServerState /\ u.cl = new /\ u.watch = lists /\ u.data = srv.data /\ u.v = srv.v
    BY <1>0, <2>3, <2>7 DEF ServerState
  <2> HIDE DEF u
  <2>9. Matched(u)
    <3> SUFFICES ASSUME NEW r \in T!Slots PROVE lists[r] = {e \in Clients : r \in new[e].watched}
      BY <2>8 DEF Matched
    <3>1. srv.watch[r] = {e \in Clients : r \in srv.cl[e].watched}
      BY <1>0 DEF Matched
    <3>2. \A e \in Clients : r \in new[e].watched <=> r \in srv.cl[e].watched \/ (e = c /\ r = p)
      BY <2>6, <2>7 DEF W, y
    <3> QED
      BY <2>3, <3>1, <3>2
  <2>10. Own(srv, u, c) /\ u.cl[c] = x
    BY <2>7, <2>8, <2>9 DEF Own
  <2>11. ASSUME ~x.cas, NEW r \in x.watched \ x.missed PROVE srv.data[r] = x.snap[r]
    <3>1. r \in T!Slots
      BY <2>5, <2>6, <2>11
    <3>2. CASE r = p
      BY <2>5, <2>6, <3>2 DEF value
    <3>3. CASE r # p
      <4>1. r \in y.watched \ y.missed /\ ~y.cas /\ x.snap[r] = y.snap[r]
        BY <2>5, <2>6, <2>11, <3>1, <3>3 DEF W
      <4> QED
        BY <2>2, <4>1 DEF ClientFine
    <3> QED
      BY <3>2, <3>3
  <2>12. ClientFine(x, srv.data)
    BY <2>2, <2>6, <2>11 DEF ClientFine
  <2> QED
    BY <2>1, <2>10, <2>12, OwnKeeps
<1> QED
  BY <1>1, <1>2, <1>3

\* A key goes: by eviction, or because it has expired.
LEMMA GoneKeeps ==
    ASSUME ServerInv(srv), NEW p \in T!Slots
    PROVE  ServerInv(T!Gone(srv, p))
<1> DEFINE u == T!Untold(srv, {p})
           new == [srv.data EXCEPT ![p] = 0]
           r == [u EXCEPT !.data = new]
<1>1. srv \in ServerState
  BY DEF ServerInv
<1>2. Marks(srv, u, {}, {p})
  BY <1>1, UntoldMarks
<1>3. u \in ServerState /\ u.data = srv.data /\ u.v = srv.v
  BY <1>2 DEF Marks
<1>4. T!Gone(srv, p) = r
  BY <1>3 DEF T!Gone, ServerState
<1>5. /\ new \in [T!Slots -> Nat] /\ \A q \in T!Slots : new[q] = IF q = p THEN 0 ELSE srv.data[q]
  BY <1>1 DEF ServerState
<1> HIDE DEF new, u
<1>6. /\ r \in ServerState /\ r.data = new /\ r.v = u.v /\ r.cl = u.cl /\ r.watch = u.watch
      /\ r.slave = u.slave /\ r.diskerr = u.diskerr
  BY <1>3, <1>5 DEF ServerState
<1> HIDE DEF r
<1>7. srv.v <= r.v /\ Values(r)
  BY <1>1, <1>3, <1>5, <1>6 DEF ServerInv, Values, ServerState
<1>8. \A c \in Clients : \A q \in srv.cl[c].watched \ {p} : r.data[q] = srv.data[q]
  BY <1>1, <1>5, <1>6 DEF ServerState, ClientState
<1>9. Executes(srv, r)
  BY <1>1, <1>2, <1>6, <1>7, <1>8, MarkedExecutes
<1> QED
  BY <1>4, <1>9, ExecutesKeeps

LEMMA ResyncKeeps ==
    ASSUME ServerInv(srv), NEW p \in T!Slots, T!resync(p)
    PROVE  ServerInv(srv')
<1> DEFINE A == {c \in Clients : \E r \in srv.cl[c].watched : r[1] \in Dbs /\ srv.data[r] # 0}
           P == {q \in {p} : srv.data[q] = 0}
           w == T!touchWatchedKeysOnFlush(srv, Dbs)
           u == T!Untold(w, P)
           v1 == srv.v + 1
           n1 == srv.n + 1
           new == [q \in T!Slots |-> IF q = p THEN v1 ELSE 0]
<1>1. srv \in ServerState /\ v1 \in Nat /\ n1 \in Nat /\ srv.v \in Nat /\ srv.n \in Nat
  BY DEF ServerInv, ServerState
<1>2. Marks(srv, w, A, {})
  BY <1>1, CasMarks DEF T!touchWatchedKeysOnFlush
<1>3. Marks(w, u, {}, P)
  <2>1. w \in ServerState
    BY <1>2 DEF Marks
  <2> HIDE DEF w, P
  <2> QED
    BY <2>1, UntoldMarks
<1>4. u.n = srv.n /\ u.v = srv.v /\ u \in ServerState
  BY <1>2, <1>3 DEF Marks
<1>5. srv' = [u EXCEPT !.data = new, !.v = v1, !.n = n1]
  BY <1>4 DEF T!resync
<1>6. new \in [T!Slots -> Nat] /\ \A q \in T!Slots : new[q] <= v1 /\ (q # p => new[q] = 0)
  BY <1>1
<1>7. ASSUME NEW c \in Clients, c \notin A, NEW q \in srv.cl[c].watched \ P PROVE new[q] = srv.data[q]
  <2>1. q \in T!Slots
    BY <1>1 DEF ServerState, ClientState
  <2>2. q[1] \in Dbs
    BY <2>1 DEF T!Slots
  <2>3. srv.data[q] = 0
    BY <1>7, <2>2
  <2>4. q # p
    BY <1>7, <2>3
  <2> QED
    BY <1>6, <2>1, <2>3, <2>4
<1>8. srv.v <= v1
  BY <1>1
<1> HIDE DEF A, P, w, u, new, v1, n1
<1>9. Marks(srv, u, A \cup {}, {} \cup P)
  BY <1>2, <1>3, MarksBoth
<1>10. /\ srv' \in ServerState /\ srv'.data = new /\ srv'.v = v1
       /\ srv'.slave = u.slave /\ srv'.cl = u.cl /\ srv'.watch = u.watch /\ srv'.diskerr = u.diskerr
  BY <1>1, <1>4, <1>5, <1>6 DEF ServerState
<1>11. Values(srv')
  BY <1>6, <1>10 DEF Values
<1>12. Executes(srv, srv')
  <2> DEFINE r == srv'
             B == A \cup {}
             Q == {} \cup P
  <2>1. \A c \in Clients : c \notin B => \A q \in srv.cl[c].watched \ Q : r.data[q] = srv.data[q]
    BY <1>7, <1>10
  <2>2. /\ r \in ServerState /\ r.cl = u.cl /\ r.watch = u.watch /\ r.slave = u.slave
        /\ r.diskerr = u.diskerr /\ srv.v <= r.v /\ Values(r) /\ Marks(srv, u, B, Q)
    BY <1>8, <1>9, <1>10, <1>11
  <2> HIDE DEF r, B, Q
  <2>3. Executes(srv, r)
    BY <1>1, <2>1, <2>2, MarkedExecutes
  <2> QED
    BY <2>3 DEF r
<1> QED
  BY <1>12, ExecutesKeeps

LEMMA RoleKeeps ==
    ASSUME ServerInv(srv), T!diskError \/ T!slaveof
    PROVE  ServerInv(srv')
<1>1. srv \in ServerState
  BY DEF ServerInv
<1>2. /\ srv' \in ServerState /\ srv'.data = srv.data /\ srv'.v = srv.v /\ srv'.cl = srv.cl
      /\ srv'.watch = srv.watch
  BY <1>1 DEF T!diskError, T!slaveof, ServerState
<1> QED
  BY <1>2 DEF ServerInv, Matched, Values

LEMMA TransactionsInitially ==
    ASSUME T!TransactionsAssumption, T!Init
    PROVE  ServerInv(srv)
<1> DEFINE none == [p \in T!Slots |-> 0]
           nobody == [p \in T!Slots |-> {}]
           x == [multi |-> FALSE, cas |-> FALSE, exec |-> FALSE, queue |-> <<>>, refused |-> {},
                 watched |-> {}, missed |-> {}, snap |-> none]
           cls == [c \in Clients |-> x]
<1>1. srv = [data |-> none, watch |-> nobody, n |-> 0, v |-> 0, slave |-> FALSE, diskerr |-> FALSE, cl |-> cls]
  BY DEF T!Init
<1>2. /\ none \in [T!Slots -> Nat] /\ \A p \in T!Slots : none[p] = 0
      /\ nobody \in [T!Slots -> SUBSET Clients] /\ \A p \in T!Slots : nobody[p] = {}
  OBVIOUS
<1> HIDE DEF none, nobody
<1>3. x \in ClientState
  BY <1>2 DEF ClientState
<1>4. x.multi = FALSE /\ x.exec = FALSE /\ x.refused = {} /\ x.watched = {} /\ x.queue = <<>>
  OBVIOUS
<1> HIDE DEF x
<1>5. cls \in [Clients -> ClientState] /\ \A c \in Clients : cls[c] = x
  BY <1>3
<1> HIDE DEF cls
<1>6. srv \in ServerState
  BY <1>1, <1>2, <1>5 DEF ServerState
<1>7. Matched(srv) /\ Values(srv)
  BY <1>1, <1>2, <1>4, <1>5 DEF Matched, Values
<1>8. \A c \in Clients : ClientFine(srv.cl[c], srv.data)
  BY <1>1, <1>4, <1>5 DEF ClientFine
<1> QED
  BY <1>6, <1>7, <1>8 DEF ServerInv

LEMMA TransactionsStep ==
    ASSUME T!TransactionsAssumption, ServerInv(srv), [T!Next]_T!vars
    PROVE  ServerInv(srv')
<1>1. ASSUME NEW c \in Clients, T!discardCommand(c) \/ T!disconnect(c) PROVE ServerInv(srv')
  BY <1>1, DiscardKeeps DEF T!discardCommand, T!disconnect
<1>2. ASSUME NEW p \in T!Slots, T!evict(p) \/ T!expire(p) PROVE ServerInv(srv')
  BY <1>2, GoneKeeps DEF T!evict, T!expire
<1>3. CASE T!slaveReads \/ UNCHANGED T!vars
  BY <1>3 DEF T!slaveReads, T!vars
<1> QED
  BY <1>1, <1>2, <1>3, ProcessKeeps, MultiKeeps, ExecKeeps, WatchKeeps, UnwatchCommandKeeps,
     ResyncKeeps, RoleKeeps DEF T!Next

\* watchForKey, unwatchAllKeys: the list of clients of a key and the list of keys of a client
\* agree, whatever is executed; a client outside MULTI has nothing queued.
THEOREM WatchTablesAgree ==
    ASSUME T!TransactionsAssumption
    PROVE  T!Spec => [](T!TypeOK /\ T!WatchersMatch)
<1>1. ServerInv(srv) => T!TypeOK /\ T!WatchersMatch
  BY DEF ServerInv, ServerState, Matched, Values, ClientFine, T!TypeOK, T!WatchersMatch
<1>2. ServerInv(srv) /\ [T!Next]_T!vars => ServerInv(srv)'
  BY TransactionsStep
<1>3. T!Init => ServerInv(srv)
  BY TransactionsInitially
<1> QED
  BY <1>1, <1>2, <1>3, PTL DEF T!Spec

\* execCommand: what is not aborted finds every key its client watches as it was when it was
\* watched, except for those that MOVE, eviction, expiry or a resynchronization has changed.
THEOREM ExecHonoursWatch ==
    ASSUME T!TransactionsAssumption
    PROVE  T!Spec => []T!WatchHonoured
<1>1. ServerInv(srv) => T!WatchHonoured
  BY DEF ServerInv, ClientFine, T!WatchHonoured, T!Aborts
<1>2. ServerInv(srv) /\ [T!Next]_T!vars => ServerInv(srv)'
  BY TransactionsStep
<1>3. T!Init => ServerInv(srv)
  BY TransactionsInitially
<1> QED
  BY <1>1, <1>2, <1>3, PTL DEF T!Spec

\* flagTransaction: a transaction of which a command was refused is aborted, but for a write
\* at a read-only slave and for MULTI and WATCH.
THEOREM RefusalAborts ==
    ASSUME T!TransactionsAssumption
    PROVE  T!Spec => []T!RefusedAborts
<1>1. ServerInv(srv) => T!RefusedAborts
  BY DEF ServerInv, ClientFine, T!RefusedAborts
<1>2. ServerInv(srv) /\ [T!Next]_T!vars => ServerInv(srv)'
  BY TransactionsStep
<1>3. T!Init => ServerInv(srv)
  BY TransactionsInitially
<1> QED
  BY <1>1, <1>2, <1>3, PTL DEF T!Spec

-----------------------------------------------------------------------------
(* The append only file: what a file is, command by command                *)

CONSTANTS Policy, MaxRewrites, MaxSwitches, MaxCrashes, PowerFails, CrashInSwap, StartInRewrite
VARIABLES ao, synced, jobs, pipe, rwbuf, swap, acked, ghost
A == INSTANCE Aof WITH aof <- ao

Entries == {"sel", "cmd", "snap"} \X Int
Bytes == Entries \X {1, 2}
\* The bytes b are those of the entries es, all of them whole.
Whole(b, es) ==
    /\ b \in Seq(Bytes) /\ es \in Seq(Entries) /\ Len(b) = 2 * Len(es)
    /\ \A k \in 1..Len(es) : b[2 * k - 1] = <<es[k], 1>> /\ b[2 * k] = <<es[k], 2>>

\* Loading the k-th entry e takes the database and the number of commands from p to q: e is
\* the next command of h, or selects a database, or is the snapshot at the beginning.
LoadStep(p, e, q, k, h) ==
    \/ e[1] = "sel" /\ q = [db |-> e[2], n |-> p.n]
    \/ /\ e[1] = "cmd" /\ e[2] = p.n + 1 /\ p.n + 1 <= Len(h) /\ h[p.n + 1] = p.db
       /\ q = [db |-> p.db, n |-> p.n + 1]
    \/ e[1] = "snap" /\ k = 1 /\ e[2] \in 0..Len(h) /\ q = [db |-> -1, n |-> e[2]]
Loading(f, es, h) ==
    /\ f \in [0..Len(es) -> [db : Int, n : Nat]] /\ f[0] = [db |-> 0, n |-> 0]
    /\ \A k \in 1..Len(es) : LoadStep(f[k - 1], es[k], f[k], k, h)
    /\ \A k \in 0..Len(es) : \A j \in 0..k : f[j].n <= f[k].n

\* The bytes b hold the first n commands of h, and end in database d.
Holds(b, h, n, d) ==
    \E es, f : Whole(b, es) /\ Loading(f, es, h) /\ f[Len(es)] = [db |-> d, n |-> n]

LEMMA WholeAppend ==
    ASSUME NEW b, NEW es, Whole(b, es), NEW e \in Entries
    PROVE  Whole(b \o A!Bytes(e), Append(es, e))
<1> DEFINE c == b \o A!Bytes(e)
           fs == Append(es, e)
<1>1. A!Bytes(e) = <<<<e, 1>>, <<e, 2>>>> /\ A!Bytes(e) \in Seq(Bytes) /\ Len(A!Bytes(e)) = 2
  BY DEF A!Bytes, Bytes
<1>2. b \in Seq(Bytes) /\ es \in Seq(Entries) /\ Len(b) = 2 * Len(es)
  BY DEF Whole
<1>3. /\ c \in Seq(Bytes) /\ Len(c) = Len(b) + 2
      /\ \A i \in 1..Len(b) : c[i] = b[i]
      /\ c[Len(b) + 1] = <<e, 1>> /\ c[Len(b) + 2] = <<e, 2>>
  <2> HIDE DEF c
  <2>1. c \in Seq(Bytes) /\ Len(c) = Len(b) + 2
    BY <1>1, <1>2 DEF c
  <2>2. \A i \in 1..Len(b) : c[i] = b[i]
    BY <1>1, <1>2 DEF c
  <2>3. c[Len(b) + 1] = A!Bytes(e)[1] /\ c[Len(b) + 2] = A!Bytes(e)[2]
    BY <1>1, <1>2 DEF c
  <2>4. A!Bytes(e)[1] = <<e, 1>> /\ A!Bytes(e)[2] = <<e, 2>>
    BY <1>1
  <2> QED
    BY <2>1, <2>2, <2>3, <2>4
<1>4. /\ fs \in Seq(Entries) /\ Len(fs) = Len(es) + 1 /\ fs[Len(es) + 1] = e
      /\ \A i \in 1..Len(es) : fs[i] = es[i]
  BY <1>2
<1> HIDE DEF c, fs
<1>5. ASSUME NEW k \in 1..Len(fs) PROVE c[2 * k - 1] = <<fs[k], 1>> /\ c[2 * k] = <<fs[k], 2>>
  <2>0. Len(es) \in Nat /\ k \in Nat
    BY <1>2, <1>4
  <2>1. CASE k <= Len(es)
    <3>1. k \in 1..Len(es) /\ 2 * k - 1 \in 1..Len(b) /\ 2 * k \in 1..Len(b)
      BY <1>2, <2>0, <2>1
    <3>2. b[2 * k - 1] = <<es[k], 1>> /\ b[2 * k] = <<es[k], 2>>
      BY <3>1 DEF Whole
    <3> QED
      BY <1>3, <1>4, <3>1, <3>2
  <2>2. CASE k = Len(es) + 1
    <3>1. 2 * k - 1 = Len(b) + 1 /\ 2 * k = Len(b) + 2
      BY <1>2, <2>0, <2>2
    <3> QED
      BY <1>3, <1>4, <2>2, <3>1
  <2> QED
    BY <1>4, <2>0, <2>1, <2>2
<1> QED
  <2>1. Whole(c, fs)
    BY <1>2, <1>3, <1>4, <1>5 DEF Whole
  <2> QED
    BY <2>1 DEF c, fs

LEMMA WholeCut ==
    ASSUME NEW b, NEW es, Whole(b, es), NEW k \in 0..Len(es)
    PROVE  Whole(SubSeq(b, 1, 2 * k), SubSeq(es, 1, k))
<1>1. b \in Seq(Bytes) /\ es \in Seq(Entries) /\ Len(b) = 2 * Len(es) /\ k \in Nat /\ Len(es) \in Nat
  BY DEF Whole
<1>2. 2 * k \in 0..Len(b)
  BY <1>1
<1> DEFINE c == SubSeq(b, 1, 2 * k)
           fs == SubSeq(es, 1, k)
<1>3. c \in Seq(Bytes) /\ Len(c) = 2 * k /\ \A i \in 1..(2 * k) : c[i] = b[i]
  BY <1>1, <1>2
<1>4. fs \in Seq(Entries) /\ Len(fs) = k /\ \A i \in 1..k : fs[i] = es[i]
  BY <1>1
<1> HIDE DEF c, fs
<1>5. ASSUME NEW i \in 1..k PROVE c[2 * i - 1] = <<fs[i], 1>> /\ c[2 * i] = <<fs[i], 2>>
  <2>1. i \in 1..Len(es) /\ 2 * i - 1 \in 1..(2 * k) /\ 2 * i \in 1..(2 * k)
    BY <1>1
  <2>2. b[2 * i - 1] = <<es[i], 1>> /\ b[2 * i] = <<es[i], 2>>
    BY <2>1 DEF Whole
  <2> QED
    BY <1>3, <1>4, <2>1, <2>2
<1> QED
  <2>1. Whole(c, fs)
    BY <1>3, <1>4, <1>5 DEF Whole
  <2> QED
    BY <2>1 DEF c, fs

LEMMA NothingHeld ==
    ASSUME NEW h \in Seq(Int)
    PROVE  Holds(<<>>, h, 0, 0)
<1> DEFINE f == [i \in 0..0 |-> [db |-> 0, n |-> 0]]
<1>1. Whole(<<>>, <<>>)
  BY DEF Whole
<1>2. f \in [0..0 -> [db : Int, n : Nat]] /\ f[0] = [db |-> 0, n |-> 0]
  OBVIOUS
<1>3. Len(<<>>) = 0
  OBVIOUS
<1> HIDE DEF f
<1>4. Loading(f, <<>>, h)
  BY <1>2, <1>3 DEF Loading
<1> QED
  BY <1>1, <1>2, <1>3, <1>4 DEF Holds

\* One entry more.
LEMMA HoldsAppend ==
    ASSUME NEW b, NEW h \in Seq(Int), NEW n, NEW d, NEW es, NEW f,
           Whole(b, es), Loading(f, es, h), f[Len(es)] = [db |-> d, n |-> n],
           NEW e \in Entries, NEW q \in [db : Int, n : Nat], q.n >= n,
           LoadStep([db |-> d, n |-> n], e, q, Len(es) + 1, h)
    PROVE  Holds(b \o A!Bytes(e), h, q.n, q.db)
<1> DEFINE l == Len(es)
           g == [i \in 0..(l + 1) |-> IF i = l + 1 THEN q ELSE f[i]]
           fs == Append(es, e)
<1>1. es \in Seq(Entries) /\ l \in Nat
  BY DEF Whole
<1>2. f \in [0..l -> [db : Int, n : Nat]]
  BY DEF Loading
<1>3. g \in [0..(l + 1) -> [db : Int, n : Nat]]
  <2>1. ASSUME NEW i \in 0..(l + 1) PROVE (IF i = l + 1 THEN q ELSE f[i]) \in [db : Int, n : Nat]
    <3>1. CASE i = l + 1
      BY <3>1
    <3>2. CASE i # l + 1
      <4>1. i \in 0..l
        BY <1>1, <3>2
      <4> QED
        BY <1>2, <3>2, <4>1
    <3> QED
      BY <3>1, <3>2
  <2> QED
    BY <2>1
<1>4. g[l + 1] = q /\ \A i \in 0..l : g[i] = f[i]
  <2>1. l + 1 \in 0..(l + 1) /\ \A i \in 0..l : i \in 0..(l + 1) /\ i # l + 1
    BY <1>1
  <2> QED
    BY <2>1
<1>5. fs \in Seq(Entries) /\ Len(fs) = l + 1 /\ fs[l + 1] = e /\ \A i \in 1..l : fs[i] = es[i]
  BY <1>1
<1> HIDE DEF g, fs
<1>6. ASSUME NEW k \in 1..(l + 1) PROVE LoadStep(g[k - 1], fs[k], g[k], k, h)
  <2>1. CASE k <= l
    <3>1. k \in 1..l /\ k - 1 \in 0..l /\ k \in 0..l
      BY <1>1, <2>1
    <3>2. LoadStep(f[k - 1], es[k], f[k], k, h)
      BY <3>1 DEF Loading
    <3> QED
      BY <1>4, <1>5, <3>1, <3>2
  <2>2. CASE k = l + 1
    <3>1. k - 1 = l /\ l \in 0..l
      BY <1>1, <2>2
    <3> QED
      BY <1>4, <1>5, <2>2, <3>1
  <2>3. k <= l \/ k = l + 1
    BY <1>1
  <2> QED
    BY <2>1, <2>2, <2>3
<1>7. ASSUME NEW k \in 0..(l + 1), NEW j \in 0..k PROVE g[j].n <= g[k].n
  <2>0. \A i \in 0..l : f[i].n \in Nat
    BY <1>2
  <2>1. CASE k <= l
    <3>1. k \in 0..l /\ j \in 0..l
      BY <1>1, <2>1
    <3> QED
      BY <1>4, <3>1 DEF Loading
  <2>2. CASE k = l + 1 /\ j <= l
    <3>1. j \in 0..l /\ l \in 0..l
      BY <1>1, <2>2
    <3>2. f[j].n <= f[l].n
      BY <3>1 DEF Loading
    <3>3. f[l].n = n
      OBVIOUS
    <3> QED
      BY <1>4, <2>0, <2>2, <3>1, <3>2, <3>3
  <2>3. CASE k = l + 1 /\ j = l + 1
    BY <1>4, <2>3
  <2> QED
    BY <1>1, <2>1, <2>2, <2>3
<1>8. g[0] = [db |-> 0, n |-> 0]
  <2>1. 0 \in 0..l
    BY <1>1
  <2> QED
    BY <1>4, <2>1 DEF Loading
<1>9. Loading(g, fs, h)
  BY <1>3, <1>5, <1>6, <1>7, <1>8 DEF Loading
<1>10. Whole(b \o A!Bytes(e), fs)
  BY WholeAppend DEF fs
<1>11. g[Len(fs)] = [db |-> q.db, n |-> q.n]
  BY <1>4, <1>5
<1> QED
  BY <1>9, <1>10, <1>11 DEF Holds

LEMMA HoldsTypes ==
    ASSUME NEW b, NEW h \in Seq(Int), NEW n, NEW d, Holds(b, h, n, d)
    PROVE  b \in Seq(Bytes) /\ n \in Nat /\ d \in Int
<1>1. PICK es, f : Whole(b, es) /\ Loading(f, es, h) /\ f[Len(es)] = [db |-> d, n |-> n]
  BY DEF Holds
<1>2. b \in Seq(Bytes) /\ es \in Seq(Entries)
  BY <1>1 DEF Whole
<1>3. f[Len(es)] \in [db : Int, n : Nat]
  <2>1. Len(es) \in 0..Len(es)
    BY <1>2
  <2> QED
    BY <1>1, <2>1 DEF Loading
<1> QED
  BY <1>1, <1>2, <1>3

LEMMA HoldsSelect ==
    ASSUME NEW b, NEW h \in Seq(Int), NEW n, NEW d, Holds(b, h, n, d), NEW x \in Int
    PROVE  Holds(b \o A!Bytes(<<"sel", x>>), h, n, x)
<1>1. PICK es, f : Whole(b, es) /\ Loading(f, es, h) /\ f[Len(es)] = [db |-> d, n |-> n]
  BY DEF Holds
<1>2. n \in Nat /\ d \in Int
  BY HoldsTypes
<1> DEFINE e == <<"sel", x>>
           q == [db |-> x, n |-> n]
<1>3. e \in Entries /\ e[1] = "sel" /\ e[2] = x
  BY DEF Entries
<1>4. q \in [db : Int, n : Nat] /\ q.n = n /\ q.db = x /\ q.n >= n
  BY <1>2
<1>5. LoadStep([db |-> d, n |-> n], e, q, Len(es) + 1, h)
  BY <1>3 DEF LoadStep
<1> HIDE DEF e, q
<1>6. Holds(b \o A!Bytes(e), h, q.n, q.db)
  BY <1>1, <1>3, <1>4, <1>5, HoldsAppend
<1> QED
  BY <1>4, <1>6 DEF e

LEMMA HoldsCommand ==
    ASSUME NEW b, NEW h \in Seq(Int), NEW n, NEW d, Holds(b, h, n, d), n + 1 <= Len(h), h[n + 1] = d
    PROVE  Holds(b \o A!Bytes(<<"cmd", n + 1>>), h, n + 1, d)
<1>1. PICK es, f : Whole(b, es) /\ Loading(f, es, h) /\ f[Len(es)] = [db |-> d, n |-> n]
  BY DEF Holds
<1>2. n \in Nat /\ d \in Int
  BY HoldsTypes
<1> DEFINE e == <<"cmd", n + 1>>
           q == [db |-> d, n |-> n + 1]
<1>3. e \in Entries /\ e[1] = "cmd" /\ e[2] = n + 1
  BY <1>2 DEF Entries
<1>4. q \in [db : Int, n : Nat] /\ q.n = n + 1 /\ q.db = d /\ q.n >= n
  BY <1>2
<1>5. LoadStep([db |-> d, n |-> n], e, q, Len(es) + 1, h)
  BY <1>3 DEF LoadStep
<1> HIDE DEF e, q
<1>6. Holds(b \o A!Bytes(e), h, q.n, q.db)
  BY <1>1, <1>3, <1>4, <1>5, HoldsAppend
<1> QED
  BY <1>4, <1>6 DEF e

LEMMA HoldsSnapshot ==
    ASSUME NEW h \in Seq(Int), NEW n \in 0..Len(h)
    PROVE  Holds(A!Bytes(<<"snap", n>>), h, n, -1)
<1> DEFINE f == [i \in 0..0 |-> [db |-> 0, n |-> 0]]
           e == <<"snap", n>>
           q == [db |-> -1, n |-> n]
<1>1. Whole(<<>>, <<>>) /\ Len(<<>>) = 0
  BY DEF Whole
<1>2. f \in [0..0 -> [db : Int, n : Nat]] /\ f[0] = [db |-> 0, n |-> 0]
  OBVIOUS
<1>3. e \in Entries /\ e[1] = "snap" /\ e[2] = n
  BY DEF Entries
<1>4. q \in [db : Int, n : Nat] /\ q.n = n /\ q.db = -1 /\ q.n >= 0
  OBVIOUS
<1>5. LoadStep([db |-> 0, n |-> 0], e, q, 1, h)
  BY <1>3 DEF LoadStep
<1> HIDE DEF e, q, f
<1>6. Loading(f, <<>>, h)
  BY <1>1, <1>2 DEF Loading
<1>7. Holds(<<>> \o A!Bytes(e), h, q.n, q.db)
  <2>1. f[Len(<<>>)] = [db |-> 0, n |-> 0] /\ Len(<<>>) + 1 = 1
    BY <1>1, <1>2
  <2> QED
    BY <1>1, <1>3, <1>4, <1>5, <1>6, <2>1, HoldsAppend
<1>8. A!Bytes(e) \in Seq(Bytes)
  BY <1>3 DEF A!Bytes, Bytes
<1>9. <<>> \o A!Bytes(e) = A!Bytes(e)
  BY <1>8
<1> QED
  BY <1>4, <1>7, <1>9 DEF e

\* More commands are executed, or those that are not held are forgotten.
LEMMA HoldsGrows ==
    ASSUME NEW b, NEW h \in Seq(Int), NEW g \in Seq(Int), NEW n, NEW d, Holds(b, h, n, d),
           Len(g) >= n, \A i \in 1..n : i <= Len(h) => g[i] = h[i]
    PROVE  Holds(b, g, n, d)
<1>1. PICK es, f : Whole(b, es) /\ Loading(f, es, h) /\ f[Len(es)] = [db |-> d, n |-> n]
  BY DEF Holds
<1>2. es \in Seq(Entries) /\ Len(es) \in Nat
  BY <1>1 DEF Whole
<1>3. n \in Nat /\ \A k \in 0..Len(es) : f[k] \in [db : Int, n : Nat] /\ f[k].n <= n
  <2>1. Len(es) \in 0..Len(es)
    BY <1>2
  <2>2. \A k \in 0..Len(es) : f[k].n <= f[Len(es)].n
    BY <1>1, <2>1 DEF Loading
  <2>3. f[Len(es)].n = n /\ f \in [0..Len(es) -> [db : Int, n : Nat]]
    BY <1>1 DEF Loading
  <2>4. f[Len(es)] \in [db : Int, n : Nat]
    BY <2>1, <2>3
  <2>5. n \in Nat
    BY <2>3, <2>4
  <2> QED
    BY <2>2, <2>3, <2>5
<1>4. ASSUME NEW k \in 1..Len(es) PROVE LoadStep(f[k - 1], es[k], f[k], k, g)
  <2>1. LoadStep(f[k - 1], es[k], f[k], k, h)
    BY <1>1 DEF Loading
  <2>2. k - 1 \in 0..Len(es) /\ k \in 0..Len(es)
    BY <1>2
  <2>3. f[k - 1].n \in Nat /\ f[k].n \in Nat /\ f[k].n <= n
    BY <1>3, <2>2
  <2>4. CASE es[k][1] = "sel" /\ f[k] = [db |-> es[k][2], n |-> f[k - 1].n]
    BY <2>4 DEF LoadStep
  <2>5. CASE /\ es[k][1] = "cmd" /\ es[k][2] = f[k - 1].n + 1 /\ f[k - 1].n + 1 <= Len(h)
             /\ h[f[k - 1].n + 1] = f[k - 1].db /\ f[k] = [db |-> f[k - 1].db, n |-> f[k - 1].n + 1]
    <3>1. f[k - 1].n + 1 = f[k].n
      BY <2>5
    <3>2. f[k - 1].n + 1 <= Len(g) /\ f[k - 1].n + 1 \in 1..n
      <4> DEFINE p == f[k - 1].n
                 q == f[k].n
      <4>1. p \in Nat /\ q \in Nat /\ q <= n /\ p + 1 = q
        BY <2>3, <3>1
      <4>2. n \in Nat /\ n <= Len(g) /\ Len(g) \in Nat
        BY <1>3
      <4> HIDE DEF p, q
      <4>3. p + 1 <= Len(g) /\ p + 1 \in 1..n
        BY <4>1, <4>2
      <4> QED
        BY <4>3 DEF p
    <3>3. g[f[k - 1].n + 1] = h[f[k - 1].n + 1]
      BY <2>5, <3>2
    <3> QED
      BY <2>5, <3>2, <3>3 DEF LoadStep
  <2>6. CASE es[k][1] = "snap" /\ k = 1 /\ es[k][2] \in 0..Len(h) /\ f[k] = [db |-> -1, n |-> es[k][2]]
    <3>1. f[k].n = es[k][2]
      BY <2>6
    <3>2. es[k][2] \in 0..Len(g)
      BY <1>3, <2>3, <2>6, <3>1
    <3> QED
      BY <2>6, <3>2 DEF LoadStep
  <2> QED
    BY <2>1, <2>4, <2>5, <2>6 DEF LoadStep
<1>5. Loading(f, es, g)
  BY <1>1, <1>4 DEF Loading
<1> QED
  BY <1>1, <1>5 DEF Holds

\* loadAppendOnlyFile
LoadsTo(g, b, n) == g = [i \in 0..n |-> IF i = 0 THEN [db |-> 0, out |-> <<>>] ELSE A!Run(g[i - 1], b[2 * i][1])]

LEMMA LoadingExists ==
    ASSUME NEW b, NEW l \in Nat
    PROVE  \E g : LoadsTo(g, b, l)
<1> DEFINE S == {n \in Nat : ~ \E g : LoadsTo(g, b, n)}
<1> SUFFICES ASSUME S # {} PROVE FALSE
  OBVIOUS
<1>1. PICK m \in S : \A n \in S : m <= n
  <2>1. S \in SUBSET Nat
    OBVIOUS
  <2> HIDE DEF S
  <2> QED
    BY <2>1, Smallest
<1>2. CASE m = 0
  <2> DEFINE g0 == [i \in 0..0 |-> [db |-> 0, out |-> <<>>]]
  <2>1. LoadsTo(g0, b, 0)
    BY DEF LoadsTo
  <2> QED
    BY <1>1, <1>2, <2>1
<1>3. CASE m # 0
  <2>1. m - 1 \in Nat /\ m - 1 \notin S /\ m \in Nat
    BY <1>1, <1>3
  <2>2. PICK g : LoadsTo(g, b, m - 1)
    BY <2>1
  <2> DEFINE h == [i \in 0..m |-> IF i = m THEN A!Run(g[m - 1], b[2 * m][1]) ELSE g[i]]
  <2>3. ASSUME NEW i \in 0..m
        PROVE  h[i] = IF i = 0 THEN [db |-> 0, out |-> <<>>] ELSE A!Run(h[i - 1], b[2 * i][1])
    <3>1. CASE i = 0
      BY <1>3, <2>1, <2>2, <3>1 DEF LoadsTo
    <3>2. CASE i # 0 /\ i # m
      <4>1. i \in 0..(m-1) /\ i - 1 \in 0..m /\ i - 1 # m /\ i - 1 \in 0..(m-1)
        BY <2>1, <3>2
      <4>2. g[i] = A!Run(g[i - 1], b[2 * i][1])
        BY <2>2, <3>2, <4>1 DEF LoadsTo
      <4>3. h[i] = g[i] /\ h[i - 1] = g[i - 1]
        BY <3>2, <4>1
      <4> HIDE DEF h
      <4> QED
        BY <3>2, <4>2, <4>3
    <3>3. CASE i = m
      <4>1. m - 1 \in 0..m /\ m - 1 # m
        BY <2>1
      <4>2. h[m - 1] = g[m - 1] /\ h[m] = A!Run(g[m - 1], b[2 * m][1])
        BY <2>1, <4>1
      <4> HIDE DEF h
      <4> QED
        BY <1>3, <3>3, <4>2
    <3> QED
      BY <3>1, <3>2, <3>3
  <2>4. LoadsTo(h, b, m)
    <3>1. h = [i \in 0..m |-> h[i]]
      OBVIOUS
    <3> HIDE DEF h
    <3> QED
      BY <2>3, <3>1 DEF LoadsTo
  <2> QED
    BY <1>1, <2>4
<1> QED
  BY <1>2, <1>3

LEMMA LoadFound ==
    ASSUME NEW b, NEW l \in Nat, Len(b) \div 2 = l
    PROVE  \E g : LoadsTo(g, b, l) /\ A!Load(b) = g[l].out
<1> DEFINE g == CHOOSE g : g = [i \in 0..l |-> IF i = 0 THEN [db |-> 0, out |-> <<>>] ELSE A!Run(g[i - 1], b[2 * i][1])]
<1>1. A!Load(b) = g[l].out
  BY DEF A!Load
<1>2. LoadsTo(g, b, l)
  BY LoadingExists DEF LoadsTo
<1> QED
  BY <1>1, <1>2

LEMMA DatasetNext ==
    ASSUME hist \in Seq(Int), NEW n \in Nat, n + 1 <= Len(hist)
    PROVE  Append(A!Dataset(n), <<n + 1, hist[n + 1]>>) = A!Dataset(n + 1)
<1> DEFINE a == A!Dataset(n)
           x == <<n + 1, hist[n + 1]>>
           c == A!Dataset(n + 1)
<1>1. a = [i \in 1..n |-> <<i, hist[i]>>] /\ c = [i \in 1..(n + 1) |-> <<i, hist[i]>>]
  BY DEF A!Dataset
<1>2. a \in Seq(Int \X Int) /\ Len(a) = n
  <2>1. ASSUME NEW i \in 1..n PROVE <<i, hist[i]>> \in Int \X Int
    <3>1. i \in 1..Len(hist)
      OBVIOUS
    <3> QED
      BY <3>1
  <2>2. a \in [1..n -> Int \X Int]
    BY <1>1, <2>1
  <2> QED
    BY <2>2
<1>3. n + 1 \in 1..Len(hist)
  OBVIOUS
<1>4. x \in Int \X Int
  BY <1>3
<1>5. c \in Seq(Int \X Int) /\ Len(c) = n + 1
  <2>1. ASSUME NEW i \in 1..(n + 1) PROVE <<i, hist[i]>> \in Int \X Int
    <3>1. i \in 1..Len(hist)
      OBVIOUS
    <3> QED
      BY <3>1
  <2>2. c \in [1..(n + 1) -> Int \X Int]
    BY <1>1, <2>1
  <2> QED
    BY <2>2
<1>6. \A i \in 1..n : a[i] = <<i, hist[i]>>
  BY <1>1
<1>7. \A i \in 1..(n + 1) : c[i] = <<i, hist[i]>>
  BY <1>1
<1> HIDE DEF a, c, x
<1>8. Append(a, x) \in Seq(Int \X Int) /\ Len(Append(a, x)) = n + 1 /\ Append(a, x)[n + 1] = x
      /\ \A i \in 1..n : Append(a, x)[i] = a[i]
  BY <1>2, <1>4
<1>9. \A i \in 1..(n + 1) : Append(a, x)[i] = c[i]
  <2>1. ASSUME NEW i \in 1..(n + 1) PROVE Append(a, x)[i] = c[i]
    <3>1. CASE i = n + 1
      BY <1>7, <1>8, <3>1 DEF x
    <3>2. CASE i # n + 1
      <4>1. i \in 1..n
        BY <3>2
      <4> QED
        BY <1>6, <1>7, <1>8, <4>1
    <3> QED
      BY <3>1, <3>2
  <2> QED
    BY <2>1
<1>10. Append(a, x) = c
  <2> DEFINE y == Append(a, x)
  <2>1. y \in Seq(Int \X Int) /\ Len(y) = n + 1 /\ \A i \in 1..Len(y) : y[i] = c[i]
    BY <1>8, <1>9
  <2> HIDE DEF y
  <2>2. y = c
    BY <1>5, <2>1, SeqEqual
  <2> QED
    BY <2>2 DEF y
<1> QED
  BY <1>10 DEF a, c, x

\* What holds the first n commands rebuilds the data set they give.
LEMMA LoadIsHeld ==
    ASSUME hist \in Seq(Int), NEW b, NEW es, NEW f, Whole(b, es), Loading(f, es, hist)
    PROVE  /\ A!WellFormed(b) /\ Len(b) % 2 = 0 /\ Len(b) \div 2 = Len(es)
           /\ A!Load(b) = A!Dataset(f[Len(es)].n)
<1> DEFINE l == Len(es)
<1>1. b \in Seq(Bytes) /\ es \in Seq(Entries) /\ Len(b) = 2 * l /\ l \in Nat
  BY DEF Whole
<1>2. Len(b) % 2 = 0 /\ Len(b) \div 2 = l
  BY <1>1
<1>3. A!WellFormed(b)
  <2>1. ASSUME NEW i \in 1..Len(b)
        PROVE  b[i][2] = 2 - (i % 2) /\ (i % 2 = 0 => b[i][1] = b[i - 1][1])
    <3>1. CASE i % 2 = 0
      <4>1. PICK k \in 1..l : i = 2 * k
        <5>1. i \div 2 \in 1..l /\ i = 2 * (i \div 2)
          BY <1>1, <3>1
        <5> QED
          BY <5>1
      <4>2. b[i - 1] = <<es[k], 1>> /\ b[i] = <<es[k], 2>>
        BY <4>1 DEF Whole
      <4> QED
        BY <3>1, <4>2
    <3>2. CASE i % 2 = 1
      <4>1. PICK k \in 1..l : i = 2 * k - 1
        <5>1. i = 2 * (i \div 2) + 1 /\ i \div 2 \in Int
          BY <3>2
        <5>2. i \div 2 + 1 \in 1..l /\ i = 2 * (i \div 2 + 1) - 1
          BY <1>1, <5>1
        <5> QED
          BY <5>2
      <4>2. b[i] = <<es[k], 1>>
        BY <4>1 DEF Whole
      <4> QED
        BY <3>2, <4>2
    <3>3. i % 2 \in {0, 1}
      OBVIOUS
    <3> QED
      BY <3>1, <3>2, <3>3
  <2> QED
    BY <2>1 DEF A!WellFormed
<1>4. PICK g : LoadsTo(g, b, l) /\ A!Load(b) = g[l].out
  BY <1>1, <1>2, LoadFound
<1> DEFINE State(k) == [db |-> f[k].db, out |-> A!Dataset(f[k].n)]
           S == {k \in 0..l : g[k] # State(k)}
<1>5. S = {}
  <2> SUFFICES ASSUME S # {} PROVE FALSE
    OBVIOUS
  <2>1. PICK k \in S : \A j \in S : k <= j
    <3>1. S \in SUBSET Nat
      OBVIOUS
    <3> HIDE DEF S
    <3> QED
      BY <3>1, Smallest
  <2>2. k \in 0..l /\ g[k] # State(k)
    BY <2>1
  <2>3. CASE k = 0
    <3>1. g[0] = [db |-> 0, out |-> <<>>]
      BY <1>1, <1>4 DEF LoadsTo
    <3>2. f[0] = [db |-> 0, n |-> 0]
      BY DEF Loading
    <3>3. A!Dataset(0) = <<>>
      BY DEF A!Dataset
    <3> QED
      BY <2>2, <2>3, <3>1, <3>2, <3>3
  <2>4. CASE k # 0
    <3>1. k - 1 \in 0..l /\ k \in 1..l /\ k - 1 \notin S
      <4>1. k - 1 \in 0..l /\ k \in 1..l /\ ~(k <= k - 1)
        BY <1>1, <2>2, <2>4
      <4> HIDE DEF S
      <4> QED
        BY <2>1, <4>1
    <3>2. g[k - 1] = State(k - 1)
      BY <3>1
    <3>3. b[2 * k] = <<es[k], 2>>
      BY <3>1 DEF Whole
    <3>4. g[k] = A!Run(g[k - 1], es[k])
      <4>1. g[k] = A!Run(g[k - 1], b[2 * k][1])
        BY <1>4, <2>2, <2>4 DEF LoadsTo
      <4> QED
        BY <3>3, <4>1
    <3> DEFINE p == f[k - 1]
               e == es[k]
    <3>5. p \in [db : Int, n : Nat] /\ f[k] \in [db : Int, n : Nat]
      BY <2>2, <3>1 DEF Loading
    <3>6. g[k - 1] = [db |-> p.db, out |-> A!Dataset(p.n)]
      BY <3>2
    <3>7. LoadStep(p, e, f[k], k, hist)
      BY <3>1 DEF Loading
    <3> HIDE DEF p, e, S
    <3>8. g[k] = State(k)
      <4>1. CASE e[1] = "sel" /\ f[k] = [db |-> e[2], n |-> p.n]
        <5>1. A!Run(g[k - 1], e) = [g[k - 1] EXCEPT !.db = e[2]]
          BY <4>1 DEF A!Run
        <5>2. A!Run(g[k - 1], e) = [db |-> e[2], out |-> A!Dataset(p.n)]
          BY <3>6, <5>1
        <5> QED
          BY <3>4, <4>1, <5>2 DEF e
      <4>2. CASE /\ e[1] = "cmd" /\ e[2] = p.n + 1 /\ p.n + 1 <= Len(hist) /\ hist[p.n + 1] = p.db
                 /\ f[k] = [db |-> p.db, n |-> p.n + 1]
        <5> DEFINE r == g[k - 1]
                   w == A!Dataset(p.n)
        <5>0. r = [db |-> p.db, out |-> w]
          BY <3>6
        <5> HIDE DEF r, w
        <5>1. A!Run(r, e) = [r EXCEPT !.out = Append(r.out, <<e[2], r.db>>)]
          BY <4>2 DEF A!Run
        <5>4. r.out = w /\ <<e[2], r.db>> = <<p.n + 1, hist[p.n + 1]>>
          BY <4>2, <5>0
        <5>5. A!Run(r, e) = [r EXCEPT !.out = Append(w, <<p.n + 1, hist[p.n + 1]>>)]
          BY <5>1, <5>4
        <5>6. A!Run(r, e) = [db |-> p.db, out |-> Append(w, <<p.n + 1, hist[p.n + 1]>>)]
          BY <5>0, <5>5
        <5>2. A!Run(g[k - 1], e) = [db |-> p.db, out |-> Append(A!Dataset(p.n), <<p.n + 1, hist[p.n + 1]>>)]
          BY <5>6 DEF r, w
        <5>3. Append(A!Dataset(p.n), <<p.n + 1, hist[p.n + 1]>>) = A!Dataset(p.n + 1)
          BY <3>5, <4>2, DatasetNext
        <5>7. f[k].db = p.db /\ f[k].n = p.n + 1
          BY <4>2
        <5>8. g[k] = [db |-> p.db, out |-> A!Dataset(p.n + 1)]
          BY <3>4, <5>2, <5>3 DEF e
        <5> QED
          BY <5>7, <5>8
      <4>3. CASE e[1] = "snap" /\ k = 1 /\ e[2] \in 0..Len(hist) /\ f[k] = [db |-> -1, n |-> e[2]]
        <5>1. A!Run(g[k - 1], e) = [db |-> -1, out |-> A!Dataset(e[2])]
          BY <4>3 DEF A!Run
        <5> QED
          BY <3>4, <4>3, <5>1 DEF e
      <4> QED
        BY <3>7, <4>1, <4>2, <4>3 DEF LoadStep
    <3> QED
      BY <2>2, <3>8
  <2> QED
    BY <2>3, <2>4
<1>6. g[l] = State(l)
  <2>1. l \in 0..l
    BY <1>1
  <2> QED
    BY <1>5, <2>1
<1> QED
  BY <1>2, <1>3, <1>4, <1>6

\* What is left of the first k bytes of b holds the first m of n commands, which are all those
\* that any part of b within these bytes holds.
Cut(kept, b, n, k) ==
    \E m \in 0..n, c \in Int :
        /\ Holds(kept, SubSeq(hist, 1, m), m, c) /\ A!Load(kept) = A!Dataset(m) /\ kept \in Seq(Bytes)
        /\ \A p, mp, dp : Holds(p, hist, mp, dp) /\ mp <= Len(hist) /\ Len(p) <= k /\ p = SubSeq(b, 1, Len(p))
                            => mp <= m

\* A file that was cut: what is left of it holds the commands that are left.
LEMMA HoldsCut ==
    ASSUME hist \in Seq(Int), NEW b, NEW n, NEW d, Holds(b, hist, n, d), n <= Len(hist),
           NEW k \in 0..Len(b), NEW kept, kept = SubSeq(SubSeq(b, 1, k), 1, 2 * (k \div 2))
    PROVE  Cut(kept, b, n, k)
<1>1. PICK es, f : Whole(b, es) /\ Loading(f, es, hist) /\ f[Len(es)] = [db |-> d, n |-> n]
  BY DEF Holds
<1>2. b \in Seq(Bytes) /\ es \in Seq(Entries) /\ Len(b) = 2 * Len(es) /\ Len(es) \in Nat /\ k \in Nat
  BY <1>1 DEF Whole
<1>0. n \in Nat /\ d \in Int
  BY HoldsTypes
<1> DEFINE j == k \div 2
<1>3. j \in Nat /\ 2 * j <= k /\ k <= 2 * j + 1 /\ j \in 0..Len(es)
  BY <1>2
<1>4. kept = SubSeq(b, 1, 2 * j)
  <2> DEFINE t == SubSeq(b, 1, k)
  <2>1. t \in Seq(Bytes) /\ Len(t) = k /\ \A i \in 1..k : t[i] = b[i]
    BY <1>2
  <2> DEFINE u == SubSeq(b, 1, 2 * j)
  <2>2. u \in Seq(Bytes) /\ Len(u) = 2 * j /\ \A i \in 1..(2 * j) : u[i] = b[i]
    <3>1. 2 * j \in 0..Len(b)
      BY <1>2, <1>3
    <3> HIDE DEF j
    <3> QED
      BY <1>2, <3>1
  <2>3. kept = SubSeq(t, 1, 2 * j)
    OBVIOUS
  <2> HIDE DEF t, u, j
  <2>4. kept \in Seq(Bytes) /\ Len(kept) = 2 * j /\ \A i \in 1..(2 * j) : kept[i] = t[i]
    <3>1. 2 * j \in 0..Len(t)
      BY <1>3, <2>1
    <3> QED
      BY <2>1, <2>3, <3>1
  <2>5. \A i \in 1..Len(kept) : kept[i] = u[i]
    <3>1. \A i \in 1..(2 * j) : i \in 1..k
      BY <1>2, <1>3
    <3> QED
      BY <2>1, <2>2, <2>4, <3>1
  <2>6. kept = u
    BY <2>2, <2>4, <2>5, SeqEqual
  <2> QED
    BY <2>6 DEF u
<1> HIDE DEF j
<1> DEFINE fs == SubSeq(es, 1, j)
           m == f[j].n
           c == f[j].db
           g == [i \in 0..j |-> f[i]]
<1>5. Whole(kept, fs)
  BY <1>1, <1>3, <1>4, WholeCut
<1>6. fs \in Seq(Entries) /\ Len(fs) = j /\ \A i \in 1..j : fs[i] = es[i]
  BY <1>2, <1>3
<1>7. \A i \in 0..Len(es) : f[i] \in [db : Int, n : Nat]
  BY <1>1 DEF Loading
<1>8. \A i \in 0..j : i \in 0..Len(es) /\ f[i].n <= m /\ g[i] = f[i]
  <2>1. \A i \in 0..j : i \in 0..Len(es) /\ g[i] = f[i]
    BY <1>2, <1>3
  <2>2. \A i \in 0..j : f[i].n <= f[j].n
    BY <1>1, <1>3 DEF Loading
  <2> QED
    BY <2>1, <2>2
<1>9. m \in 0..n /\ c \in Int
  <2>1. Len(es) \in 0..Len(es) /\ f[Len(es)].n = n
    BY <1>1, <1>2
  <2>2. f[j].n <= f[Len(es)].n
    BY <1>1, <1>3, <2>1 DEF Loading
  <2>3. f[j].n \in Nat /\ f[j].db \in Int
    BY <1>3, <1>7
  <2> QED
    BY <1>0, <2>1, <2>2, <2>3
<1>10. Loading(g, fs, hist)
  <2>1. g \in [0..j -> [db : Int, n : Nat]]
    BY <1>7, <1>8
  <2>2. g[0] = [db |-> 0, n |-> 0]
    <3>1. 0 \in 0..j
      BY <1>3
    <3>2. f[0] = [db |-> 0, n |-> 0]
      BY <1>1 DEF Loading
    <3> QED
      BY <1>8, <3>1, <3>2
  <2>3. ASSUME NEW i \in 1..j PROVE LoadStep(g[i - 1], fs[i], g[i], i, hist)
    <3>1. i \in 1..Len(es) /\ i - 1 \in 0..j /\ i \in 0..j
      BY <1>2, <1>3
    <3>2. LoadStep(f[i - 1], es[i], f[i], i, hist)
      BY <1>1, <3>1 DEF Loading
    <3>3. g[i - 1] = f[i - 1] /\ g[i] = f[i] /\ fs[i] = es[i]
      BY <1>6, <1>8, <3>1
    <3> HIDE DEF g, fs
    <3> QED
      BY <3>2, <3>3
  <2>4. \A x \in 0..j : \A y \in 0..x : g[y].n <= g[x].n
    <3>1. ASSUME NEW x \in 0..j, NEW y \in 0..x PROVE g[y].n <= g[x].n
      <4>1. y \in 0..j /\ x \in 0..Len(es)
        BY <1>2, <1>3
      <4>2. f[y].n <= f[x].n
        BY <1>1, <4>1 DEF Loading
      <4> HIDE DEF g
      <4> QED
        BY <1>8, <4>1, <4>2
    <3> QED
      BY <3>1
  <2> HIDE DEF g, fs
  <2> QED
    BY <1>6, <2>1, <2>2, <2>3, <2>4 DEF Loading
<1>11. g[Len(fs)] = [db |-> c, n |-> m]
  <2>1. j \in 0..j
    BY <1>3
  <2>2. f[j] \in [db : Int, n : Nat]
    BY <1>3, <1>7
  <2>3. f[j] = [db |-> f[j].db, n |-> f[j].n]
    BY <2>2
  <2> QED
    BY <1>6, <1>8, <2>1, <2>3
<1>12. Holds(kept, hist, m, c)
  BY <1>5, <1>10, <1>11 DEF Holds
<1>13. A!Load(kept) = A!Dataset(m)
  <2> HIDE DEF g, fs, m, c
  <2>1. g[Len(fs)].n = m
    BY <1>11
  <2> QED
    BY <1>5, <1>10, <2>1, LoadIsHeld
<1>14. Holds(kept, SubSeq(hist, 1, m), m, c)
  <2> DEFINE h == SubSeq(hist, 1, m)
  <2> HIDE DEF m, c
  <2>1. h \in Seq(Int) /\ Len(h) = m /\ \A i \in 1..m : h[i] = hist[i]
    <3>1. m \in 0..Len(hist)
      BY <1>0, <1>9
    <3> QED
      BY <3>1
  <2> HIDE DEF h
  <2>3. Len(h) >= m /\ \A i \in 1..m : i <= Len(hist) => h[i] = hist[i]
    BY <1>9, <2>1
  <2>2. Holds(kept, h, m, c)
    BY <1>12, <2>1, <2>3, HoldsGrows
  <2> QED
    BY <2>2 DEF h
<1>15. ASSUME NEW p, NEW mp, NEW dp, Holds(p, hist, mp, dp), mp <= Len(hist), Len(p) <= k, p = SubSeq(b, 1, Len(p))
       PROVE  mp <= m
  <2>1. PICK ps, fp : Whole(p, ps) /\ Loading(fp, ps, hist) /\ fp[Len(ps)] = [db |-> dp, n |-> mp]
    BY <1>15 DEF Holds
  <2>2. Len(p) = 2 * Len(ps) /\ Len(ps) \in Nat
    BY <2>1 DEF Whole
  <2> DEFINE i == Len(ps)
             v == [x \in 0..i |-> f[x]]
  <2>3. i \in 0..j /\ i \in 0..Len(es)
    BY <1>2, <1>3, <1>15, <2>2
  <2>4. Whole(p, SubSeq(es, 1, i))
    BY <1>1, <1>15, <2>2, <2>3, WholeCut
  <2> DEFINE qs == SubSeq(es, 1, i)
  <2>5. qs \in Seq(Entries) /\ Len(qs) = i /\ \A x \in 1..i : qs[x] = es[x]
    BY <1>2, <2>3
  <2> HIDE DEF qs
  <2>6. v \in [0..i -> [db : Int, n : Nat]] /\ \A x \in 0..i : x \in 0..Len(es) /\ v[x] = f[x]
    BY <1>2, <1>7, <2>3
  <2> HIDE DEF v
  <2>7. Loading(v, qs, hist)
    <3>1. v[0] = [db |-> 0, n |-> 0]
      <4>1. 0 \in 0..i
        BY <2>2
      <4>2. f[0] = [db |-> 0, n |-> 0]
        BY <1>1 DEF Loading
      <4> QED
        BY <2>6, <4>1, <4>2
    <3>2. ASSUME NEW x \in 1..i PROVE LoadStep(v[x - 1], qs[x], v[x], x, hist)
      <4>1. x \in 1..Len(es) /\ x - 1 \in 0..i /\ x \in 0..i
        BY <1>2, <2>3
      <4>2. LoadStep(f[x - 1], es[x], f[x], x, hist)
        BY <1>1, <4>1 DEF Loading
      <4>3. v[x - 1] = f[x - 1] /\ v[x] = f[x] /\ qs[x] = es[x]
        BY <2>5, <2>6, <4>1
      <4> QED
        BY <4>2, <4>3
    <3>3. ASSUME NEW x \in 0..i, NEW y \in 0..x PROVE v[y].n <= v[x].n
      <4>1. y \in 0..i /\ x \in 0..Len(es)
        BY <2>3
      <4>2. f[y].n <= f[x].n
        BY <1>1, <4>1 DEF Loading
      <4> QED
        BY <2>6, <4>1, <4>2
    <3> QED
      BY <2>5, <2>6, <3>1, <3>2, <3>3 DEF Loading
  <2>8. A!Load(p) = A!Dataset(v[i].n)
    <3>1. Whole(p, qs)
      BY <2>4 DEF qs
    <3>2. A!Load(p) = A!Dataset(v[Len(qs)].n)
      BY <2>7, <3>1, LoadIsHeld
    <3> QED
      BY <2>5, <3>2
  <2>9. A!Load(p) = A!Dataset(mp)
    <3>1. fp[Len(ps)].n = mp
      BY <2>1
    <3>2. A!Load(p) = A!Dataset(fp[Len(ps)].n)
      BY <2>1, LoadIsHeld
    <3> QED
      BY <3>1, <3>2
  <2>10. v[i].n \in Nat /\ mp \in Nat
    <3>1. i \in 0..i
      BY <2>2
    <3>2. v[i] \in [db : Int, n : Nat]
      BY <2>6, <3>1
    <3> QED
      BY <1>15, <3>2, HoldsTypes
  <2>11. v[i].n = mp
    <3>1. \A x \in Nat : Len(A!Dataset(x)) = x
      BY DEF A!Dataset
    <3> QED
      BY <2>8, <2>9, <2>10, <3>1
  <2>12. v[i].n <= m
    <3>1. i \in 0..i
      BY <2>2
    <3>2. v[i] = f[i] /\ f[i].n <= m
      BY <1>8, <2>3, <2>6, <3>1
    <3> QED
      BY <3>2
  <2> QED
    BY <2>11, <2>12
<1>16. kept \in Seq(Bytes)
  BY <1>5 DEF Whole
<1> QED
  BY <1>9, <1>13, <1>14, <1>15, <1>16 DEF Cut

-----------------------------------------------------------------------------
(* The append only file: the invariant                                     *)

AofState ==
    [state : {"on", "wait", "off"}, fd : {"open", "none", "stale"}, sel : Int, buf : Seq(Bytes),
     size : Nat, err : BOOLEAN, post : {"no", "recent", "long"}, newsec : BOOLEAN,
     sched : BOOLEAN, stop : BOOLEAN]
Stages == {"none", "saving", "asked", "agreed", "done", "failed"}

AofShape ==
    /\ hist \in Seq(Dbs) /\ ao \in AofState /\ file \in Seq(Bytes) /\ pipe \in Seq(Bytes)
    /\ rwbuf \in Seq(Bytes) /\ child \in [stage : Stages, snap : Nat, diff : Seq(Bytes)]
    /\ swap \in {"no", "renamed"} /\ acked \in 0..Len(hist) /\ synced \in 0..Len(file)
    /\ ao.state # "off" => ao.fd = "open"
    /\ ao.fd = "open" /\ swap = "no" => ao.size = Len(file)
    /\ child.stage = "none" => pipe = <<>> /\ rwbuf = <<>>
    /\ child.stage \in {"agreed", "done"} => ao.stop
    /\ child.stage = "done" => pipe = <<>>
    /\ swap = "renamed" => child.stage = "done"
    /\ Policy = "always" /\ ao.state # "on" => ao.buf = <<>>

\* The bytes b rebuild the commands h, and the next one may follow without a SELECT of s.
Rebuilt(b, h, s) == \E d : Holds(b, h, Len(h), d) /\ (s = -1 \/ d = s)
ForChild == A!Bytes(<<"snap", child.snap>>) \o child.diff \o pipe \o rwbuf

AofWhole ==
    /\ ao.state = "on" /\ swap = "no" => Rebuilt(file \o ao.buf, hist, ao.sel)
    /\ child.stage \notin {"none", "failed"} /\ ao.state # "off" => Rebuilt(ForChild, hist, ao.sel)
    /\ swap = "renamed" /\ ao.state # "off" => Rebuilt(file, hist, ao.sel)

LEMMA FreshTyped == A!Fresh \in AofState /\ A!Fresh.state = "on" /\ A!Fresh.fd = "open" /\ A!Fresh.buf = <<>>
                    /\ A!Fresh.sel = -1 /\ A!Fresh.size = 0
BY DEF A!Fresh, AofState

LEMMA NoChildTyped == A!NoChild \in [stage : Stages, snap : Nat, diff : Seq(Bytes)] /\ A!NoChild.stage = "none"
                      /\ A!NoChild.diff = <<>>
BY DEF A!NoChild, Stages

LEMMA AofStarts ==
    ASSUME A!AofAssumption, A!Init
    PROVE  AofShape /\ AofWhole
<1>1. AofShape
  BY FreshTyped, NoChildTyped DEF A!Init, AofShape
<1>2. <<>> \o <<>> = <<>>
  OBVIOUS
<1>3. Rebuilt(file \o ao.buf, hist, ao.sel)
  <2>1. hist = <<>> /\ file = <<>> /\ ao.buf = <<>> /\ ao.sel = -1
    BY FreshTyped DEF A!Init
  <2>3. <<>> \in Seq(Int) /\ Len(<<>>) = 0
    OBVIOUS
  <2>2. Holds(<<>>, <<>>, 0, 0) /\ Len(<<>>) = 0
    BY <2>3, NothingHeld
  <2> QED
    BY <1>2, <2>1, <2>2 DEF Rebuilt
<1> QED
  BY <1>1, <1>3, NoChildTyped DEF A!Init, AofWhole

LEMMA BytesTyped ==
    ASSUME NEW x \in {"sel", "cmd", "snap"}, NEW n \in Int
    PROVE  A!Bytes(<<x, n>>) \in Seq(Bytes)
<1>1. <<x, n>> \in Entries
  BY DEF Entries
<1>2. <<<<x, n>>, 1>> \in Bytes /\ <<<<x, n>>, 2>> \in Bytes
  BY <1>1 DEF Bytes
<1> QED
  BY <1>2 DEF A!Bytes

LEMMA HistTyped ==
    ASSUME AofShape, A!AofAssumption
    PROVE  /\ hist \in Seq(Int) /\ Len(hist) \in Nat
           /\ \A d \in Dbs : d \in Int /\ d # -1 /\ Append(hist, d) \in Seq(Dbs)
<1>1. hist \in Seq(Dbs) /\ Dbs \subseteq Nat
  BY DEF AofShape, A!AofAssumption
<1>2. Len(hist) \in Nat /\ \A d \in Dbs : Append(hist, d) \in Seq(Dbs)
  BY <1>1
<1>4. hist \in Seq(Int)
  <2>1. Dbs \subseteq Int
    BY <1>1
  <2> QED
    BY <1>1, <2>1, SeqMonotonic
<1> QED
  BY <1>1, <1>2, <1>4

\* What a command adds to a file and to what the child is sent.
Feed(d) == (IF ao.sel = d THEN <<>> ELSE A!Bytes(<<"sel", d>>)) \o A!Bytes(<<"cmd", Len(hist) + 1>>)

LEMMA FeedTyped ==
    ASSUME AofShape, A!AofAssumption, NEW d \in Dbs
    PROVE  Feed(d) \in Seq(Bytes)
<1>1. d \in Int /\ Len(hist) + 1 \in Int
  BY HistTyped
<1>2. A!Bytes(<<"sel", d>>) \in Seq(Bytes) /\ A!Bytes(<<"cmd", Len(hist) + 1>>) \in Seq(Bytes)
  BY <1>1, BytesTyped
<1>3. (IF ao.sel = d THEN <<>> ELSE A!Bytes(<<"sel", d>>)) \in Seq(Bytes)
  BY <1>2
<1> QED
  BY <1>2, <1>3 DEF Feed

LEMMA RebuiltGrows ==
    ASSUME AofShape, A!AofAssumption, NEW d \in Dbs, NEW b, Rebuilt(b, hist, ao.sel)
    PROVE  Rebuilt(b \o Feed(d), Append(hist, d), d)
<1>1. PICK x : Holds(b, hist, Len(hist), x) /\ (ao.sel = -1 \/ x = ao.sel)
  BY DEF Rebuilt
<1> DEFINE h == Append(hist, d)
           n == Len(hist)
           sl == A!Bytes(<<"sel", d>>)
           cm == A!Bytes(<<"cmd", n + 1>>)
<1>2. hist \in Seq(Int) /\ d \in Int /\ n \in Nat /\ d # -1
  BY HistTyped
<1>3. h \in Seq(Int) /\ Len(h) = n + 1 /\ h[n + 1] = d /\ \A i \in 1..n : h[i] = hist[i]
  BY <1>2
<1>4. b \in Seq(Bytes) /\ sl \in Seq(Bytes) /\ cm \in Seq(Bytes)
  BY <1>1, <1>2, HoldsTypes, BytesTyped
<1> HIDE DEF h, n, sl, cm
<1>5. Holds(b, h, n, x)
  <2>1. Len(h) >= n /\ \A i \in 1..n : i <= Len(hist) => h[i] = hist[i]
    BY <1>2, <1>3
  <2>2. Holds(b, hist, n, x)
    BY <1>1 DEF n
  <2> QED
    BY <1>2, <1>3, <2>1, <2>2, HoldsGrows
<1>6. CASE ao.sel = d
  <2>1. x = d
    BY <1>1, <1>2, <1>6
  <2>2. Holds(b \o cm, h, n + 1, d)
    <3>1. n + 1 <= Len(h) /\ h[n + 1] = x /\ Holds(b, h, n, x)
      BY <1>2, <1>3, <1>5, <2>1
    <3>2. Holds(b \o A!Bytes(<<"cmd", n + 1>>), h, n + 1, x)
      BY <1>3, <3>1, HoldsCommand
    <3> QED
      BY <2>1, <3>2 DEF cm
  <2>3. Feed(d) = cm
    BY <1>4, <1>6 DEF Feed, cm, n
  <2>4. Holds(b \o Feed(d), h, Len(h), d)
    BY <1>3, <2>2, <2>3
  <2> QED
    BY <2>4 DEF Rebuilt, h
<1>7. CASE ao.sel # d
  <2>1. Holds(b \o sl, h, n, d)
    <3>1. Holds(b \o A!Bytes(<<"sel", d>>), h, n, d)
      BY <1>2, <1>3, <1>5, HoldsSelect
    <3> QED
      BY <3>1 DEF sl
  <2>2. Holds((b \o sl) \o cm, h, n + 1, d)
    <3>1. n + 1 <= Len(h) /\ h[n + 1] = d
      BY <1>2, <1>3
    <3>2. Holds((b \o sl) \o A!Bytes(<<"cmd", n + 1>>), h, n + 1, d)
      BY <1>3, <2>1, <3>1, HoldsCommand
    <3> QED
      BY <3>2 DEF cm
  <2>3. Feed(d) = sl \o cm
    BY <1>7 DEF Feed, sl, cm, n
  <2>4. (b \o sl) \o cm = b \o (sl \o cm)
    BY <1>4, ConcatAssociative
  <2>5. Holds(b \o Feed(d), h, Len(h), d)
    BY <1>3, <2>2, <2>3, <2>4
  <2> QED
    BY <2>5 DEF Rebuilt, h
<1> QED
  BY <1>6, <1>7

LEMMA BytesAssociate ==
    \A x, y, z \in Seq(Bytes) : (x \o y) \o z = x \o (y \o z)
BY ConcatAssociative

LEMMA PartWritten ==
    ASSUME NEW x \in Seq(Bytes), NEW y \in Seq(Bytes), NEW n \in 0..Len(y)
    PROVE  /\ SubSeq(y, 1, n) \in Seq(Bytes) /\ Len(SubSeq(y, 1, n)) = n
           /\ SubSeq(y, n + 1, Len(y)) \in Seq(Bytes)
           /\ (x \o SubSeq(y, 1, n)) \o SubSeq(y, n + 1, Len(y)) = x \o y
<1> DEFINE a == SubSeq(y, 1, n)
           c == SubSeq(y, n + 1, Len(y))
<1>1. a \in Seq(Bytes) /\ Len(a) = n
  OBVIOUS
<1>2. c \in Seq(Bytes)
  OBVIOUS
<1>3. a \o c = y
  <2>1. n \in 1-1 .. Len(y) /\ 1 \in 1..Len(y)+1 /\ Len(y) \in n..Len(y)
    OBVIOUS
  <2>2. SubSeq(y, 1, n) \o SubSeq(y, n + 1, Len(y)) = SubSeq(y, 1, Len(y))
    BY <2>1, ConcatAdjacentSubSeq
  <2> QED
    BY <2>2, SubSeqFull
<1> HIDE DEF a, c
<1>5. (x \o a) \o c = x \o (a \o c)
  BY <1>1, <1>2, BytesAssociate
<1>4. (x \o a) \o c = x \o y
  BY <1>3, <1>5
<1> QED
  BY <1>1, <1>2, <1>4 DEF a, c

LEMMA CallKeeps ==
    ASSUME A!AofAssumption, AofShape, AofWhole, NEW d \in Dbs, A!Call(d)
    PROVE  AofShape' /\ AofWhole'
<1> DEFINE b == Feed(d)
<1>1. b \in Seq(Bytes) /\ hist' = Append(hist, d) /\ Append(hist, d) \in Seq(Dbs)
      /\ Len(hist') = Len(hist) + 1 /\ Len(hist) \in Nat /\ d \in Int
  BY FeedTyped, HistTyped DEF A!Call, AofShape
<1>2. swap = "no" /\ UNCHANGED <<file, synced, jobs, child, pipe, swap, acked, ghost>>
  BY DEF A!Call, A!disk
<1>0. acked' \in 0..Len(hist')
  BY <1>1, <1>2 DEF AofShape
<1>3. CASE ao.state = "off" /\ UNCHANGED <<ao, rwbuf>>
  <2>1. AofShape'
    BY <1>0, <1>1, <1>2, <1>3 DEF AofShape
  <2>2. AofWhole'
    BY <1>2, <1>3 DEF AofWhole
  <2> QED
    BY <2>1, <2>2
<1>4. CASE ao.state # "off" /\ A!feedAppendOnlyFile(d)
  <2> DEFINE new == IF ao.state = "on" THEN ao.buf \o b ELSE ao.buf
  <2>1. ao' = [ao EXCEPT !.sel = d, !.buf = new] /\ rwbuf' = IF child.stage # "none" THEN rwbuf \o b ELSE rwbuf
    BY <1>4 DEF A!feedAppendOnlyFile, Feed
  <2>2. ao \in AofState /\ new \in Seq(Bytes)
    BY <1>1 DEF AofShape, AofState
  <2>0. ao.state # "on" => new = ao.buf
    OBVIOUS
  <2> HIDE DEF b, new
  <2>3. /\ ao' \in AofState /\ ao'.state = ao.state /\ ao'.fd = ao.fd /\ ao'.sel = d /\ ao'.buf = new
        /\ ao'.size = ao.size /\ ao'.stop = ao.stop
    BY <1>1, <2>1, <2>2 DEF AofState
  <2>4. rwbuf' \in Seq(Bytes)
    BY <1>1, <2>1 DEF AofShape
  <2>5. AofShape'
    BY <1>0, <1>1, <1>2, <2>0, <2>1, <2>3, <2>4 DEF AofShape
  <2>6. ao.state = "on" => Rebuilt(file' \o ao'.buf, hist', ao'.sel)
    <3> SUFFICES ASSUME ao.state = "on" PROVE Rebuilt(file' \o ao'.buf, hist', ao'.sel)
      OBVIOUS
    <3>1. Rebuilt(file \o ao.buf, hist, ao.sel)
      BY <1>2 DEF AofWhole
    <3>2. Rebuilt((file \o ao.buf) \o b, hist', ao'.sel)
      BY <1>1, <2>3, <3>1, RebuiltGrows DEF b
    <3>3. file \in Seq(Bytes) /\ ao.buf \in Seq(Bytes)
      BY <2>2 DEF AofShape, AofState
    <3>4. (file \o ao.buf) \o b = file \o (ao.buf \o b)
      BY <1>1, <3>3, BytesAssociate
    <3> QED
      BY <1>2, <2>3, <3>2, <3>4 DEF new
  <2>7. child.stage \notin {"none", "failed"} => Rebuilt(ForChild', hist', ao'.sel)
    <3> SUFFICES ASSUME child.stage \notin {"none", "failed"} PROVE Rebuilt(ForChild', hist', ao'.sel)
      OBVIOUS
    <3> DEFINE x == A!Bytes(<<"snap", child.snap>>) \o child.diff \o pipe
    <3>1. Rebuilt(x \o rwbuf, hist, ao.sel)
      BY <1>4 DEF AofWhole, ForChild
    <3>2. Rebuilt((x \o rwbuf) \o b, hist', ao'.sel)
      BY <1>1, <2>3, <3>1, RebuiltGrows DEF b
    <3>3. x \in Seq(Bytes) /\ rwbuf \in Seq(Bytes)
      <4>1. A!Bytes(<<"snap", child.snap>>) \in Seq(Bytes)
        <5>1. child.snap \in Int
          BY DEF AofShape
        <5> QED
          BY <5>1, BytesTyped
      <4>2. child.diff \in Seq(Bytes) /\ pipe \in Seq(Bytes) /\ rwbuf \in Seq(Bytes)
        BY DEF AofShape
      <4> QED
        BY <4>1, <4>2
    <3>4. (x \o rwbuf) \o b = x \o (rwbuf \o b)
      BY <1>1, <3>3, BytesAssociate
    <3>5. ForChild' = x \o (rwbuf \o b)
      BY <1>2, <2>1 DEF ForChild
    <3> QED
      BY <3>2, <3>4, <3>5
  <2>8. AofWhole'
    BY <1>2, <2>3, <2>6, <2>7 DEF AofWhole
  <2> QED
    BY <2>5, <2>8
<1> QED
  BY <1>3, <1>4 DEF A!Call

\* Nothing changes that the invariant speaks of.
LEMMA AofSame ==
    ASSUME AofShape, AofWhole, ao' \in AofState,
           ao'.state = ao.state, ao'.fd = ao.fd, ao'.sel = ao.sel, ao'.buf = ao.buf, ao'.size = ao.size,
           ao'.stop = ao.stop, UNCHANGED <<hist, file, child, pipe, rwbuf, swap>>,
           acked' \in 0..Len(hist), synced' \in 0..Len(file)
    PROVE  AofShape' /\ AofWhole'
<1>1. AofShape'
  BY DEF AofShape
<1>2. ForChild' = ForChild
  BY DEF ForChild
<1>3. AofWhole'
  BY <1>2 DEF AofWhole
<1> QED
  BY <1>1, <1>3

LEMMA FlushKeeps ==
    ASSUME A!AofAssumption, AofShape, AofWhole, swap = "no", ao.fd = "open",
           A!flushAppendOnlyFile(FALSE), UNCHANGED <<hist, child, pipe, rwbuf, swap>>, acked' \in 0..Len(hist)
    PROVE  AofShape' /\ AofWhole'
<1>1. /\ ao \in AofState /\ ao.buf \in Seq(Bytes) /\ file \in Seq(Bytes) /\ ao.size = Len(file) /\ ao.size \in Nat
      /\ synced \in 0..Len(file)
  BY DEF AofShape, AofState
<1>2. ASSUME ao' \in AofState, ao'.state = ao.state, ao'.fd = ao.fd, ao'.sel = ao.sel, ao'.stop = ao.stop,
             ao'.size = Len(file'), file' \in Seq(Bytes), file' \o ao'.buf = file \o ao.buf,
             synced' \in 0..Len(file'), Policy = "always" => ao'.buf = <<>>
      PROVE  AofShape' /\ AofWhole'
  <2>1. AofShape'
    BY <1>2 DEF AofShape
  <2>2. ForChild' = ForChild
    BY DEF ForChild
  <2>3. AofWhole'
    BY <1>2, <2>2 DEF AofWhole
  <2> QED
    BY <2>1, <2>3
<1>3. CASE UNCHANGED <<ao, file, synced, jobs, ghost>>
  BY <1>1, <1>3, AofSame
<1>4. CASE ao' = [ao EXCEPT !.post = IF @ = "no" THEN "recent" ELSE @] /\ UNCHANGED <<file, synced, jobs, ghost>>
  <2>1. /\ ao' \in AofState /\ ao'.state = ao.state /\ ao'.fd = ao.fd /\ ao'.sel = ao.sel /\ ao'.buf = ao.buf
        /\ ao'.size = ao.size /\ ao'.stop = ao.stop
    BY <1>1, <1>4 DEF AofState
  <2> QED
    BY <1>1, <1>4, <2>1, AofSame
<1>5. CASE A!Written
  <2>1. PICK sec \in BOOLEAN : ao' = [ao EXCEPT !.buf = <<>>, !.size = @ + Len(ao.buf), !.err = FALSE, !.post = "no",
                                      !.newsec = sec]
    <3> DEFINE sec == ao.newsec /\ ~(Policy = "everysec" /\ ao.newsec)
    <3>1. ao' = [ao EXCEPT !.buf = <<>>, !.size = @ + Len(ao.buf), !.err = FALSE, !.post = "no", !.newsec = sec]
      BY <1>5 DEF A!Written
    <3> QED
      BY <3>1
  <2> DEFINE l == ao.size + Len(ao.buf)
  <2>2. l \in Nat
    BY <1>1
  <2>3. ao' = [ao EXCEPT !.buf = <<>>, !.size = l, !.err = FALSE, !.post = "no", !.newsec = sec]
    BY <2>1
  <2>4. file' = file \o ao.buf /\ file' \in Seq(Bytes) /\ Len(file') = l
    BY <1>1, <1>5 DEF A!Written
  <2> HIDE DEF l
  <2>5. /\ ao' \in AofState /\ ao'.state = ao.state /\ ao'.fd = ao.fd /\ ao'.sel = ao.sel /\ ao'.buf = <<>>
        /\ ao'.size = l /\ ao'.stop = ao.stop
    <3> DEFINE e == <<>>
    <3>1. e \in Seq(Bytes) /\ e = <<>>
      OBVIOUS
    <3>2. ao' = [ao EXCEPT !.buf = e, !.size = l, !.err = FALSE, !.post = "no", !.newsec = sec]
      BY <2>3
    <3> HIDE DEF e
    <3>3. ao' \in AofState
      BY <1>1, <2>2, <3>1, <3>2 DEF AofState
    <3>4. /\ ao'.state = ao.state /\ ao'.fd = ao.fd /\ ao'.sel = ao.sel /\ ao'.buf = e
          /\ ao'.size = l /\ ao'.stop = ao.stop
      BY <1>1, <3>2 DEF AofState
    <3> QED
      BY <3>1, <3>3, <3>4
  <2>6. file' \o ao'.buf = file \o ao.buf
    BY <2>4, <2>5
  <2>7. synced' \in 0..Len(file')
    <3>1. synced' = Len(file') \/ synced' = synced
      BY <1>5 DEF A!Written
    <3>2. Len(file) <= Len(file')
      BY <1>1, <2>4 DEF l
    <3> QED
      BY <1>1, <2>2, <2>4, <3>1, <3>2
  <2> QED
    BY <1>2, <2>4, <2>5, <2>6, <2>7
<1>6. ASSUME NEW n \in 0..(Len(ao.buf) - 1), NEW cut \in BOOLEAN, A!ShortWrite(n, cut), UNCHANGED synced,
             Policy # "always"
      PROVE  AofShape' /\ AofWhole'
  <2> DEFINE x == SubSeq(ao.buf, 1, n)
             y == SubSeq(ao.buf, n + 1, Len(ao.buf))
  <2>1. n \in 0..Len(ao.buf)
    BY <1>1
  <2>2. x \in Seq(Bytes) /\ Len(x) = n /\ y \in Seq(Bytes) /\ (file \o x) \o y = file \o ao.buf
    BY <1>1, <2>1, PartWritten
  <2> HIDE DEF x, y
  <2>3. CASE cut
    <3>1. ao' = [ao EXCEPT !.size = @, !.err = TRUE, !.post = "no", !.buf = @]
      BY <1>6, <2>3 DEF A!ShortWrite
    <3>2. /\ ao' \in AofState /\ ao'.state = ao.state /\ ao'.fd = ao.fd /\ ao'.sel = ao.sel /\ ao'.buf = ao.buf
          /\ ao'.size = ao.size /\ ao'.stop = ao.stop
      BY <1>1, <3>1 DEF AofState
    <3>3. file' = file
      <4>1. file' = SubSeq(file, 1, Len(file))
        BY <1>1, <1>6, <2>3 DEF A!ShortWrite
      <4> QED
        BY <1>1, <4>1, SubSeqFull
    <3> QED
      BY <1>1, <1>6, <3>2, <3>3, AofSame
  <2>4. CASE ~cut
    <3> DEFINE l == ao.size + n
    <3>1. ao' = [ao EXCEPT !.size = l, !.err = TRUE, !.post = "no", !.buf = y]
      BY <1>6, <2>4 DEF A!ShortWrite, y
    <3>2. file' = file \o x
      BY <1>6, <2>4 DEF A!ShortWrite, x
    <3>3. l \in Nat /\ file' \in Seq(Bytes) /\ Len(file') = l /\ synced' \in 0..Len(file')
      BY <1>1, <1>6, <2>1, <2>2, <3>2
    <3> HIDE DEF l
    <3>4. /\ ao' \in AofState /\ ao'.state = ao.state /\ ao'.fd = ao.fd /\ ao'.sel = ao.sel /\ ao'.buf = y
          /\ ao'.size = l /\ ao'.stop = ao.stop
      BY <1>1, <2>2, <3>1, <3>3 DEF AofState
    <3> QED
      BY <1>2, <1>6, <2>2, <3>2, <3>3, <3>4
  <2> QED
    BY <2>3, <2>4
<1> QED
  BY <1>3, <1>4, <1>5, <1>6 DEF A!flushAppendOnlyFile, A!disk

LEMMA ForChildTyped ==
    ASSUME AofShape
    PROVE  /\ A!Bytes(<<"snap", child.snap>>) \in Seq(Bytes) /\ child.diff \in Seq(Bytes)
           /\ ForChild \in Seq(Bytes)
           /\ ForChild = (A!Bytes(<<"snap", child.snap>>) \o child.diff) \o (pipe \o rwbuf)
<1> DEFINE x == A!Bytes(<<"snap", child.snap>>)
<1>1. x \in Seq(Bytes)
  <2>1. child.snap \in Int
    BY DEF AofShape
  <2> QED
    BY <2>1, BytesTyped
<1>2. child.diff \in Seq(Bytes) /\ pipe \in Seq(Bytes) /\ rwbuf \in Seq(Bytes)
  BY DEF AofShape
<1> HIDE DEF x
<1>3. x \o child.diff \in Seq(Bytes)
  BY <1>1, <1>2
<1>4. ((x \o child.diff) \o pipe) \o rwbuf = (x \o child.diff) \o (pipe \o rwbuf)
  BY <1>2, <1>3, BytesAssociate
<1>5. ForChild = ((x \o child.diff) \o pipe) \o rwbuf
  BY DEF ForChild, x
<1>6. ForChild \in Seq(Bytes)
  BY <1>2, <1>3, <1>5
<1> QED
  BY <1>1, <1>2, <1>4, <1>5, <1>6 DEF x

\* The child goes on: it is sent the same bytes as before.
LEMMA ChildSame ==
    ASSUME AofShape, AofWhole, ao' \in AofState,
           ao'.state = ao.state, ao'.fd = ao.fd, ao'.sel = ao.sel, ao'.buf = ao.buf, ao'.size = ao.size,
           UNCHANGED <<hist, file, synced, swap, acked>>,
           child' \in [stage : Stages, snap : Nat, diff : Seq(Bytes)],
           pipe' \in Seq(Bytes), rwbuf' \in Seq(Bytes), swap = "renamed" => child'.stage = "done",
           child'.stage # "none", child.stage # "none", child'.stage \in {"agreed", "done"} => ao'.stop,
           child'.stage = "done" => pipe' = <<>>,
           child'.stage # "failed" => child.stage # "failed" /\ ForChild' = ForChild
    PROVE  AofShape' /\ AofWhole'
<1>1. AofShape'
  BY DEF AofShape
<1>2. AofWhole'
  BY DEF AofWhole
<1> QED
  BY <1>1, <1>2

LEMMA ChildSteps ==
    ASSUME AofShape, AofWhole,
           \/ A!aofChildWriteDiffData \/ A!aofReadDiffFromParent \/ A!ChildAsks
           \/ A!aofChildPipeReadable \/ A!ChildExits \/ A!ChildFails
    PROVE  AofShape' /\ AofWhole'
<1> DEFINE x == A!Bytes(<<"snap", child.snap>>)
<1>1. /\ ao \in AofState /\ child \in [stage : Stages, snap : Nat, diff : Seq(Bytes)]
      /\ pipe \in Seq(Bytes) /\ rwbuf \in Seq(Bytes) /\ child.diff \in Seq(Bytes) /\ x \in Seq(Bytes)
      /\ child.snap \in Nat /\ <<>> \in Seq(Bytes)
  BY ForChildTyped DEF AofShape
<1>2. ForChild = x \o child.diff \o pipe \o rwbuf
  BY DEF ForChild
<1>3. /\ swap = "renamed" => child.stage = "done"
      /\ child.stage \in {"agreed", "done"} => ao.stop
      /\ child.stage = "done" => pipe = <<>>
  BY DEF AofShape
<1>4. CASE A!aofChildWriteDiffData
  <2>1. PICK n \in {1, Len(rwbuf)} :
           pipe' = pipe \o SubSeq(rwbuf, 1, n) /\ rwbuf' = SubSeq(rwbuf, n + 1, Len(rwbuf))
    BY <1>4 DEF A!aofChildWriteDiffData
  <2>2. /\ child.stage # "none" /\ ~ao.stop /\ rwbuf # <<>>
        /\ UNCHANGED <<hist, ao, file, synced, child, swap, acked>>
    BY <1>4 DEF A!aofChildWriteDiffData, A!disk
  <2>3. n \in 0..Len(rwbuf)
    <3>1. Len(rwbuf) \in Nat /\ Len(rwbuf) # 0
      BY <1>1, <2>2
    <3> QED
      BY <3>1
  <2> DEFINE a == SubSeq(rwbuf, 1, n)
             c == SubSeq(rwbuf, n + 1, Len(rwbuf))
  <2>4. a \in Seq(Bytes) /\ c \in Seq(Bytes) /\ (pipe \o a) \o c = pipe \o rwbuf
    BY <1>1, <2>3, PartWritten
  <2>5. pipe' = pipe \o a /\ rwbuf' = c
    BY <2>1
  <2> HIDE DEF a, c, x
  <2>6. pipe' \in Seq(Bytes) /\ rwbuf' \in Seq(Bytes)
    BY <1>1, <2>4, <2>5
  <2>7. ForChild' = ForChild
    <3>1. x \o child.diff \in Seq(Bytes)
      BY <1>1
    <3>2. ForChild = (x \o child.diff) \o (pipe \o rwbuf)
      BY ForChildTyped DEF x
    <3>3. ForChild' = ((x \o child.diff) \o pipe') \o rwbuf'
      BY <2>2 DEF ForChild, x
    <3>4. ((x \o child.diff) \o pipe') \o rwbuf' = (x \o child.diff) \o (pipe' \o rwbuf')
      BY <2>6, <3>1, BytesAssociate
    <3>5. pipe' \o rwbuf' = pipe \o rwbuf
      BY <2>4, <2>5
    <3> QED
      BY <3>2, <3>3, <3>4, <3>5
  <2>8. child.stage \notin {"agreed", "done"}
    BY <1>3, <2>2
  <2>9. child.stage # "failed" => ForChild' = ForChild
    BY <2>7
  <2> QED
    BY <1>1, <1>3, <2>2, <2>6, <2>8, <2>9, ChildSame
<1>5. CASE A!aofReadDiffFromParent
  <2>1. /\ child.stage = "saving" /\ child' = [child EXCEPT !.diff = @ \o pipe] /\ pipe' = <<>>
        /\ UNCHANGED <<hist, ao, file, synced, rwbuf, swap, acked>>
    BY <1>5 DEF A!aofReadDiffFromParent, A!disk
  <2> DEFINE f == child.diff \o pipe
  <2>2. f \in Seq(Bytes) /\ child' = [child EXCEPT !.diff = f]
    BY <1>1, <2>1
  <2> HIDE DEF f
  <2>3. child' \in [stage : Stages, snap : Nat, diff : Seq(Bytes)] /\ child'.stage = "saving"
        /\ child'.snap = child.snap /\ child'.diff = f
    BY <1>1, <2>1, <2>2
  <2> HIDE DEF x
  <2>4. ForChild' = ForChild
    <3>1. ForChild' = ((x \o f) \o <<>>) \o rwbuf
      BY <2>1, <2>3 DEF ForChild, x
    <3>2. x \o f \in Seq(Bytes)
      BY <1>1, <2>2
    <3>3. (x \o f) \o <<>> = x \o f
      BY <3>2, ConcatEmptySeq
    <3>4. x \o f = (x \o child.diff) \o pipe
      BY <1>1, BytesAssociate DEF f
    <3> QED
      BY <1>2, <3>1, <3>3, <3>4
  <2> QED
    BY <1>1, <1>3, <2>1, <2>3, <2>4, ChildSame
<1>6. CASE A!ChildAsks
  <2>1. /\ child.stage = "saving" /\ child' = [child EXCEPT !.stage = "asked"]
        /\ UNCHANGED <<hist, ao, file, synced, pipe, rwbuf, swap, acked>>
    BY <1>6 DEF A!ChildAsks, A!disk
  <2>3. child' \in [stage : Stages, snap : Nat, diff : Seq(Bytes)] /\ child'.stage = "asked"
        /\ child'.snap = child.snap /\ child'.diff = child.diff
    BY <1>1, <2>1 DEF Stages
  <2>4. ForChild' = ForChild
    BY <2>1, <2>3 DEF ForChild
  <2> QED
    BY <1>1, <1>3, <2>1, <2>3, <2>4, ChildSame
<1>7. CASE A!aofChildPipeReadable
  <2>1. /\ child.stage = "asked" /\ child' = [child EXCEPT !.stage = "agreed"]
        /\ ao' = [ao EXCEPT !.stop = TRUE]
        /\ UNCHANGED <<hist, file, synced, pipe, rwbuf, swap, acked>>
    BY <1>7 DEF A!aofChildPipeReadable, A!disk
  <2>2. /\ ao' \in AofState /\ ao'.state = ao.state /\ ao'.fd = ao.fd /\ ao'.sel = ao.sel /\ ao'.buf = ao.buf
        /\ ao'.size = ao.size /\ ao'.stop
    BY <1>1, <2>1 DEF AofState
  <2>3. child' \in [stage : Stages, snap : Nat, diff : Seq(Bytes)] /\ child'.stage = "agreed"
        /\ child'.snap = child.snap /\ child'.diff = child.diff
    BY <1>1, <2>1 DEF Stages
  <2>4. ForChild' = ForChild
    BY <2>1, <2>3 DEF ForChild
  <2> QED
    BY <1>1, <1>3, <2>1, <2>2, <2>3, <2>4, ChildSame
<1>8. CASE A!ChildExits
  <2>1. /\ child.stage = "agreed" /\ child' = [child EXCEPT !.diff = @ \o pipe, !.stage = "done"] /\ pipe' = <<>>
        /\ UNCHANGED <<hist, ao, file, synced, rwbuf, swap, acked>>
    BY <1>8 DEF A!ChildExits, A!disk
  <2> DEFINE f == child.diff \o pipe
  <2>2. f \in Seq(Bytes) /\ child' = [child EXCEPT !.diff = f, !.stage = "done"]
    BY <1>1, <2>1
  <2> HIDE DEF f
  <2>3. child' \in [stage : Stages, snap : Nat, diff : Seq(Bytes)] /\ child'.stage = "done"
        /\ child'.snap = child.snap /\ child'.diff = f
    BY <1>1, <2>1, <2>2 DEF Stages
  <2> HIDE DEF x
  <2>4. ForChild' = ForChild
    <3>1. ForChild' = ((x \o f) \o <<>>) \o rwbuf
      BY <2>1, <2>3 DEF ForChild, x
    <3>2. x \o f \in Seq(Bytes)
      BY <1>1, <2>2
    <3>3. (x \o f) \o <<>> = x \o f
      BY <3>2, ConcatEmptySeq
    <3>4. x \o f = (x \o child.diff) \o pipe
      BY <1>1, BytesAssociate DEF f
    <3> QED
      BY <1>2, <3>1, <3>3, <3>4
  <2> QED
    BY <1>1, <1>3, <2>1, <2>3, <2>4, ChildSame
<1>9. CASE A!ChildFails
  <2>1. /\ child.stage \in {"saving", "asked", "agreed"} /\ child' = [child EXCEPT !.stage = "failed"]
        /\ UNCHANGED <<hist, ao, file, synced, pipe, rwbuf, swap, acked>>
    BY <1>9 DEF A!ChildFails, A!disk
  <2>3. child' \in [stage : Stages, snap : Nat, diff : Seq(Bytes)] /\ child'.stage = "failed"
    BY <1>1, <2>1 DEF Stages
  <2> QED
    BY <1>1, <1>3, <2>1, <2>3, ChildSame
<1> QED
  BY <1>4, <1>5, <1>6, <1>7, <1>8, <1>9

\* What the child is sent begins with the snapshot it was forked for.
LEMMA ForkRebuilds ==
    ASSUME A!AofAssumption, AofShape
    PROVE  Rebuilt(A!Bytes(<<"snap", Len(hist)>>) \o <<>> \o <<>> \o <<>>, hist, -1)
<1>1. hist \in Seq(Int) /\ Len(hist) \in Nat
  BY HistTyped
<1> DEFINE x == A!Bytes(<<"snap", Len(hist)>>)
<1>2. x \in Seq(Bytes) /\ Len(hist) \in 0..Len(hist)
  BY <1>1, BytesTyped
<1>3. Holds(x, hist, Len(hist), -1)
  BY <1>1, <1>2, HoldsSnapshot
<1>4. x \o <<>> = x
  BY <1>2, ConcatEmptySeq
<1> HIDE DEF x
<1>5. x \o <<>> \o <<>> \o <<>> = x
  BY <1>4
<1>6. Rebuilt(x, hist, -1)
  BY <1>3 DEF Rebuilt
<1> QED
  BY <1>5, <1>6 DEF x

LEMMA ForkedTyped ==
    ASSUME ao \in AofState, NEW r, r = A!Forked(ao)
    PROVE  /\ r \in AofState /\ r.state = ao.state /\ r.fd = ao.fd /\ r.sel = -1 /\ r.buf = ao.buf
           /\ r.size = ao.size
<1> DEFINE m == -1
           b == FALSE
<1>1. m \in Int /\ m = -1 /\ b \in BOOLEAN
  OBVIOUS
<1>2. r = [ao EXCEPT !.sel = m, !.sched = b, !.stop = b]
  BY DEF A!Forked
<1> HIDE DEF m, b
<1>3. r \in AofState
  BY <1>1, <1>2 DEF AofState
<1>4. /\ r.state = ao.state /\ r.fd = ao.fd /\ r.sel = m /\ r.buf = ao.buf
      /\ r.size = ao.size
  BY <1>1, <1>2 DEF AofState
<1> QED
  BY <1>1, <1>3, <1>4

LEMMA SavingTyped ==
    ASSUME NEW n \in Nat, NEW c, c = [A!NoChild EXCEPT !.stage = "saving", !.snap = n]
    PROVE  /\ c \in [stage : Stages, snap : Nat, diff : Seq(Bytes)]
           /\ c.stage = "saving" /\ c.snap = n /\ c.diff = <<>>
<1> DEFINE r == A!NoChild
           s == "saving"
           e == <<>>
<1>1. r \in [stage : Stages, snap : Nat, diff : Seq(Bytes)] /\ r.diff = e /\ s \in Stages /\ e = <<>>
  BY NoChildTyped DEF Stages
<1>2. c = [r EXCEPT !.stage = s, !.snap = n]
  OBVIOUS
<1> HIDE DEF r, s, e
<1>3. c \in [stage : Stages, snap : Nat, diff : Seq(Bytes)]
  BY <1>1, <1>2
<1>4. c.stage = s /\ c.snap = n /\ c.diff = e
  BY <1>1, <1>2
<1> QED
  BY <1>1, <1>3, <1>4 DEF s

LEMMA ForkKeeps ==
    ASSUME A!AofAssumption, AofShape, AofWhole, A!rewriteAppendOnlyFileBackground
    PROVE  AofShape' /\ AofWhole'
<1> DEFINE n == Len(hist)
<1>1. /\ child = A!NoChild /\ swap = "no" /\ ao' = A!Forked(ao) /\ pipe' = <<>>
      /\ child' = [A!NoChild EXCEPT !.stage = "saving", !.snap = n]
      /\ UNCHANGED <<hist, file, synced, rwbuf, swap, acked>>
  BY DEF A!rewriteAppendOnlyFileBackground, A!disk
<1>2. n \in Nat
  BY HistTyped
<1>3. ao \in AofState
  BY DEF AofShape
<1>4. /\ ao' \in AofState /\ ao'.state = ao.state /\ ao'.fd = ao.fd /\ ao'.sel = -1 /\ ao'.buf = ao.buf
      /\ ao'.size = ao.size
  BY <1>1, <1>3, ForkedTyped
<1> HIDE DEF n
<1>5. child' \in [stage : Stages, snap : Nat, diff : Seq(Bytes)] /\ child'.stage = "saving"
      /\ child'.snap = n /\ child'.diff = <<>>
  BY <1>1, <1>2, SavingTyped
<1>6. rwbuf = <<>>
  BY <1>1, NoChildTyped DEF AofShape
<1>7. AofShape'
  BY <1>1, <1>4, <1>5, <1>6 DEF AofShape
<1>8. Rebuilt(ForChild', hist', ao'.sel)
  <2>1. ForChild' = A!Bytes(<<"snap", n>>) \o <<>> \o <<>> \o <<>>
    BY <1>1, <1>5, <1>6 DEF ForChild
  <2> QED
    BY <1>1, <1>4, <2>1, ForkRebuilds DEF n
<1>9. ao.state = "on" => Rebuilt(file' \o ao'.buf, hist', ao'.sel)
  BY <1>1, <1>4 DEF AofWhole, Rebuilt
<1>10. AofWhole'
  BY <1>1, <1>4, <1>8, <1>9 DEF AofWhole
<1> QED
  BY <1>7, <1>10

LEMMA RewriteFailedKeeps ==
    ASSUME AofShape, AofWhole, A!RewriteFailed
    PROVE  AofShape' /\ AofWhole'
<1>1. /\ swap = "no" /\ child' = A!NoChild /\ pipe' = <<>> /\ rwbuf' = <<>>
      /\ ao' = [ao EXCEPT !.sched = (ao.state = "wait")]
      /\ UNCHANGED <<hist, file, synced, swap, acked>>
  BY DEF A!RewriteFailed, A!Cleanup, A!Reschedule, A!disk
<1>2. ao \in AofState
  BY DEF AofShape
<1> DEFINE sch == (ao.state = "wait")
<1>3. sch \in BOOLEAN
  OBVIOUS
<1>4. ao' = [ao EXCEPT !.sched = sch]
  BY <1>1
<1> HIDE DEF sch
<1>5. /\ ao' \in AofState /\ ao'.state = ao.state /\ ao'.fd = ao.fd /\ ao'.sel = ao.sel /\ ao'.buf = ao.buf
      /\ ao'.size = ao.size
  BY <1>2, <1>3, <1>4 DEF AofState
<1>6. AofShape'
  BY <1>1, <1>5, NoChildTyped DEF AofShape
<1>7. AofWhole'
  BY <1>1, <1>5, NoChildTyped DEF AofWhole
<1> QED
  BY <1>6, <1>7

LEMMA RenameKeeps ==
    ASSUME AofShape, AofWhole, A!RewriteRename
    PROVE  AofShape' /\ AofWhole'
<1> DEFINE new == A!Bytes(<<"snap", child.snap>>) \o child.diff
<1>1. /\ child.stage = "done" /\ swap = "no" /\ file' = new \o rwbuf /\ synced' = Len(new) /\ swap' = "renamed"
      /\ UNCHANGED <<hist, ao, child, pipe, rwbuf, acked>>
  BY DEF A!RewriteRename, A!rewrite
<1>2. new \in Seq(Bytes) /\ rwbuf \in Seq(Bytes)
  BY ForChildTyped DEF AofShape
<1>3. pipe = <<>>
  BY <1>1 DEF AofShape
<1>4. ForChild = file'
  <2>1. ForChild = new \o (<<>> \o rwbuf)
    BY <1>3, ForChildTyped
  <2>2. <<>> \o rwbuf = rwbuf
    BY <1>2, ConcatEmptySeq
  <2> QED
    BY <1>1, <2>1, <2>2
<1> HIDE DEF new
<1>5. file' \in Seq(Bytes) /\ synced' \in 0..Len(file')
  BY <1>1, <1>2
<1>6. AofShape'
  BY <1>1, <1>5 DEF AofShape
<1>7. ForChild' = ForChild
  BY <1>1 DEF ForChild
<1>8. AofWhole'
  BY <1>1, <1>4, <1>7 DEF AofWhole
<1> QED
  BY <1>6, <1>8

LEMMA SwitchedTyped ==
    ASSUME ao \in AofState, file \in Seq(Bytes)
    PROVE  /\ A!Switched \in AofState
           /\ A!Switched.state = (IF ao.state = "wait" THEN "on" ELSE ao.state)
           /\ A!Switched.fd = "open" /\ A!Switched.sel = -1 /\ A!Switched.buf = <<>> /\ A!Switched.size = Len(file)
<1> DEFINE st == IF ao.state = "wait" THEN "on" ELSE ao.state
           e == <<>>
           l == Len(file)
           sch == (ao.state = "wait")
           r == [ao EXCEPT !.sched = sch]
           m == -1
           no == FALSE
           n == A!Switched
<1>1. /\ st \in {"on", "wait", "off"} /\ e \in Seq(Bytes) /\ l \in Nat /\ sch \in BOOLEAN
      /\ m \in Int /\ no \in BOOLEAN
  BY DEF AofState
<1>2. A!Reschedule(ao) = r
  BY DEF A!Reschedule
<1> HIDE DEF sch
<1>3. r \in AofState /\ r.state = ao.state
  BY <1>1 DEF AofState
<1> HIDE DEF r
<1>4. n = [r EXCEPT !.fd = "open", !.sel = m, !.buf = e, !.size = l, !.state = st, !.sched = no]
  BY <1>2, <1>3 DEF A!Switched
<1> HIDE DEF st, e, l, m, no, n
<1>5. n \in AofState
  BY <1>1, <1>3, <1>4 DEF AofState
<1>6. n.state = st /\ n.fd = "open" /\ n.sel = m /\ n.buf = e /\ n.size = l
  BY <1>1, <1>3, <1>4 DEF AofState
<1> QED
  BY <1>5, <1>6 DEF st, e, l, m, n

LEMMA DoneKeeps ==
    ASSUME AofShape, AofWhole, A!RewriteDone
    PROVE  AofShape' /\ AofWhole'
<1>1. /\ swap = "renamed" /\ swap' = "no" /\ child' = A!NoChild /\ pipe' = <<>> /\ rwbuf' = <<>>
      /\ UNCHANGED <<hist, file, acked>>
  BY DEF A!RewriteDone, A!Cleanup
<1>2. ao \in AofState /\ file \in Seq(Bytes) /\ synced \in 0..Len(file)
  BY DEF AofShape
<1>3. CASE ao.fd = "none" /\ UNCHANGED <<ao, synced>>
  <2>1. ao.state = "off"
    BY <1>3 DEF AofShape
  <2>2. AofShape'
    BY <1>1, <1>3, <2>1, NoChildTyped DEF AofShape
  <2>3. AofWhole'
    BY <1>1, <1>3, <2>1, NoChildTyped DEF AofWhole
  <2> QED
    BY <2>2, <2>3
<1>4. CASE ao.fd # "none" /\ ao' = A!Switched /\ synced' = IF Policy = "always" THEN Len(file) ELSE synced
  <2>4. ao' \in AofState
    BY <1>2, <1>4, SwitchedTyped
  <2>5. /\ ao'.state = (IF ao.state = "wait" THEN "on" ELSE ao.state) /\ ao'.fd = "open" /\ ao'.sel = -1
        /\ ao'.buf = <<>> /\ ao'.size = Len(file)
    BY <1>2, <1>4, SwitchedTyped
  <2>6. synced' \in 0..Len(file')
    BY <1>1, <1>2, <1>4
  <2>7. AofShape'
    BY <1>1, <2>4, <2>5, <2>6, NoChildTyped DEF AofShape
  <2>8. ao'.state = "on" => Rebuilt(file' \o ao'.buf, hist', ao'.sel)
    <3> SUFFICES ASSUME ao'.state = "on" PROVE Rebuilt(file' \o ao'.buf, hist', ao'.sel)
      OBVIOUS
    <3>1. ao.state # "off"
      BY <2>5
    <3>2. Rebuilt(file, hist, ao.sel)
      BY <1>1, <3>1 DEF AofWhole
    <3>3. file' \o ao'.buf = file
      BY <1>1, <1>2, <2>5, ConcatEmptySeq
    <3> QED
      BY <1>1, <2>5, <3>2, <3>3 DEF Rebuilt
  <2>9. AofWhole'
    BY <1>1, <2>8, NoChildTyped DEF AofWhole
  <2> QED
    BY <2>7, <2>9
<1> QED
  BY <1>3, <1>4 DEF A!RewriteDone

LEMMA StopKeeps ==
    ASSUME AofShape, AofWhole, A!stopAppendOnly
    PROVE  AofShape' /\ AofWhole'
<1>1. /\ swap = "no" /\ child' = A!NoChild /\ pipe' = <<>> /\ rwbuf' = <<>> /\ synced' = Len(file')
      /\ UNCHANGED <<hist, swap, acked>>
  BY DEF A!stopAppendOnly, A!Cleanup
<1>2. ao \in AofState /\ file \in Seq(Bytes) /\ ao.buf \in Seq(Bytes)
  BY DEF AofShape, AofState
<1> DEFINE m == -1
<1>0. m = -1 /\ m \in Int
  OBVIOUS
<1> HIDE DEF m
<1> DEFINE off == [ao EXCEPT !.state = "off", !.fd = "none", !.sel = m, !.post = "no"]
<1>3. off \in AofState
  BY <1>0, <1>2 DEF AofState
<1>4. ASSUME ao' \in AofState, ao'.state = "off", ao'.fd = "none", file' \in Seq(Bytes),
             Policy = "always" => ao'.buf = <<>>
      PROVE  AofShape' /\ AofWhole'
  <2>1. synced' \in 0..Len(file')
    BY <1>1, <1>4
  <2>2. AofShape'
    BY <1>1, <1>4, <2>1, NoChildTyped DEF AofShape
  <2>3. AofWhole'
    BY <1>1, <1>4 DEF AofWhole
  <2> QED
    BY <2>2, <2>3
<1>5. CASE /\ file' = file \o ao.buf
           /\ ao' = [off EXCEPT !.buf = <<>>, !.err = (@ /\ ao.buf = <<>>), !.size = Len(file')]
  <2> DEFINE e == <<>>
             err == (off.err /\ ao.buf = <<>>)
             l == Len(file')
  <2>1. file' \in Seq(Bytes) /\ l \in Nat /\ e \in Seq(Bytes) /\ err \in BOOLEAN
    BY <1>2, <1>5
  <2>2. ao' = [off EXCEPT !.buf = e, !.err = err, !.size = l]
    BY <1>5
  <2>3. off.state = "off" /\ off.fd = "none"
    BY <1>2 DEF AofState
  <2>0. e = <<>>
    OBVIOUS
  <2> HIDE DEF off, e, err, l
  <2>4. ao' \in AofState /\ ao'.state = "off" /\ ao'.fd = "none" /\ ao'.buf = e
    BY <1>3, <2>1, <2>2, <2>3 DEF AofState
  <2> QED
    BY <1>4, <2>0, <2>1, <2>4
<1>6. CASE ao' = [off EXCEPT !.err = TRUE] /\ UNCHANGED file /\ Policy # "always"
  <2>3. off.state = "off" /\ off.fd = "none"
    BY <1>2 DEF AofState
  <2> HIDE DEF off
  <2>4. ao' \in AofState /\ ao'.state = "off" /\ ao'.fd = "none"
    BY <1>3, <1>6, <2>3 DEF AofState
  <2> QED
    BY <1>2, <1>4, <1>6, <2>4
<1>7. off = [ao EXCEPT !.state = "off", !.fd = "none", !.sel = -1, !.post = "no"]
  BY <1>0
<1> QED
  BY <1>5, <1>6, <1>7 DEF A!stopAppendOnly

LEMMA StartKeeps ==
    ASSUME A!AofAssumption, AofShape, AofWhole, A!startAppendOnly
    PROVE  AofShape' /\ AofWhole'
<1>1. /\ ao.state = "off" /\ swap = "no" /\ UNCHANGED <<hist, file, synced, pipe, rwbuf, swap, acked>>
  BY DEF A!startAppendOnly, A!disk
<1>2. ao \in AofState /\ file \in Seq(Bytes)
  BY DEF AofShape
<1>3. CASE /\ child = A!NoChild
           /\ ao' = [A!Forked(ao) EXCEPT !.fd = "open", !.state = "wait", !.size = Len(file)]
           /\ child' = [A!NoChild EXCEPT !.stage = "saving", !.snap = Len(hist)]
  <2> DEFINE n == Len(hist)
             l == Len(file)
             r == A!Forked(ao)
  <2>1. n \in Nat /\ l \in Nat
    BY <1>2, HistTyped
  <2>2. r \in AofState /\ r.sel = -1 /\ r.buf = ao.buf
    BY <1>2, ForkedTyped
  <2> HIDE DEF n, l, r
  <2>3. ao' = [r EXCEPT !.fd = "open", !.state = "wait", !.size = l]
    BY <1>3 DEF r, l
  <2>4. ao' \in AofState /\ ao'.fd = "open" /\ ao'.state = "wait" /\ ao'.size = l /\ ao'.sel = -1
        /\ ao'.buf = ao.buf
    BY <2>1, <2>2, <2>3 DEF AofState
  <2>5. child' = [A!NoChild EXCEPT !.stage = "saving", !.snap = n]
    BY <1>3 DEF n
  <2>6. child' \in [stage : Stages, snap : Nat, diff : Seq(Bytes)] /\ child'.stage = "saving"
        /\ child'.snap = n /\ child'.diff = <<>>
    BY <2>1, <2>5, SavingTyped
  <2>7. pipe = <<>> /\ rwbuf = <<>>
    BY <1>3, NoChildTyped DEF AofShape
  <2>8. AofShape'
    BY <1>1, <2>4, <2>6 DEF AofShape, l
  <2>9. Rebuilt(ForChild', hist', ao'.sel)
    <3>1. ForChild' = A!Bytes(<<"snap", n>>) \o <<>> \o <<>> \o <<>>
      BY <1>1, <2>6, <2>7 DEF ForChild
    <3> QED
      BY <1>1, <2>4, <3>1, ForkRebuilds DEF n
  <2>10. AofWhole'
    BY <1>1, <2>4, <2>9 DEF AofWhole
  <2> QED
    BY <2>8, <2>10
<1>4. CASE child # A!NoChild /\ ao' = [ao EXCEPT !.fd = "stale"] /\ UNCHANGED child
  <2>1. ao' \in AofState /\ ao'.state = ao.state /\ ao'.fd = "stale" /\ ao'.stop = ao.stop
    BY <1>2, <1>4 DEF AofState
  <2>2. AofShape'
    BY <1>1, <1>4, <2>1 DEF AofShape
  <2>3. AofWhole'
    BY <1>1, <2>1 DEF AofWhole
  <2> QED
    BY <2>2, <2>3
<1> QED
  BY <1>3, <1>4 DEF A!startAppendOnly

\* After a start the file holds exactly the commands that are known, and all of those that
\* what was kept of the bytes b held before.
LEMMA RestartKeeps ==
    ASSUME A!AofAssumption, AofShape, NEW b, NEW d, Holds(b, hist, Len(hist), d),
           NEW k \in 0..Len(b), A!Restart(SubSeq(b, 1, k))
    PROVE  /\ AofShape' /\ AofWhole'
           /\ \E m \in 0..Len(hist), c \in Int :
                 /\ hist' = SubSeq(hist, 1, m) /\ Holds(file', hist', m, c) /\ synced' = Len(file')
                 /\ acked' = (IF acked < m THEN acked ELSE m)
                 /\ ghost' = [ghost EXCEPT !.crashes = @ + 1, !.lost = IF acked > m THEN acked - m ELSE 0]
                 /\ \A p, mp, dp : Holds(p, hist, mp, dp) /\ mp <= Len(hist) /\ Len(p) <= k
                                     /\ p = SubSeq(b, 1, Len(p)) => mp <= m
<1>1. hist \in Seq(Int) /\ Len(hist) \in Nat /\ hist \in Seq(Dbs) /\ acked \in 0..Len(hist)
  BY HistTyped DEF AofShape
<1>2. b \in Seq(Bytes)
  BY <1>1, HoldsTypes
<1> DEFINE t == SubSeq(b, 1, k)
           kept == SubSeq(t, 1, 2 * (Len(t) \div 2))
<1>3. Len(t) = k
  BY <1>2
<1>4. kept = SubSeq(SubSeq(b, 1, k), 1, 2 * (k \div 2))
  BY <1>3
<1>5. PICK m \in 0..Len(hist), c \in Int :
              /\ Holds(kept, SubSeq(hist, 1, m), m, c) /\ A!Load(kept) = A!Dataset(m)
              /\ kept \in Seq(Bytes)
              /\ \A p, mp, dp : Holds(p, hist, mp, dp) /\ mp <= Len(hist) /\ Len(p) <= k /\ p = SubSeq(b, 1, Len(p))
                                  => mp <= m
  <2> DEFINE n == Len(hist)
  <2> HIDE DEF kept, n
  <2>1. n <= Len(hist) /\ Holds(b, hist, n, d)
    BY <1>1 DEF n
  <2>2. Cut(kept, b, n, k)
    BY <1>1, <1>4, <2>1, HoldsCut
  <2> QED
    BY <2>2 DEF n, Cut
<1>6. Len(A!Load(kept)) = m
  <2>1. \A x \in Nat : Len(A!Dataset(x)) = x
    BY DEF A!Dataset
  <2> QED
    BY <1>5, <2>1
<1>7. /\ file' = kept /\ synced' = Len(kept) /\ child' = A!NoChild /\ pipe' = <<>> /\ rwbuf' = <<>> /\ swap' = "no"
      /\ ao' = [A!Fresh EXCEPT !.size = Len(kept)]
      /\ hist' = SubSeq(hist, 1, m) /\ acked' = (IF acked < m THEN acked ELSE m)
      /\ ghost' = [ghost EXCEPT !.crashes = @ + 1, !.lost = IF acked > m THEN acked - m ELSE 0]
  BY <1>6 DEF A!Restart, A!Cleanup
<1> HIDE DEF kept, t
<1>8. hist' \in Seq(Dbs) /\ Len(hist') = m /\ acked' \in 0..Len(hist')
  BY <1>1, <1>7
<1>9. ao' \in AofState /\ ao'.state = "on" /\ ao'.fd = "open" /\ ao'.sel = -1 /\ ao'.buf = <<>> /\ ao'.size = Len(kept)
  <2> DEFINE l == Len(kept)
             a == A!Fresh
             e == <<>>
             s == -1
  <2>1. l \in Nat
    BY <1>5
  <2>2. a \in AofState /\ a.state = "on" /\ a.fd = "open" /\ a.sel = s /\ a.buf = e
    BY FreshTyped
  <2>3. ao' = [a EXCEPT !.size = l]
    BY <1>7
  <2> HIDE DEF l, a, e, s
  <2>4. ao' \in AofState /\ ao'.state = "on" /\ ao'.fd = "open" /\ ao'.sel = s /\ ao'.buf = e /\ ao'.size = l
    BY <2>1, <2>2, <2>3 DEF AofState
  <2> QED
    BY <2>4 DEF l, e, s
<1>10. file' \in Seq(Bytes) /\ synced' \in 0..Len(file')
  BY <1>5, <1>7
<1>11. AofShape'
  BY <1>7, <1>8, <1>9, <1>10, NoChildTyped DEF AofShape
<1>12. Holds(file', hist', m, c)
  BY <1>5, <1>7
<1>13. Rebuilt(file' \o ao'.buf, hist', ao'.sel)
  <2>1. file' \o ao'.buf = file'
    BY <1>9, <1>10, ConcatEmptySeq
  <2> QED
    BY <1>8, <1>9, <1>12, <2>1 DEF Rebuilt
<1>14. AofWhole'
  BY <1>7, <1>13, NoChildTyped DEF AofWhole
<1>15. synced' = Len(file')
  BY <1>7
<1>16. \A p, mp, dp : Holds(p, hist, mp, dp) /\ mp <= Len(hist) /\ Len(p) <= k
                                     /\ p = SubSeq(b, 1, Len(p)) => mp <= m
  BY <1>5
<1> QED
  BY <1>7, <1>11, <1>12, <1>14, <1>15, <1>16

LEMMA CrashesRestart ==
    ASSUME A!AofAssumption, AofShape, AofWhole, A!Crash \/ A!ExitOnError
    PROVE  \E b, d : \E k \in 0..Len(b) :
              /\ Holds(b, hist, Len(hist), d) /\ A!Restart(SubSeq(b, 1, k))
              /\ ao.state = "on" /\ (swap = "renamed" => A!Crash /\ b = file)
              /\ swap = "no" => file = SubSeq(b, 1, Len(file))
              /\ (~PowerFails \/ (swap = "no" /\ synced = Len(file))) => Len(file) <= k
<1>1. /\ file \in Seq(Bytes) /\ ao.buf \in Seq(Bytes) /\ synced \in 0..Len(file) /\ swap \in {"no", "renamed"}
  BY DEF AofShape, AofState
<1> DEFINE w == file \o ao.buf
<1>2. w \in Seq(Bytes) /\ Len(w) = Len(file) + Len(ao.buf)
  BY <1>1
<1>3. SubSeq(w, 1, Len(file)) = file
  <2>1. ASSUME NEW i \in 1..Len(file) PROVE w[i] = file[i]
    BY <1>1
  <2> DEFINE u == SubSeq(w, 1, Len(file))
  <2>2. u \in Seq(Bytes) /\ Len(u) = Len(file) /\ \A i \in 1..Len(file) : u[i] = w[i]
    <3> HIDE DEF w
    <3> QED
      BY <1>1, <1>2
  <2> HIDE DEF u, w
  <2>3. u = file
    BY <1>1, <2>1, <2>2, SeqEqual
  <2> QED
    BY <2>3 DEF u
<1>4. ASSUME ao.state = "on", swap = "no" PROVE \E d : Holds(w, hist, Len(hist), d)
  BY <1>4 DEF AofWhole, Rebuilt
<1>5. CASE A!Crash
  <2>1. PICK n \in (IF PowerFails THEN synced ELSE Len(file))..Len(file) : A!Restart(SubSeq(file, 1, n))
    BY <1>5 DEF A!Crash
  <2>2. n \in 0..Len(file) /\ (~PowerFails \/ synced = Len(file) => Len(file) <= n) /\ ao.state = "on"
    BY <1>1, <1>5, <2>1 DEF A!Crash, A!AofAssumption
  <2>3. CASE swap = "no"
    <3>1. PICK d : Holds(w, hist, Len(hist), d)
      BY <1>4, <2>2, <2>3
    <3>2. n \in 0..Len(w)
      BY <1>1, <1>2, <2>2
    <3>3. SubSeq(w, 1, n) = SubSeq(file, 1, n)
      <4>1. ASSUME NEW i \in 1..n PROVE w[i] = file[i]
        BY <1>1, <2>2
      <4> DEFINE u == SubSeq(w, 1, n)
                 v == SubSeq(file, 1, n)
      <4>2. u \in Seq(Bytes) /\ Len(u) = n /\ \A i \in 1..n : u[i] = w[i]
        <5> HIDE DEF w
        <5> QED
          BY <1>2, <3>2
      <4>3. v \in Seq(Bytes) /\ Len(v) = n /\ \A i \in 1..n : v[i] = file[i]
        BY <1>1, <2>2
      <4> HIDE DEF u, v, w
      <4>4. u = v
        BY <4>1, <4>2, <4>3, SeqEqual
      <4> QED
        BY <4>4 DEF u, v
    <3> HIDE DEF w
    <3> QED
      BY <1>3, <2>1, <2>2, <2>3, <3>1, <3>2, <3>3
  <2>4. CASE swap = "renamed"
    <3>1. PICK d : Holds(file, hist, Len(hist), d)
      BY <2>2, <2>4 DEF AofWhole, Rebuilt
    <3> QED
      BY <1>5, <2>1, <2>2, <2>4, <3>1
  <2> QED
    BY <1>1, <2>3, <2>4
<1>6. CASE A!ExitOnError
  <2>1. PICK n \in 0..(Len(ao.buf) - 1) : A!Restart(file \o SubSeq(ao.buf, 1, n))
    BY <1>6 DEF A!ExitOnError
  <2>2. swap = "no" /\ ao.state = "on"
    BY <1>6 DEF A!ExitOnError, AofShape
  <2>3. PICK d : Holds(w, hist, Len(hist), d)
    BY <1>4, <2>2
  <2> DEFINE k == Len(file) + n
  <2>4. k \in 0..Len(w) /\ Len(file) <= k
    BY <1>1, <1>2
  <2>5. SubSeq(w, 1, k) = file \o SubSeq(ao.buf, 1, n)
    <3> DEFINE x == SubSeq(ao.buf, 1, n)
               u == SubSeq(w, 1, k)
               v == file \o x
    <3>1. x \in Seq(Bytes) /\ Len(x) = n /\ \A i \in 1..n : x[i] = ao.buf[i]
      BY <1>1
    <3>2. u \in Seq(Bytes) /\ Len(u) = k /\ \A i \in 1..k : u[i] = w[i]
      <4> HIDE DEF w, k
      <4> QED
        BY <1>2, <2>4
    <3> HIDE DEF x
    <3>3. v \in Seq(Bytes) /\ Len(v) = k
      BY <1>1, <3>1
    <3>4. ASSUME NEW i \in 1..k PROVE w[i] = v[i]
      <4>1. CASE i <= Len(file)
        BY <1>1, <3>1, <4>1
      <4>2. CASE i > Len(file)
        <5>1. i - Len(file) \in 1..n
          BY <1>1, <4>2
        <5> QED
          BY <1>1, <3>1, <4>2, <5>1
      <4>3. i \in Int /\ Len(file) \in Int
        BY <1>1, <2>4
      <4> HIDE DEF v, w
      <4> QED
        BY <4>1, <4>2, <4>3
    <3> HIDE DEF u, v, w, k
    <3>5. u = v
      BY <3>2, <3>3, <3>4, SeqEqual
    <3> QED
      BY <3>5 DEF u, v, x
  <2> HIDE DEF w, k
  <2> QED
    BY <1>3, <2>1, <2>2, <2>3, <2>4, <2>5
<1> QED
  BY <1>5, <1>6

LEMMA SleepKeeps ==
    ASSUME A!AofAssumption, AofShape, AofWhole,
           A!beforeSleep \/ A!Replies \/ A!CronFlush \/ A!Tick \/ A!BioFsync
    PROVE  AofShape' /\ AofWhole'
<1>1. /\ hist \in Seq(Int) /\ Len(hist) \in Nat /\ acked \in 0..Len(hist) /\ ao \in AofState
      /\ file \in Seq(Bytes) /\ synced \in 0..Len(file)
  BY HistTyped DEF AofShape
<1>2. CASE A!beforeSleep
  <2>1. /\ swap = "no" /\ ao.fd = "open" /\ A!flushAppendOnlyFile(FALSE)
        /\ UNCHANGED <<hist, child, pipe, rwbuf, swap>> /\ acked' = Len(hist)
    BY <1>2 DEF A!beforeSleep, A!rewrite
  <2>2. acked' \in 0..Len(hist)
    BY <1>1, <2>1
  <2> QED
    BY <2>1, <2>2, FlushKeeps
<1>3. CASE A!CronFlush
  <2>1. /\ swap = "no" /\ ao.fd = "open" /\ A!flushAppendOnlyFile(FALSE)
        /\ UNCHANGED <<hist, child, pipe, rwbuf, swap>> /\ acked' \in 0..Len(hist)
    BY <1>1, <1>3 DEF A!CronFlush, A!rewrite
  <2> QED
    BY <2>1, FlushKeeps
<1>4. CASE A!Replies
  <2>1. acked' \in 0..Len(hist) /\ UNCHANGED <<hist, ao, file, synced, child, pipe, rwbuf, swap>>
    BY <1>1, <1>4 DEF A!Replies, A!rewrite, A!disk
  <2> QED
    BY <1>1, <2>1, AofSame
<1>5. CASE A!Tick
  <2> DEFINE p == IF ao.post = "recent" THEN "long" ELSE ao.post
             sec == TRUE
  <2>1. p \in {"no", "recent", "long"} /\ sec \in BOOLEAN
    BY <1>1 DEF AofState
  <2>2. ao' = [ao EXCEPT !.newsec = sec, !.post = p]
    BY <1>5 DEF A!Tick
  <2>3. UNCHANGED <<hist, file, synced, child, pipe, rwbuf, swap, acked>>
    BY <1>5 DEF A!Tick, A!rewrite, A!disk
  <2> HIDE DEF p, sec
  <2>4. /\ ao' \in AofState /\ ao'.state = ao.state /\ ao'.fd = ao.fd /\ ao'.sel = ao.sel /\ ao'.buf = ao.buf
        /\ ao'.size = ao.size /\ ao'.stop = ao.stop
    BY <1>1, <2>1, <2>2 DEF AofState
  <2> QED
    BY <1>1, <2>3, <2>4, AofSame
<1>6. CASE A!BioFsync
  <2>1. /\ UNCHANGED <<hist, ao, file, child, pipe, rwbuf, swap, acked>>
        /\ synced' = (IF Head(jobs) = "cur" THEN Len(file) ELSE synced)
    BY <1>6 DEF A!BioFsync, A!rewrite
  <2>2. synced' \in 0..Len(file)
    BY <1>1, <2>1
  <2> QED
    BY <1>1, <2>1, <2>2, AofSame
<1> QED
  BY <1>2, <1>3, <1>4, <1>5, <1>6

LEMMA AofSteps ==
    ASSUME A!AofAssumption, AofShape, AofWhole, [A!Next]_A!vars
    PROVE  AofShape' /\ AofWhole'
<1>1. CASE UNCHANGED A!vars
  <2>1. UNCHANGED <<hist, ao, file, synced, child, pipe, rwbuf, swap, acked>>
    BY <1>1 DEF A!vars, A!disk, A!rewrite
  <2>2. ao \in AofState /\ synced \in 0..Len(file) /\ acked \in 0..Len(hist)
    BY DEF AofShape
  <2> QED
    BY <2>1, <2>2, AofSame
<1>2. CASE A!Crash \/ A!ExitOnError
  <2>1. PICK b, d : \E k \in 0..Len(b) : Holds(b, hist, Len(hist), d) /\ A!Restart(SubSeq(b, 1, k))
    BY <1>2, CrashesRestart
  <2>2. PICK k \in 0..Len(b) : Holds(b, hist, Len(hist), d) /\ A!Restart(SubSeq(b, 1, k))
    BY <2>1
  <2> QED
    BY <2>2, RestartKeeps
<1>3. CASE A!aofChildWriteDiffData \/ A!aofReadDiffFromParent \/ A!ChildAsks \/ A!aofChildPipeReadable
           \/ A!ChildExits \/ A!ChildFails
  BY <1>3, ChildSteps
<1>4. ASSUME NEW d \in Dbs, A!Call(d) PROVE AofShape' /\ AofWhole'
  BY <1>4, CallKeeps
<1>5. CASE A!beforeSleep \/ A!Replies \/ A!CronFlush \/ A!Tick \/ A!BioFsync
  BY <1>5, SleepKeeps
<1>6. CASE A!rewriteAppendOnlyFileBackground
  BY <1>6, ForkKeeps
<1>7. CASE A!RewriteFailed \/ A!RewriteRename \/ A!RewriteDone
  BY <1>7, RewriteFailedKeeps, RenameKeeps, DoneKeeps
<1>8. CASE A!stopAppendOnly \/ A!startAppendOnly
  BY <1>8, StopKeeps, StartKeeps
<1> QED
  BY <1>1, <1>2, <1>3, <1>4, <1>5, <1>6, <1>7, <1>8 DEF A!Next

LEMMA RebuiltRebuilds ==
    ASSUME A!AofAssumption, AofShape, NEW b, NEW s, Rebuilt(b, hist, s)
    PROVE  A!Rebuilds(b)
<1>1. PICK d : Holds(b, hist, Len(hist), d)
  BY DEF Rebuilt
<1>2. PICK es, f : Whole(b, es) /\ Loading(f, es, hist) /\ f[Len(es)] = [db |-> d, n |-> Len(hist)]
  BY <1>1 DEF Holds
<1>3. hist \in Seq(Int) /\ f[Len(es)].n = Len(hist)
  BY <1>2, HistTyped
<1> QED
  BY <1>2, <1>3, LoadIsHeld DEF A!Rebuilds

\* Whatever is written short, cut back, rewritten, switched off and on or lost in a crash: with
\* AOF on, the file and what is still to be written to it rebuild the data set, every command
\* once, in its order and in its database (aof.c: feedAppendOnlyFile, flushAppendOnlyFile,
\* loadAppendOnlyFile); and so does, during a rewrite, what the child has together with what is
\* on its way to it (aofRewriteBufferAppend, aofChildWriteDiffData, backgroundRewriteDoneHandler).
THEOREM AofLosesNothing ==
    ASSUME A!AofAssumption
    PROVE  A!Spec => [](A!TypeOK /\ A!NothingLost /\ A!RewriteComplete)
<1>1. A!Init => AofShape /\ AofWhole
  BY AofStarts
<1>2. AofShape /\ AofWhole /\ [A!Next]_A!vars => AofShape' /\ AofWhole'
  BY AofSteps
<1>3. AofShape /\ AofWhole => A!TypeOK /\ A!NothingLost /\ A!RewriteComplete
  <2> SUFFICES ASSUME AofShape, AofWhole PROVE A!TypeOK /\ A!NothingLost /\ A!RewriteComplete
    OBVIOUS
  <2>1. A!TypeOK
    BY DEF AofShape, AofState, Stages, A!TypeOK
  <2>2. A!NothingLost
    BY RebuiltRebuilds DEF AofWhole, A!NothingLost
  <2>3. A!RewriteComplete
    BY RebuiltRebuilds DEF AofWhole, A!RewriteComplete, ForChild
  <2> QED
    BY <2>1, <2>2, <2>3
<1> QED
  BY <1>1, <1>2, <1>3, PTL DEF A!Spec

-----------------------------------------------------------------------------
(* The append only file: "always" keeps what was answered                  *)

Ghost == [lost : Int, foreign : BOOLEAN, faults : Int, rewrites : Int, switches : Int, crashes : Int]
\* Everything in the file is on the disk, and what was answered is in the file.
AofAcked ==
    /\ ghost \in Ghost /\ ghost.lost = 0
    /\ ao.state = "on" /\ swap = "no" => synced = Len(file)
    /\ ao.state = "on" /\ swap = "no" => \E m \in acked..Len(hist), d \in Int : Holds(file, hist, m, d)

LEMMA AckedSame ==
    ASSUME AofAcked, ghost' \in Ghost, ghost'.lost = ghost.lost,
           ao'.state = "on" /\ swap' = "no" =>
               ao.state = "on" /\ swap = "no" /\ UNCHANGED <<file, hist, acked, synced>>
    PROVE  AofAcked'
BY DEF AofAcked

\* What is kept of the ghost by a step that counts something in it.
LEMMA GhostCounts ==
    ASSUME ghost \in Ghost
    PROVE  /\ \A x \in Int : LET g == [ghost EXCEPT !.faults = x] IN g \in Ghost /\ g.lost = ghost.lost
           /\ \A x \in Int : LET g == [ghost EXCEPT !.rewrites = x] IN g \in Ghost /\ g.lost = ghost.lost
           /\ \A x \in Int : LET g == [ghost EXCEPT !.switches = x] IN g \in Ghost /\ g.lost = ghost.lost
           /\ \A x, y \in Int : LET g == [ghost EXCEPT !.switches = x, !.faults = y]
                                IN  g \in Ghost /\ g.lost = ghost.lost
           /\ \A x \in BOOLEAN : LET g == [ghost EXCEPT !.foreign = x] IN g \in Ghost /\ g.lost = ghost.lost
           /\ \A x, y \in Int : LET g == [ghost EXCEPT !.crashes = x, !.lost = y]
                                IN  g \in Ghost /\ g.lost = y
BY DEF Ghost

LEMMA FlushAcked ==
    ASSUME A!AofAssumption, AofShape, AofWhole, AofAcked, Policy = "always", swap = "no",
           A!flushAppendOnlyFile(FALSE), UNCHANGED <<hist, swap>>, acked' \in 0..Len(hist), ao'.state = ao.state
    PROVE  AofAcked'
<1>1. /\ file \in Seq(Bytes) /\ ao.buf \in Seq(Bytes) /\ hist \in Seq(Int) /\ Len(hist) \in Nat
  BY HistTyped DEF AofShape, AofState
<1>2. ghost' = ghost
  BY DEF A!flushAppendOnlyFile, A!Written
<1>3. ao.state = "on" => file' = file \o ao.buf /\ synced' = Len(file')
  <2>1. CASE ao.buf = <<>> /\ UNCHANGED <<file, synced>>
    <3>1. file \o <<>> = file
      BY <1>1, ConcatEmptySeq
    <3> QED
      BY <2>1, <3>1 DEF AofAcked
  <2>2. CASE A!Written
    BY <2>2 DEF A!Written
  <2> QED
    BY <2>1, <2>2 DEF A!flushAppendOnlyFile, A!Syncing, A!disk
<1>4. ASSUME ao.state = "on" PROVE \E d \in Int : Holds(file', hist, Len(hist), d)
  <2>1. PICK d : Holds(file \o ao.buf, hist, Len(hist), d)
    BY <1>4 DEF AofWhole, Rebuilt
  <2>2. d \in Int
    BY <1>1, <2>1, HoldsTypes
  <2> QED
    BY <1>3, <1>4, <2>1, <2>2
<1>5. Len(hist) \in acked'..Len(hist)
  BY <1>1
<1> QED
  BY <1>2, <1>3, <1>4, <1>5 DEF AofAcked

LEMMA SleepAcked ==
    ASSUME A!AofAssumption, AofShape, AofWhole, AofAcked, Policy = "always",
           A!beforeSleep \/ A!Replies \/ A!CronFlush \/ A!Tick \/ A!BioFsync, AofShape'
    PROVE  AofAcked'
<1>1. ao \in AofState /\ ghost \in Ghost /\ acked \in 0..Len(hist) /\ Len(hist) \in Nat
  BY HistTyped DEF AofShape, AofAcked
<1>2. ASSUME A!flushAppendOnlyFile(FALSE) PROVE ao'.state = ao.state
  <2>1. CASE ao' = [ao EXCEPT !.post = IF @ = "no" THEN "recent" ELSE @]
    BY <1>1, <2>1 DEF AofState
  <2>2. CASE A!Written
    <3> DEFINE e == <<>>
               l == ao.size + Len(ao.buf)
               no == FALSE
               sec == ao.newsec /\ ~(Policy = "everysec" /\ ao.newsec)
    <3>1. ao' = [ao EXCEPT !.buf = e, !.size = l, !.err = no, !.post = "no", !.newsec = sec]
      BY <2>2 DEF A!Written
    <3> HIDE DEF e, l, no, sec
    <3> QED
      BY <1>1, <3>1 DEF AofState
  <2> QED
    BY <1>2, <2>1, <2>2 DEF A!flushAppendOnlyFile
<1>3. CASE A!beforeSleep
  <2>1. /\ swap = "no" /\ A!flushAppendOnlyFile(FALSE) /\ UNCHANGED <<hist, swap>> /\ acked' = Len(hist)
    BY <1>3 DEF A!beforeSleep
  <2>2. acked' \in 0..Len(hist)
    BY <1>1, <2>1
  <2> QED
    BY <1>2, <2>1, <2>2, FlushAcked
<1>4. CASE A!CronFlush
  <2>1. /\ swap = "no" /\ A!flushAppendOnlyFile(FALSE) /\ UNCHANGED <<hist, swap>> /\ acked' \in 0..Len(hist)
    BY <1>1, <1>4 DEF A!CronFlush
  <2> QED
    BY <1>2, <2>1, FlushAcked
<1>5. CASE A!Replies
  <2>1. ao.state = "off" /\ ao' = ao /\ ghost' = ghost
    BY <1>1, <1>5 DEF A!Replies, AofShape, AofState
  <2> QED
    BY <1>1, <2>1, AckedSame
<1>6. CASE A!Tick
  <2> DEFINE p == IF ao.post = "recent" THEN "long" ELSE ao.post
             sec == TRUE
  <2>1. ao' = [ao EXCEPT !.newsec = sec, !.post = p]
    BY <1>6 DEF A!Tick
  <2>2. UNCHANGED <<hist, file, synced, swap, acked, ghost>>
    BY <1>6 DEF A!Tick, A!disk
  <2> HIDE DEF p, sec
  <2>3. ao'.state = ao.state
    BY <1>1, <2>1 DEF AofState
  <2> QED
    BY <1>1, <2>2, <2>3, AckedSame
<1>7. CASE A!BioFsync
  <2>1. /\ UNCHANGED <<hist, ao, file, swap, acked, ghost>> /\ (synced' = Len(file) \/ synced' = synced)
    BY <1>7 DEF A!BioFsync
  <2> QED
    BY <2>1 DEF AofAcked
<1> QED
  BY <1>3, <1>4, <1>5, <1>6, <1>7

LEMMA CallAcked ==
    ASSUME A!AofAssumption, AofShape, AofAcked, NEW d \in Dbs, A!Call(d)
    PROVE  AofAcked'
<1>1. /\ UNCHANGED <<file, synced, swap, acked, ghost>> /\ hist' = Append(hist, d)
      /\ (ao' = ao \/ A!feedAppendOnlyFile(d))
  BY DEF A!Call, A!disk
<1>2. ao \in AofState /\ hist \in Seq(Int) /\ d \in Int /\ Len(hist) \in Nat /\ acked \in 0..Len(hist)
  BY HistTyped DEF AofShape
<1>3. ao'.state = ao.state
  <2> DEFINE b == IF ao.state = "on" THEN ao.buf \o Feed(d) ELSE ao.buf
  <2>1. CASE A!feedAppendOnlyFile(d)
    <3>1. ao' = [ao EXCEPT !.sel = d, !.buf = b]
      BY <2>1 DEF A!feedAppendOnlyFile, Feed
    <3> HIDE DEF b
    <3> QED
      BY <1>2, <3>1 DEF AofState
  <2> QED
    BY <1>1, <2>1
<1>4. hist' \in Seq(Int) /\ Len(hist') = Len(hist) + 1 /\ \A i \in 1..Len(hist) : hist'[i] = hist[i]
  BY <1>1, <1>2
<1>5. ASSUME ao'.state = "on", swap' = "no"
      PROVE  synced' = Len(file') /\ \E m \in acked'..Len(hist'), x \in Int : Holds(file', hist', m, x)
  <2>1. synced = Len(file)
    BY <1>1, <1>3, <1>5 DEF AofAcked
  <2>2. PICK m \in acked..Len(hist), x \in Int : Holds(file, hist, m, x)
    BY <1>1, <1>3, <1>5 DEF AofAcked
  <2>3. m \in Nat /\ m <= Len(hist)
    BY <1>2, <2>2
  <2>6. Len(hist') >= m
    BY <1>2, <1>4, <2>3
  <2>7. \A i \in 1..m : i <= Len(hist) => hist'[i] = hist[i]
    BY <1>4, <2>3
  <2>4. Holds(file, hist', m, x)
    BY <1>2, <1>4, <2>2, <2>6, <2>7, HoldsGrows
  <2>5. m \in acked'..Len(hist')
    BY <1>1, <1>2, <1>4, <2>2, <2>3
  <2> QED
    BY <1>1, <2>1, <2>4, <2>5
<1> QED
  BY <1>1, <1>5 DEF AofAcked

LEMMA ForkAcked ==
    ASSUME AofShape, AofAcked, A!rewriteAppendOnlyFileBackground
    PROVE  AofAcked'
<1>1. /\ ao' = A!Forked(ao) /\ ghost' = [ghost EXCEPT !.rewrites = IF ao.sched THEN @ ELSE @ + 1]
      /\ UNCHANGED <<hist, file, synced, swap, acked>>
  BY DEF A!rewriteAppendOnlyFileBackground, A!disk
<1>2. ao \in AofState /\ ghost \in Ghost
  BY DEF AofShape, AofAcked
<1>3. ao'.state = ao.state
  BY <1>1, <1>2, ForkedTyped
<1> DEFINE x == IF ao.sched THEN ghost.rewrites ELSE ghost.rewrites + 1
<1>4. x \in Int /\ ghost' = [ghost EXCEPT !.rewrites = x]
  BY <1>1, <1>2 DEF Ghost
<1> HIDE DEF x
<1>5. ghost' \in Ghost /\ ghost'.lost = ghost.lost
  BY <1>2, <1>4, GhostCounts
<1> QED
  BY <1>1, <1>3, <1>5, AckedSame

LEMMA ChildAcked ==
    ASSUME AofShape, AofAcked,
           \/ A!aofChildWriteDiffData \/ A!aofReadDiffFromParent \/ A!ChildAsks
           \/ A!aofChildPipeReadable \/ A!ChildExits \/ A!ChildFails
    PROVE  AofAcked'
<1>1. UNCHANGED <<hist, file, synced, swap, acked>>
  BY DEF A!aofChildWriteDiffData, A!aofReadDiffFromParent, A!ChildAsks, A!aofChildPipeReadable, A!ChildExits,
         A!ChildFails, A!disk
<1>2. ao \in AofState /\ ghost \in Ghost
  BY DEF AofShape, AofAcked
<1>3. ao'.state = ao.state
  <2>1. ao' = ao \/ ao' = [ao EXCEPT !.stop = TRUE]
    BY DEF A!aofChildWriteDiffData, A!aofReadDiffFromParent, A!ChildAsks, A!aofChildPipeReadable, A!ChildExits,
           A!ChildFails
  <2> QED
    BY <1>2, <2>1 DEF AofState
<1>4. ghost' \in Ghost /\ ghost'.lost = ghost.lost
  <2>1. ghost' = ghost \/ ghost' = [ghost EXCEPT !.faults = @ + 1]
    BY DEF A!aofChildWriteDiffData, A!aofReadDiffFromParent, A!ChildAsks, A!aofChildPipeReadable, A!ChildExits,
           A!ChildFails
  <2>2. ghost.faults + 1 \in Int
    BY <1>2 DEF Ghost
  <2> QED
    BY <1>2, <2>1, <2>2, GhostCounts
<1> QED
  BY <1>1, <1>3, <1>4, AckedSame

LEMMA RewriteAcked ==
    ASSUME A!AofAssumption, AofShape, AofWhole, AofAcked, Policy = "always",
           A!RewriteFailed \/ A!RewriteRename \/ A!RewriteDone, AofShape', AofWhole'
    PROVE  AofAcked'
<1>1. ao \in AofState /\ ghost \in Ghost /\ Len(hist) \in Nat /\ acked \in 0..Len(hist)
      /\ hist \in Seq(Int) /\ ghost.faults + 1 \in Int /\ ghost.lost = 0
  <2>1. Len(hist) \in Nat /\ hist \in Seq(Int)
    BY HistTyped
  <2>2. ao \in AofState /\ acked \in 0..Len(hist)
    BY DEF AofShape
  <2>3. ghost \in Ghost /\ ghost.faults + 1 \in Int /\ ghost.lost = 0
    BY DEF AofAcked, Ghost
  <2> QED
    BY <2>1, <2>2, <2>3
<1>2. CASE A!RewriteFailed
  <2> DEFINE sch == (ao.state = "wait")
  <2>1. ao' = [ao EXCEPT !.sched = sch] /\ UNCHANGED <<hist, file, synced, swap, acked>>
    BY <1>2 DEF A!RewriteFailed, A!Reschedule, A!disk
  <2> HIDE DEF sch
  <2>2. ao'.state = ao.state
    BY <1>1, <2>1 DEF AofState
  <2>3. ghost' \in Ghost /\ ghost'.lost = ghost.lost
    <3>1. ghost' = ghost \/ ghost' = [ghost EXCEPT !.faults = @ + 1]
      BY <1>2 DEF A!RewriteFailed
    <3> QED
      BY <1>1, <3>1, GhostCounts
  <2> QED
    BY <2>1, <2>2, <2>3, AckedSame
<1>3. CASE A!RewriteRename
  <2>1. swap' = "renamed" /\ ghost' = ghost
    BY <1>3 DEF A!RewriteRename
  <2> QED
    BY <1>1, <2>1 DEF AofAcked
<1>4. CASE A!RewriteDone
  <2>1. swap = "renamed" /\ UNCHANGED <<hist, file, acked>>
    BY <1>4 DEF A!RewriteDone
  <2>2. CASE ao.fd = "none" /\ UNCHANGED <<ao, synced, ghost>>
    <3>1. ao'.state = "off"
      BY <2>2 DEF AofShape
    <3> QED
      BY <1>1, <2>2, <3>1 DEF AofAcked
  <2>3. CASE ao' = A!Switched /\ synced' = Len(file) /\ ghost' = [ghost EXCEPT !.foreign = @ \/ ao.fd = "stale"]
    <3> DEFINE x == (ghost.foreign \/ ao.fd = "stale")
    <3>1. ghost' = [ghost EXCEPT !.foreign = x] /\ x \in BOOLEAN
      BY <1>1, <2>3 DEF Ghost
    <3> HIDE DEF x
    <3>2. ghost' \in Ghost /\ ghost'.lost = 0
      BY <1>1, <3>1, GhostCounts
    <3>4. synced' = Len(file')
      BY <2>1, <2>3
    <3>3. ASSUME ao'.state = "on"
          PROVE  \E m \in acked'..Len(hist'), d \in Int : Holds(file', hist', m, d)
      <4>1. PICK d : Holds(file, hist, Len(hist), d)
        <5>1. ao.state # "off"
          <6>1. file \in Seq(Bytes)
            BY DEF AofShape
          <6> QED
            BY <1>1, <2>3, <3>3, <6>1, SwitchedTyped
        <5> QED
          BY <2>1, <5>1 DEF AofWhole, Rebuilt
      <4>3. d \in Int
        BY <1>1, <4>1, HoldsTypes
      <4>2. d \in Int /\ Len(hist) \in acked..Len(hist)
        BY <1>1, <4>3
      <4> QED
        BY <2>1, <4>1, <4>2
    <3> QED
      BY <3>2, <3>3, <3>4 DEF AofAcked
  <2> QED
    BY <1>4, <2>2, <2>3 DEF A!RewriteDone
<1> QED
  BY <1>2, <1>3, <1>4

LEMMA SwitchAcked ==
    ASSUME AofShape, AofAcked, A!stopAppendOnly \/ A!startAppendOnly
    PROVE  AofAcked'
<1>1. ao \in AofState /\ ghost \in Ghost /\ ghost.faults + 1 \in Int /\ ghost.switches + 1 \in Int /\ ghost.lost = 0
  BY DEF AofShape, AofAcked, Ghost
<1>2. ghost' \in Ghost /\ ghost'.lost = 0
  <2>1. \/ ghost' = [ghost EXCEPT !.switches = @ + 1]
        \/ ghost' = [ghost EXCEPT !.switches = @ + 1, !.faults = @ + 1]
    BY DEF A!stopAppendOnly, A!startAppendOnly
  <2> DEFINE x == ghost.switches + 1
             y == ghost.faults + 1
  <2>2. x \in Int /\ y \in Int
    BY <1>1
  <2>3. ghost' = [ghost EXCEPT !.switches = x] \/ ghost' = [ghost EXCEPT !.switches = x, !.faults = y]
    BY <2>1
  <2> HIDE DEF x, y
  <2> QED
    BY <1>1, <2>2, <2>3 DEF Ghost
<1>3. ao'.state # "on"
  <2>1. CASE A!stopAppendOnly
    <3> DEFINE off == [ao EXCEPT !.state = "off", !.fd = "none", !.sel = -1, !.post = "no"]
    <3>1. off \in [DOMAIN ao -> {off[f] : f \in DOMAIN ao}] /\ DOMAIN off = DOMAIN ao /\ off.state = "off"
      BY <1>1 DEF AofState
    <3> DEFINE e == <<>>
               err == (off.err /\ ao.buf = <<>>)
               l == Len(file')
               yes == TRUE
    <3>2. ao' = [off EXCEPT !.buf = e, !.err = err, !.size = l] \/ ao' = [off EXCEPT !.err = yes]
      BY <2>1 DEF A!stopAppendOnly
    <3> HIDE DEF off, e, err, l, yes
    <3> QED
      BY <1>1, <3>1, <3>2 DEF AofState
  <2>2. CASE A!startAppendOnly
    <3> DEFINE r == A!Forked(ao)
               l == Len(file)
    <3>1. r \in AofState
      BY <1>1, ForkedTyped
    <3>2. ao.state = "off"
          /\ (ao' = [r EXCEPT !.fd = "open", !.state = "wait", !.size = l] \/ ao' = [ao EXCEPT !.fd = "stale"])
      BY <2>2 DEF A!startAppendOnly
    <3> HIDE DEF r, l
    <3> QED
      BY <1>1, <3>1, <3>2 DEF AofState
  <2> QED
    BY <2>1, <2>2
<1> QED
  BY <1>2, <1>3 DEF AofAcked

LEMMA RestartAcked ==
    ASSUME A!AofAssumption, AofShape, AofWhole, AofAcked, ~(PowerFails /\ CrashInSwap), A!Crash \/ A!ExitOnError
    PROVE  AofAcked'
<1>1. PICK b, d : \E k \in 0..Len(b) :
              /\ Holds(b, hist, Len(hist), d) /\ A!Restart(SubSeq(b, 1, k))
              /\ ao.state = "on" /\ (swap = "renamed" => A!Crash /\ b = file)
              /\ swap = "no" => file = SubSeq(b, 1, Len(file))
              /\ (~PowerFails \/ (swap = "no" /\ synced = Len(file))) => Len(file) <= k
  BY CrashesRestart
<1>2. PICK k \in 0..Len(b) :
              /\ Holds(b, hist, Len(hist), d) /\ A!Restart(SubSeq(b, 1, k))
              /\ ao.state = "on" /\ (swap = "renamed" => A!Crash /\ b = file)
              /\ swap = "no" => file = SubSeq(b, 1, Len(file))
              /\ (~PowerFails \/ (swap = "no" /\ synced = Len(file))) => Len(file) <= k
  BY <1>1
<1>3. PICK m \in 0..Len(hist), c \in Int :
                 /\ hist' = SubSeq(hist, 1, m) /\ Holds(file', hist', m, c) /\ synced' = Len(file')
                 /\ acked' = (IF acked < m THEN acked ELSE m)
                 /\ ghost' = [ghost EXCEPT !.crashes = @ + 1, !.lost = IF acked > m THEN acked - m ELSE 0]
                 /\ \A p, mp, dp : Holds(p, hist, mp, dp) /\ mp <= Len(hist) /\ Len(p) <= k
                                     /\ p = SubSeq(b, 1, Len(p)) => mp <= m
  BY <1>2, RestartKeeps
<1>4. hist \in Seq(Int) /\ Len(hist) \in Nat /\ acked \in 0..Len(hist) /\ swap \in {"no", "renamed"} /\ file \in Seq(Bytes)
  BY HistTyped DEF AofShape
<1>5. \E n \in acked..Len(hist), x \in Int : Holds(file, hist, n, x) /\ Len(file) <= k /\ file = SubSeq(b, 1, Len(file))
  <2>1. CASE swap = "no"
    <3>1. synced = Len(file)
      BY <1>2, <2>1 DEF AofAcked
    <3>2. PICK n \in acked..Len(hist), x \in Int : Holds(file, hist, n, x)
      BY <1>2, <2>1 DEF AofAcked
    <3> QED
      BY <1>2, <2>1, <3>1, <3>2
  <2>2. CASE swap = "renamed"
    <3>1. b = file /\ CrashInSwap
      BY <1>2, <2>2 DEF A!Crash
    <3>2. Len(file) <= k
      BY <1>2, <3>1 DEF A!AofAssumption
    <3>3. file = SubSeq(file, 1, Len(file))
      BY <1>4, SubSeqFull
    <3>4. Len(hist) \in acked..Len(hist)
      BY <1>4
    <3>5. d \in Int
      BY <1>2, <1>4, HoldsTypes
    <3> QED
      BY <1>2, <3>1, <3>2, <3>3, <3>4, <3>5
  <2> QED
    BY <1>4, <2>1, <2>2
<1>6. PICK n \in acked..Len(hist), x \in Int : Holds(file, hist, n, x) /\ Len(file) <= k /\ file = SubSeq(b, 1, Len(file))
  BY <1>5
<1>7. n <= Len(hist) /\ n >= acked /\ n \in Int
  BY <1>4, <1>6
<1>8. n <= m
  BY <1>3, <1>6, <1>7
<1>9. acked <= m /\ m \in Nat /\ m <= Len(hist)
  BY <1>4, <1>7, <1>8
<1>10. ghost' \in Ghost /\ ghost'.lost = 0
  <2> DEFINE cr == ghost.crashes + 1
             y == IF acked > m THEN acked - m ELSE 0
  <2>1. ghost \in Ghost /\ cr \in Int
    BY DEF AofAcked, Ghost
  <2>2. y = 0
    BY <1>4, <1>9
  <2>3. ghost' = [ghost EXCEPT !.crashes = cr, !.lost = y]
    BY <1>3
  <2>4. y \in Int
    BY <2>2
  <2> HIDE DEF cr, y
  <2>5. ghost' \in Ghost
    BY <2>1, <2>3, <2>4 DEF Ghost
  <2>6. ghost'.lost = y
    BY <2>1, <2>3, <2>4 DEF Ghost
  <2> QED
    BY <2>2, <2>5, <2>6
<1>11. Len(hist') = m /\ m \in acked'..Len(hist')
  <2>1. Len(hist') = m
    BY <1>3, <1>4, <1>9
  <2>2. acked' <= m /\ acked' \in Int
    BY <1>3, <1>4, <1>9
  <2> QED
    BY <1>9, <2>1, <2>2
<1>12. \E i \in acked'..Len(hist'), y \in Int : Holds(file', hist', i, y)
  BY <1>3, <1>11
<1> QED
  BY <1>3, <1>10, <1>12 DEF AofAcked

LEMMA AckedSteps ==
    ASSUME A!AofAssumption, AofShape, AofWhole, AofAcked, Policy = "always", ~(PowerFails /\ CrashInSwap),
           [A!Next]_A!vars
    PROVE  AofAcked'
<1>0. AofShape' /\ AofWhole'
  BY AofSteps
<1>1. CASE UNCHANGED A!vars
  BY <1>1 DEF A!vars, A!disk, A!rewrite, AofAcked
<1>2. CASE A!Crash \/ A!ExitOnError
  BY <1>2, RestartAcked
<1>3. CASE A!aofChildWriteDiffData \/ A!aofReadDiffFromParent \/ A!ChildAsks \/ A!aofChildPipeReadable
           \/ A!ChildExits \/ A!ChildFails
  BY <1>3, ChildAcked
<1>4. ASSUME NEW d \in Dbs, A!Call(d) PROVE AofAcked'
  BY <1>4, CallAcked
<1>5. CASE A!beforeSleep \/ A!Replies \/ A!CronFlush \/ A!Tick \/ A!BioFsync
  BY <1>0, <1>5, SleepAcked
<1>6. CASE A!rewriteAppendOnlyFileBackground
  BY <1>6, ForkAcked
<1>7. CASE A!RewriteFailed \/ A!RewriteRename \/ A!RewriteDone
  BY <1>0, <1>7, RewriteAcked
<1>8. CASE A!stopAppendOnly \/ A!startAppendOnly
  BY <1>8, SwitchAcked
<1> QED
  BY <1>1, <1>2, <1>3, <1>4, <1>5, <1>6, <1>7, <1>8 DEF A!Next

\* With appendfsync always no crash, of the server or of the machine, and no failed write
\* loses a command whose client was answered (aof.c:375), unless the machine fails between
\* the rename of a rewritten file and the fsync of the differences appended to it
\* (backgroundRewriteDoneHandler): at each reply the whole file is on the disk and holds
\* everything that was executed.
THEOREM AnsweredSurvive ==
    ASSUME A!AofAssumption, Policy = "always", ~(PowerFails /\ CrashInSwap)
    PROVE  A!Spec => []A!AckedSurvive
<1>1. A!Init => AofShape /\ AofWhole /\ AofAcked
  <2> SUFFICES ASSUME A!Init PROVE AofShape /\ AofWhole /\ AofAcked
    OBVIOUS
  <2>1. hist = <<>> /\ file = <<>> /\ synced = 0 /\ acked = 0
        /\ ghost = [lost |-> 0, foreign |-> FALSE, faults |-> 0, rewrites |-> 0, switches |-> 0, crashes |-> 0]
    BY DEF A!Init
  <2>2. ghost \in Ghost /\ ghost.lost = 0
    BY <2>1 DEF Ghost
  <2>3. Len(<<>>) = 0 /\ <<>> \in Seq(Int)
    OBVIOUS
  <2>4. Holds(<<>>, <<>>, 0, 0)
    BY <2>3, NothingHeld
  <2>5. synced = Len(file) /\ \E m \in acked..Len(hist), d \in Int : Holds(file, hist, m, d)
    BY <2>1, <2>3, <2>4
  <2> QED
    BY <2>2, <2>5, AofStarts DEF AofAcked
<1>2. AofShape /\ AofWhole /\ AofAcked /\ [A!Next]_A!vars => AofShape' /\ AofWhole' /\ AofAcked'
  BY AofSteps, AckedSteps
<1>3. AofAcked => A!AckedSurvive
  BY DEF AofAcked, A!AckedSurvive
<1> QED
  BY <1>1, <1>2, <1>3, PTL DEF A!Spec

-----------------------------------------------------------------------------
(* Eviction, for any policy, keys, pool and limit                          *)

CONSTANTS policy, maxmemory, maxmemory_samples, PoolSize, ClockMax, Word, Slaves, AofOn, MaxSteps
VARIABLES dict, ttl, lru, idle, clock, pool, bufs, job, steps
V == INSTANCE Eviction WITH buf <- bufs, Aof <- AofOn

\* With one slave or none, the count of used memory is the one of the keys alone.
Buffered == bufs \in [out : Nat, aof : Nat] /\ (Slaves = 0 => bufs.out = 0)

\* Where the call of freeMemoryIfNeeded is, and what it has to free yet.
Freeing ==
    /\ job \in [pc : {"idle", "choose", "evict", "ok", "err"}, tofree : Nat, freed : Nat, best : Nat, tried : Nat]
    /\ job.pc = "evict" => job.best \in V!Candidates
    /\ job.pc \in {"choose", "evict"} =>
          /\ job.freed < job.tofree
          /\ Slaves <= 1 => Cardinality(dict) + job.freed <= maxmemory + job.tofree
EvictInv ==
    /\ dict \in SUBSET Keys /\ ttl \in [Keys -> Nat] /\ Buffered /\ Freeing
    /\ V!OkMeansUnder /\ V!ErrMeansNothing

LEMMA KeysFinite ==
    ASSUME V!EvictionAssumption
    PROVE  /\ Keys \subseteq Nat \ {0} /\ IsFiniteSet(Keys) /\ Slaves \in Nat
           /\ PoolSize \in Nat \ {0} /\ ClockMax \in Nat \ {0} /\ Word \in Nat \ {0} /\ maxmemory \in Nat
  BY DEF V!EvictionAssumption, V!IsFiniteSet, IsFiniteSet

LEMMA MemUsed ==
    ASSUME V!EvictionAssumption, dict \in SUBSET Keys, Buffered, Slaves <= 1
    PROVE  /\ Cardinality(dict) \in Nat
           /\ V!zmalloc_used_memory = Cardinality(dict) + bufs.out + bufs.aof
           /\ V!mem_used(V!zmalloc_used_memory) = Cardinality(dict) % Word
<1>1. Cardinality(dict) \in Nat
  BY KeysFinite, FS_Subset, FS_CardinalityType
<1>2. V!zmalloc_used_memory = Cardinality(dict) + bufs.out + bufs.aof
  BY DEF V!zmalloc_used_memory, V!Cardinality, Cardinality
<1> DEFINE n == Cardinality(dict) + bufs.out + bufs.aof
           o == Slaves * bufs.out
<1>3. V!mem_used(n) = ((IF o > n THEN 0 ELSE n - o) - bufs.aof) % Word
  BY DEF V!mem_used
<1>4. Slaves = 0 \/ Slaves = 1
  BY KeysFinite
<1>5. o = bufs.out /\ n \in Nat /\ bufs.out \in Nat /\ bufs.aof \in Nat
  BY <1>1, <1>4 DEF Buffered
<1>6. (IF o > n THEN 0 ELSE n - o) - bufs.aof = Cardinality(dict)
  BY <1>1, <1>5
<1> HIDE DEF n, o
<1>7. V!mem_used(n) = Cardinality(dict) % Word
  BY <1>3, <1>6
<1> QED
  BY <1>1, <1>2, <1>7 DEF n

LEMMA KeyLess ==
    ASSUME V!EvictionAssumption, dict \in SUBSET Keys, NEW k \in dict
    PROVE  /\ IsFiniteSet(dict) /\ Cardinality(dict) \in Nat \ {0}
           /\ Cardinality(dict \ {k}) = Cardinality(dict) - 1
  BY KeysFinite, FS_Subset, FS_CardinalityType, FS_RemoveElement, FS_EmptySet

\* The search through the pool ends at a key that may be evicted, or finds none.
LEMMA PickIsCandidate ==
    ASSUME V!EvictionAssumption, NEW p
    PROVE  V!Pick(p).best = V!NoKey \/ V!Pick(p).best \in V!Candidates
<1> DEFINE L == V!Live(p)
           k == IF L = {} THEN 0 ELSE CHOOSE i \in L : \A j \in L : j <= i
<1>1. L \subseteq 1..PoolSize /\ PoolSize \in Nat
  BY KeysFinite DEF V!Live, V!Array
<1>2. \A i \in L : p[i].key \in V!Candidates
  BY DEF V!Live
<1>3. V!Pick(p).best = IF k = 0 THEN V!NoKey ELSE p[k].key
  BY DEF V!Pick
<1> HIDE DEF L
<1>4. CASE L = {}
  BY <1>3, <1>4
<1>5. CASE L # {}
  <2> DEFINE D == {PoolSize - i : i \in L}
  <2>1. D \in SUBSET Nat /\ D # {}
    <3>1. \A i \in L : PoolSize - i \in Nat
      BY <1>1
    <3>2. D \subseteq Nat
      BY <3>1
    <3> QED
      BY <1>5, <3>2
  <2>2. PICK m \in D : \A q \in D : m <= q
    <3> HIDE DEF D
    <3> QED
      BY <2>1, Smallest
  <2>3. PICK i \in L : m = PoolSize - i
    BY <2>2
  <2>4. \A j \in L : j <= i
    BY <1>1, <2>2, <2>3
  <2>5. k \in L
    BY <1>5, <2>3, <2>4
  <2> QED
    BY <1>2, <1>3, <2>5
<1> QED
  BY <1>4, <1>5

LEMMA StartStep ==
    ASSUME V!EvictionAssumption, Cardinality(Keys) < Word, EvictInv, V!Start
    PROVE  EvictInv'
<1> DEFINE u == V!mem_used(V!zmalloc_used_memory)
<1>1. /\ UNCHANGED <<dict, ttl, bufs>>
      /\ job' = IF u <= maxmemory THEN V!Job("ok")
                ELSE IF policy = "noeviction" THEN V!Job("err")
                ELSE [V!Job("choose") EXCEPT !.tofree = u - maxmemory]
  BY DEF V!Start
<1>2. Cardinality(dict) \in Nat /\ Cardinality(dict) < Word
  BY KeysFinite, FS_Subset, FS_CardinalityType DEF EvictInv
<1>3. u \in Nat
  <2>1. u = (V!mem_used(V!zmalloc_used_memory)) /\ Word \in Nat \ {0} /\ maxmemory \in Nat
    BY KeysFinite
  <2>2. /\ bufs.aof \in Int /\ bufs.out \in Int /\ Slaves \in Int
        /\ V!zmalloc_used_memory = Cardinality(dict) + bufs.out + bufs.aof
    BY KeysFinite DEF EvictInv, Buffered, V!zmalloc_used_memory, V!Cardinality, Cardinality
  <2> DEFINE z == V!zmalloc_used_memory
             w == (IF Slaves * bufs.out > z THEN 0 ELSE z - Slaves * bufs.out) - bufs.aof
  <2>3. u = w % Word
    BY DEF V!mem_used
  <2>4. w \in Int
    BY <1>2, <2>2
  <2> HIDE DEF w, u, z
  <2> QED
    BY <2>1, <2>3, <2>4
<1>4. Slaves <= 1 => u = Cardinality(dict)
  <2>1. Slaves <= 1 => u = Cardinality(dict) % Word
    BY MemUsed DEF EvictInv
  <2>2. Cardinality(dict) % Word = Cardinality(dict)
    BY <1>2, KeysFinite
  <2> HIDE DEF u
  <2> QED
    BY <2>1, <2>2
<1> HIDE DEF u
<1>5. maxmemory \in Nat
  BY KeysFinite
<1>6. CASE u <= maxmemory
  <2>1. job' = [pc |-> "ok", tofree |-> 0, freed |-> 0, best |-> 0, tried |-> 0]
    BY <1>1, <1>6 DEF V!Job, V!NoKey
  <2> QED
    BY <1>1, <1>2, <1>4, <1>6, <2>1 DEF EvictInv, Freeing, Buffered, V!OkMeansUnder, V!ErrMeansNothing, V!Cardinality, Cardinality
<1>7. CASE ~(u <= maxmemory) /\ policy = "noeviction"
  <2>1. job' = [pc |-> "err", tofree |-> 0, freed |-> 0, best |-> 0, tried |-> 0]
    BY <1>1, <1>7 DEF V!Job, V!NoKey
  <2> QED
    BY <1>1, <1>7, <2>1 DEF EvictInv, Freeing, Buffered, V!OkMeansUnder, V!ErrMeansNothing
<1>8. CASE ~(u <= maxmemory) /\ policy # "noeviction"
  <2>1. job' = [pc |-> "choose", tofree |-> u - maxmemory, freed |-> 0, best |-> 0, tried |-> 0]
    BY <1>1, <1>8 DEF V!Job, V!NoKey
  <2> QED
    BY <1>1, <1>2, <1>3, <1>4, <1>5, <1>8, <2>1 DEF EvictInv, Freeing, Buffered, V!OkMeansUnder, V!ErrMeansNothing
<1> QED
  BY <1>6, <1>7, <1>8

LEMMA CandidatesInDict ==
    V!Candidates \subseteq dict
  BY DEF V!Candidates

\* Choosing a key changes nothing but what the call has got: the best key and the pool.
LEMMA ChosenStep ==
    ASSUME V!EvictionAssumption, EvictInv, job.pc = "choose", UNCHANGED <<dict, ttl, bufs>>,
           \/ job'.pc = "choose"
           \/ job'.pc = "err" /\ V!Candidates = {}
           \/ job'.pc = "evict" /\ job'.best \in V!Candidates,
           job' \in [pc : {"choose", "err", "evict"}, tofree : {job.tofree}, freed : {job.freed}, best : Nat, tried : Nat]
    PROVE  EvictInv'
<1>0. job.tofree \in Nat /\ job.freed \in Nat
  BY DEF EvictInv, Freeing
<1>1. V!Candidates' = V!Candidates
  BY DEF V!Candidates
<1> QED
  BY <1>1 DEF EvictInv, Freeing, Buffered, V!OkMeansUnder, V!ErrMeansNothing

LEMMA ChooseStep ==
    ASSUME V!EvictionAssumption, EvictInv,
           \/ V!NothingToFree
           \/ \E q \in V!Samples : V!ChooseLru(q)
           \/ \E k \in Keys : V!ChooseRandom(k)
           \/ \E q \in SUBSET Keys : V!ChooseTtl(q)
    PROVE  EvictInv'
<1>1. job \in [pc : {"idle", "choose", "evict", "ok", "err"}, tofree : Nat, freed : Nat, best : Nat, tried : Nat]
  BY DEF EvictInv, Freeing
<1>2. V!Candidates \subseteq Nat \ {0}
  BY KeysFinite, CandidatesInDict DEF EvictInv
<1>3. CASE V!NothingToFree
  <2>1. job' \in [pc : {"err"}, tofree : {job.tofree}, freed : {job.freed}, best : Nat, tried : Nat]
    BY <1>1, <1>3 DEF V!NothingToFree
  <2>2. V!Candidates = {} /\ job.pc = "choose" /\ UNCHANGED <<dict, ttl, bufs>>
    BY <1>3 DEF V!NothingToFree
  <2> QED
    BY <1>1, <2>1, <2>2, ChosenStep
<1>4. ASSUME NEW q \in V!Samples, V!ChooseLru(q) PROVE EvictInv'
  <2> DEFINE r == V!Pick(V!evictionPoolPopulate(pool, q))
             n == IF q = <<>> \/ job.tried > 2 THEN job.tried ELSE job.tried + 1
  <2>1. r.best = V!NoKey \/ r.best \in V!Candidates
    BY PickIsCandidate
  <2>2. job' = [job EXCEPT !.best = r.best, !.pc = IF r.best = V!NoKey THEN "choose" ELSE "evict", !.tried = n]
    BY <1>4 DEF V!ChooseLru
  <2>3. job.pc = "choose" /\ UNCHANGED <<dict, ttl, bufs>>
    BY <1>4 DEF V!ChooseLru
  <2>4. n \in Nat
    BY <1>1
  <2> DEFINE b == r.best
  <2>5. b = V!NoKey \/ b \in V!Candidates
    BY <2>1
  <2>6. job' = [job EXCEPT !.best = b, !.pc = IF b = V!NoKey THEN "choose" ELSE "evict", !.tried = n]
    BY <2>2
  <2> HIDE DEF r, n, b
  <2>7. b \in Nat
    <3>1. 0 \in Nat /\ V!NoKey = 0
      BY DEF V!NoKey
    <3>2. CASE b = V!NoKey
      BY <3>1, <3>2
    <3>3. CASE b \in V!Candidates
      BY <1>2, <3>3
    <3> QED
      BY <2>5, <3>2, <3>3
  <2>8. job' = [pc |-> IF b = V!NoKey THEN "choose" ELSE "evict", tofree |-> job.tofree, freed |-> job.freed,
                best |-> b, tried |-> n]
    BY <1>1, <2>6
  <2>9. job' \in [pc : {"choose", "err", "evict"}, tofree : {job.tofree}, freed : {job.freed}, best : Nat, tried : Nat]
    BY <2>4, <2>7, <2>8
  <2>10. job'.pc = "choose" \/ (job'.pc = "evict" /\ job'.best \in V!Candidates)
    BY <2>5, <2>8
  <2> QED
    BY <2>3, <2>9, <2>10, ChosenStep
<1>5. ASSUME NEW k \in Keys, V!ChooseRandom(k) PROVE EvictInv'
  <2>1. /\ job' \in [pc : {"evict"}, tofree : {job.tofree}, freed : {job.freed}, best : {k}, tried : Nat]
        /\ k \in V!Candidates
    BY <1>1, <1>5 DEF V!ChooseRandom
  <2>2. job.pc = "choose" /\ UNCHANGED <<dict, ttl, bufs>>
    BY <1>5 DEF V!ChooseRandom
  <2> QED
    BY <1>1, <1>2, <2>1, <2>2, ChosenStep
<1>6. ASSUME NEW q \in SUBSET Keys, V!ChooseTtl(q) PROVE EvictInv'
  <2>1. PICK k \in q : job' = [job EXCEPT !.best = k, !.pc = "evict"]
    BY <1>6 DEF V!ChooseTtl
  <2>2. k \in V!Candidates /\ job.pc = "choose" /\ UNCHANGED <<dict, ttl, bufs>>
    BY <1>6 DEF V!ChooseTtl
  <2>3. job' \in [pc : {"evict"}, tofree : {job.tofree}, freed : {job.freed}, best : {k}, tried : Nat]
    BY <1>1, <2>1
  <2> QED
    BY <1>1, <1>2, <2>2, <2>3, ChosenStep
<1> QED
  BY <1>3, <1>4, <1>5, <1>6

LEMMA FedBuffered ==
    ASSUME V!EvictionAssumption, Buffered
    PROVE  /\ V!Fed.out \in Nat /\ V!Fed.aof \in Nat /\ (Slaves = 0 => V!Fed.out = 0)
           /\ V!Fed = [out |-> V!Fed.out, aof |-> V!Fed.aof]
  BY KeysFinite DEF Buffered, V!Fed

LEMMA EvictStep ==
    ASSUME V!EvictionAssumption, EvictInv, V!Evict
    PROVE  EvictInv'
<1> DEFINE b == job.best
           n == Cardinality(dict)
<1>1. job \in [pc : {"idle", "choose", "evict", "ok", "err"}, tofree : Nat, freed : Nat, best : Nat, tried : Nat]
  BY DEF EvictInv, Freeing
<1>2. /\ job.pc = "evict" /\ dict' = dict \ {b} /\ ttl' = [ttl EXCEPT ![b] = 0]
      /\ job' = [job EXCEPT !.best = V!NoKey, !.tried = 0, !.freed = @ + 1,
                            !.pc = IF job.freed + 1 >= job.tofree THEN "ok" ELSE "choose"]
      /\ bufs' = [V!Fed EXCEPT !.out = 0]
  BY DEF V!Evict
<1>3. b \in dict
  BY <1>2, CandidatesInDict DEF EvictInv, Freeing
<1>4. dict' \in SUBSET Keys /\ ttl' \in [Keys -> Nat]
  BY <1>2, <1>3 DEF EvictInv
<1>5. Buffered'
  <2>1. V!Fed.aof \in Nat /\ V!Fed = [out |-> V!Fed.out, aof |-> V!Fed.aof]
    BY FedBuffered DEF EvictInv
  <2>2. bufs' = [out |-> 0, aof |-> V!Fed.aof]
    BY <1>2, <2>1
  <2> QED
    BY <2>1, <2>2 DEF Buffered
<1>6. job' = [pc |-> IF job.freed + 1 >= job.tofree THEN "ok" ELSE "choose", tofree |-> job.tofree,
              freed |-> job.freed + 1, best |-> 0, tried |-> 0]
  BY <1>1, <1>2 DEF V!NoKey
<1>7. n \in Nat /\ Cardinality(dict') = n - 1
  BY <1>2, <1>3, KeyLess DEF EvictInv
<1>8. job.freed < job.tofree /\ (Slaves <= 1 => n + job.freed <= maxmemory + job.tofree)
  BY <1>2 DEF EvictInv, Freeing
<1>9. maxmemory \in Nat
  BY KeysFinite
<1> HIDE DEF n, b
<1>10. Freeing'
  BY <1>1, <1>6, <1>7, <1>8, <1>9 DEF Freeing
<1>11. V!OkMeansUnder'
  BY <1>1, <1>6, <1>7, <1>8, <1>9 DEF V!OkMeansUnder, V!Cardinality, Cardinality
<1>12. V!ErrMeansNothing'
  BY <1>6 DEF V!ErrMeansNothing
<1> QED
  BY <1>4, <1>5, <1>10, <1>11, <1>12 DEF EvictInv

\* Between the calls nothing is promised but the types.
LEMMA IdleStep ==
    ASSUME V!EvictionAssumption, EvictInv,
           \/ V!Done \/ V!getLRUClock \/ V!flushBuffers
           \/ \E k \in Keys : V!lookupKey(k) \/ V!dbDelete(k)
    PROVE  EvictInv'
<1>1. job \in [pc : {"idle", "choose", "evict", "ok", "err"}, tofree : Nat, freed : Nat, best : Nat, tried : Nat]
  BY DEF EvictInv, Freeing
<1>2. ASSUME dict' \in SUBSET Keys, ttl' \in [Keys -> Nat], Buffered', job' = job \/ job' = V!Job("idle"),
             job.pc = "idle" \/ job' = V!Job("idle")
      PROVE  EvictInv'
  <2>1. V!Job("idle") = [pc |-> "idle", tofree |-> 0, freed |-> 0, best |-> 0, tried |-> 0]
    BY DEF V!Job, V!NoKey
  <2>2. job' \in [pc : {"idle"}, tofree : Nat, freed : Nat, best : Nat, tried : Nat]
    BY <1>1, <1>2, <2>1
  <2> QED
    BY <1>2, <2>2 DEF EvictInv, Freeing, V!OkMeansUnder, V!ErrMeansNothing
<1>3. ASSUME bufs' = V!Fed \/ bufs' = bufs PROVE Buffered'
  BY <1>3, FedBuffered DEF EvictInv, Buffered
<1>4. CASE V!Done
  BY <1>2, <1>3, <1>4 DEF V!Done, EvictInv
<1>5. CASE V!getLRUClock
  BY <1>2, <1>3, <1>5 DEF V!getLRUClock, V!Step, EvictInv
<1>6. CASE V!flushBuffers
  <2>1. Buffered'
    BY <1>6 DEF V!flushBuffers, EvictInv, Buffered
  <2> QED
    BY <1>2, <1>6, <2>1 DEF V!flushBuffers, EvictInv
<1>7. ASSUME NEW k \in Keys, V!lookupKey(k) PROVE EvictInv'
  <2>1. dict' \in SUBSET Keys /\ ttl' \in [Keys -> Nat]
    BY <1>7 DEF V!lookupKey, EvictInv
  <2> QED
    BY <1>2, <1>3, <1>7, <2>1 DEF V!lookupKey, V!Step
<1>8. ASSUME NEW k \in Keys, V!dbDelete(k) PROVE EvictInv'
  <2>1. dict' \in SUBSET Keys /\ ttl' \in [Keys -> Nat]
    BY <1>8 DEF V!dbDelete, EvictInv
  <2> QED
    BY <1>2, <1>3, <1>8, <2>1 DEF V!dbDelete, V!Step
<1> QED
  BY <1>4, <1>5, <1>6, <1>7, <1>8

THEOREM EvictionTypes ==
    ASSUME V!EvictionAssumption, Cardinality(Keys) < Word
    PROVE  V!Spec => []EvictInv
<1>1. V!Init => EvictInv
  <2> SUFFICES ASSUME V!Init PROVE EvictInv
    OBVIOUS
  <2>1. job = [pc |-> "idle", tofree |-> 0, freed |-> 0, best |-> 0, tried |-> 0]
    BY DEF V!Init, V!Job, V!NoKey
  <2> QED
    BY <2>1 DEF V!Init, EvictInv, Freeing, Buffered, V!OkMeansUnder, V!ErrMeansNothing
<1>2. EvictInv /\ [V!Next]_V!vars => EvictInv'
  <2> SUFFICES ASSUME EvictInv, [V!Next]_V!vars PROVE EvictInv'
    OBVIOUS
  <2>1. CASE V!Next
    BY <2>1, StartStep, ChooseStep, EvictStep, IdleStep DEF V!Next
  <2>2. CASE UNCHANGED V!vars
    <3>1. UNCHANGED <<dict, ttl, bufs, job>>
      BY <2>2 DEF V!vars
    <3> QED
      BY <3>1 DEF EvictInv, Freeing, Buffered, V!OkMeansUnder, V!ErrMeansNothing, V!Candidates
  <2> QED
    BY <2>1, <2>2
<1> QED
  BY <1>1, <1>2, PTL DEF V!Spec

\* freeMemoryIfNeeded returns OK only with the memory below the limit, and gives up only with
\* nothing left to evict.  With two slaves or more the first is not so: every slave's buffer is
\* subtracted, but they share what is in them.
THEOREM EvictionReachesLimit ==
    ASSUME V!EvictionAssumption, Cardinality(Keys) < Word
    PROVE  V!Spec => [](V!OkMeansUnder /\ V!ErrMeansNothing)
<1>1. EvictInv => V!OkMeansUnder /\ V!ErrMeansNothing
  BY DEF EvictInv
<1> QED
  BY <1>1, EvictionTypes, PTL

\* During a call a key goes only while there is something to free, and only a key that the policy
\* allows to take.
THEOREM EvictsNoMoreThanNeeded ==
    ASSUME V!EvictionAssumption, Cardinality(Keys) < Word
    PROVE  V!Spec => [][V!NeverTooMuch]_V!vars
<1>1. EvictInv /\ [V!Next]_V!vars => [V!NeverTooMuch]_V!vars
  <2> SUFFICES ASSUME EvictInv, V!Next, V!Cardinality(dict') < V!Cardinality(dict), job.pc # "idle"
               PROVE  V!NeverTooMuch
    BY DEF V!NeverTooMuch
  <2>1. V!Cardinality(dict) = Cardinality(dict) /\ V!Cardinality(dict') = Cardinality(dict')
    BY DEF V!Cardinality, Cardinality
  <2>2. Cardinality(dict) \in Nat
    BY KeysFinite, FS_Subset, FS_CardinalityType DEF EvictInv
  <2>3. dict' # dict
    BY <2>1, <2>2
  <2>4. V!Evict
    BY <2>3 DEF V!Next, V!Start, V!NothingToFree, V!ChooseLru, V!ChooseRandom, V!ChooseTtl, V!Done,
                V!lookupKey, V!dbDelete, V!getLRUClock, V!flushBuffers, V!Step
  <2>5. job.pc = "evict" /\ dict' = dict \ {job.best}
    BY <2>4 DEF V!Evict
  <2>6. job.best \in V!Candidates /\ job.freed < job.tofree
    BY <2>5 DEF EvictInv, Freeing
  <2>7. policy \in {"volatile-lru", "volatile-random", "volatile-ttl"} => ttl[job.best] # 0
    BY <2>6 DEF V!Candidates
  <2> QED
    BY <2>5, <2>6, <2>7 DEF V!NeverTooMuch
<1> QED
  BY <1>1, EvictionTypes, PTL DEF V!Spec

\* The clock of last accesses, and what it says of every key, existing or not.
ClockInv ==
    /\ clock \in 0..ClockMax /\ lru \in [Keys -> 0..ClockMax] /\ idle \in [Keys -> Nat]
    /\ \A k \in Keys : V!estimateObjectIdleTime(lru[k], clock) <= idle[k]

LEMMA ClockTicks ==
    ASSUME ClockMax \in Nat \ {0}, NEW c \in 0..ClockMax, NEW l \in 0..ClockMax, NEW i \in Nat,
           V!estimateObjectIdleTime(l, c) <= i
    PROVE  /\ (c + 1) % (ClockMax + 1) \in 0..ClockMax
           /\ V!estimateObjectIdleTime(l, (c + 1) % (ClockMax + 1)) <= i + 1
<1>1. CASE c < ClockMax
  <2>1. (c + 1) % (ClockMax + 1) = c + 1
    BY <1>1
  <2> QED
    BY <1>1, <2>1 DEF V!estimateObjectIdleTime
<1>2. CASE c = ClockMax
  <2>1. (c + 1) % (ClockMax + 1) = 0
    BY <1>2
  <2> QED
    BY <1>2, <2>1 DEF V!estimateObjectIdleTime
<1> QED
  BY <1>1, <1>2

\* An idle time is never more than the real one, however often the clock wraps: a key is not evicted
\* for an age it has not got.
THEOREM IdleTimes ==
    ASSUME V!EvictionAssumption, Cardinality(Keys) < Word
    PROVE  V!Spec => []V!IdleNotAbove
<1>1. V!Init => ClockInv
  BY KeysFinite DEF V!Init, ClockInv, V!estimateObjectIdleTime
<1>2. ClockInv /\ [V!Next]_V!vars => ClockInv'
  <2> SUFFICES ASSUME ClockInv, [V!Next]_V!vars PROVE ClockInv'
    OBVIOUS
  <2>1. CASE UNCHANGED <<lru, idle, clock>>
    BY <2>1 DEF ClockInv
  <2>2. ASSUME NEW k \in Keys, V!lookupKey(k) PROVE ClockInv'
    <3>1. lru' = [lru EXCEPT ![k] = clock] /\ idle' = [idle EXCEPT ![k] = 0] /\ clock' = clock
      BY <2>2 DEF V!lookupKey
    <3>2. V!estimateObjectIdleTime(clock, clock) = 0
      BY DEF V!estimateObjectIdleTime, ClockInv
    <3> QED
      BY <3>1, <3>2 DEF ClockInv
  <2>3. CASE V!getLRUClock
    <3>1. /\ clock' = (clock + 1) % (ClockMax + 1) /\ lru' = lru
          /\ idle' = [k \in Keys |-> idle[k] + 1]
      BY <2>3 DEF V!getLRUClock
    <3>2. clock \in 0..ClockMax /\ ClockMax \in Nat \ {0} /\ lru \in [Keys -> 0..ClockMax] /\ idle \in [Keys -> Nat]
      BY KeysFinite DEF ClockInv
    <3>3. ASSUME NEW k \in Keys
          PROVE  clock' \in 0..ClockMax /\ V!estimateObjectIdleTime(lru'[k], clock') <= idle'[k]
      <4>1. lru[k] \in 0..ClockMax /\ idle[k] \in Nat /\ V!estimateObjectIdleTime(lru[k], clock) <= idle[k]
        BY <3>2, <3>3 DEF ClockInv
      <4> QED
        BY <3>1, <3>2, <4>1, ClockTicks
    <3>4. clock' \in 0..ClockMax
      BY <3>1, <3>2
    <3>5. lru' \in [Keys -> 0..ClockMax] /\ idle' \in [Keys -> Nat]
      BY <3>1, <3>2
    <3> QED
      BY <3>3, <3>4, <3>5 DEF ClockInv
  <2>4. UNCHANGED <<lru, idle, clock>> \/ V!getLRUClock \/ \E k \in Keys : V!lookupKey(k)
    BY DEF V!Next, V!vars, V!Start, V!NothingToFree, V!ChooseLru, V!ChooseRandom, V!ChooseTtl, V!Evict, V!Done,
           V!dbDelete, V!flushBuffers
  <2> QED
    BY <2>1, <2>2, <2>3, <2>4
<1>3. V!Spec => []ClockInv
  BY <1>1, <1>2, PTL DEF V!Spec
<1>4. EvictInv /\ ClockInv => V!IdleNotAbove
  BY DEF EvictInv, ClockInv, V!IdleNotAbove
<1> QED
  BY <1>3, <1>4, EvictionTypes, PTL
=============================================================================
