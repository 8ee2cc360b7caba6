----------------------------- MODULE ScriptCache -----------------------------
(***************************************************************************)
(* Scripts and how they are propagated (scripting.c, replication.c): a      *)
(* primary sends EVALSHA as it is only when its script cache says that all  *)
(* replicas and the append only file know the script; else it sends EVAL.   *)
(* Replicas attach, by a BGSAVE of their own or another's, reconnect,       *)
(* restart; the append only file is switched on and off and rewritten.      *)
(***************************************************************************)
EXTENDS Integers, Sequences, SequencesExt, FiniteSets

CONSTANTS
    Scripts, Replicas,
    repl_scriptcache_size,
    ClientFlush,        \* TRUE: clients of a replica may send it SCRIPT FLUSH
    MaxCommands         \* bound: commands of clients
ScriptCacheAssumption ==
    repl_scriptcache_size \in Nat \ {0} /\ MaxCommands \in Nat /\ ClientFlush \in BOOLEAN

VARIABLES
    lua_scripts,    \* scripts the primary knows
    fifo,           \* repl_scriptcache_fifo, newest first
    replstate,      \* per replica: "none" | "wait" | "bgsave" | "online" | "gone" (may resume by PSYNC)
    link,           \* per replica: commands it has not run yet
    known,          \* per replica: scripts it knows
    aof,            \* [on, log, rewriting, buf]
    commands
vars == <<lua_scripts, fifo, replstate, link, known, aof, commands>>

-----------------------------------------------------------------------------
(* The cache                                                                *)

replicationScriptCacheFlush == <<>>
\* The oldest entry makes room.
replicationScriptCacheAdd(s) == <<s>> \o (IF Len(fifo) = repl_scriptcache_size THEN Front(fifo) ELSE fifo)
replicationScriptCacheExists(s) == s \in ToSet(fifo)

\* A command goes to the replicas that are fed, to the backlog and to the file.
Fed == {r \in Replicas : replstate[r] \in {"bgsave", "online", "gone"}}
propagate(cmd) ==
    /\ link' = [r \in Replicas |-> IF r \in Fed THEN Append(link[r], cmd) ELSE link[r]]
    /\ aof' = [aof EXCEPT !.log = IF aof.on THEN Append(@, cmd) ELSE @, !.buf = IF aof.rewriting THEN Append(@, cmd) ELSE @]
NotPropagated == UNCHANGED <<link, aof>>

-----------------------------------------------------------------------------
(* Commands of clients                                                      *)

Count == commands < MaxCommands /\ commands' = commands + 1
\* A script that wrote something is propagated; it compiles.
evalCommand(s, dirty) ==
    /\ Count /\ lua_scripts' = lua_scripts \cup {s}
    /\ IF dirty THEN propagate(<<"eval", s>>) ELSE NotPropagated
    /\ UNCHANGED <<fifo, replstate, known>>
evalShaCommand(s, dirty) ==
    /\ Count /\ s \in lua_scripts
    /\ IF replicationScriptCacheExists(s)
       THEN fifo' = fifo /\ (IF dirty THEN propagate(<<"evalsha", s>>) ELSE NotPropagated)
       ELSE fifo' = replicationScriptCacheAdd(s) /\ propagate(<<"eval", s>>)
    /\ UNCHANGED <<lua_scripts, replstate, known>>
scriptLoad(s) ==
    /\ Count /\ lua_scripts' = lua_scripts \cup {s} /\ propagate(<<"load", s>>)
    /\ UNCHANGED <<fifo, replstate, known>>
scriptFlush ==
    /\ Count /\ lua_scripts' = {} /\ fifo' = replicationScriptCacheFlush /\ propagate(<<"flush">>)
    /\ UNCHANGED <<replstate, known>>

-----------------------------------------------------------------------------
(* Replicas                                                                 *)

\* A replica that asks for all the data waits for a BGSAVE, or joins the one under way for another.
syncCommand(r) ==
    /\ replstate[r] = "none"
    /\ \/ /\ \A q \in Replicas : replstate[q] # "bgsave"
          /\ replstate' = [replstate EXCEPT ![r] = "wait"] /\ UNCHANGED link
       \/ \E q \in Replicas : /\ replstate[q] = "bgsave"
                              /\ replstate' = [replstate EXCEPT ![r] = "bgsave"] /\ link' = [link EXCEPT ![r] = link[q]]
    /\ UNCHANGED <<lua_scripts, fifo, known, aof, commands>>
startBgsaveForReplication ==
    /\ \E r \in Replicas : replstate[r] = "wait"
    /\ \A r \in Replicas : replstate[r] # "bgsave"
    /\ replstate' = [r \in Replicas |-> IF replstate[r] = "wait" THEN "bgsave" ELSE replstate[r]]
    /\ link' = [r \in Replicas |-> IF replstate[r] = "wait" THEN <<>> ELSE link[r]]
    /\ fifo' = replicationScriptCacheFlush /\ UNCHANGED <<lua_scripts, known, aof, commands>>
updateSlavesWaitingBgsave ==
    /\ \E r \in Replicas : replstate[r] = "bgsave"
    /\ replstate' = [r \in Replicas |-> IF replstate[r] = "bgsave" THEN "online" ELSE replstate[r]]
    /\ UNCHANGED <<lua_scripts, fifo, link, known, aof, commands>>
Knows(k, cmd) == CASE cmd[1] = "flush" -> {} [] cmd[1] = "evalsha" -> k [] OTHER -> k \cup {cmd[2]}
replicaRuns(r) ==
    /\ replstate[r] = "online" /\ link[r] # <<>>
    /\ known' = [known EXCEPT ![r] = Knows(@, Head(link[r]))] /\ link' = [link EXCEPT ![r] = Tail(@)]
    /\ UNCHANGED <<lua_scripts, fifo, replstate, aof, commands>>
\* The link breaks; the replica resumes by PSYNC, or asks for all, or it restarts and knows no script.
replicaGone(r) ==
    /\ replstate[r] = "online" /\ replstate' = [replstate EXCEPT ![r] = "gone"]
    /\ UNCHANGED <<lua_scripts, fifo, link, known, aof, commands>>
replicaBack(r) ==
    /\ replstate[r] = "gone"
    /\ \/ replstate' = [replstate EXCEPT ![r] = "online"] /\ UNCHANGED <<link, known>>
       \/ /\ replstate' = [replstate EXCEPT ![r] = "none"] /\ link' = [link EXCEPT ![r] = <<>>]
          /\ \E k \in {known[r], {}} : known' = [known EXCEPT ![r] = k]
    /\ UNCHANGED <<lua_scripts, fifo, aof, commands>>
flushAtReplica(r) ==
    /\ ClientFlush /\ known' = [known EXCEPT ![r] = {}]
    /\ UNCHANGED <<lua_scripts, fifo, replstate, link, aof, commands>>
\* Without replicas and file the cache is of no use.
replicationCron ==
    /\ \A r \in Replicas : replstate[r] \in {"none", "gone"}
    /\ ~aof.on /\ fifo # <<>> /\ fifo' = replicationScriptCacheFlush
    /\ UNCHANGED <<lua_scripts, replstate, link, known, aof, commands>>

-----------------------------------------------------------------------------
(* The append only file                                                     *)

\* BGREWRITEAOF, or CONFIG SET appendonly yes.
rewriteAppendOnlyFileBackground ==
    /\ ~aof.rewriting /\ aof' = [aof EXCEPT !.rewriting = TRUE, !.buf = <<>>]
    /\ fifo' = replicationScriptCacheFlush /\ UNCHANGED <<lua_scripts, replstate, link, known, commands>>
backgroundRewriteDoneHandler(ok) ==
    /\ aof.rewriting
    /\ aof' = IF ok THEN [on |-> TRUE, log |-> aof.buf, rewriting |-> FALSE, buf |-> <<>>]
              ELSE [aof EXCEPT !.rewriting = FALSE, !.buf = <<>>]
    /\ UNCHANGED <<lua_scripts, fifo, replstate, link, known, commands>>
stopAppendOnly ==
    /\ aof.on /\ aof' = [on |-> FALSE, log |-> <<>>, rewriting |-> FALSE, buf |-> <<>>]
    /\ UNCHANGED <<lua_scripts, fifo, replstate, link, known, commands>>

Init ==
    /\ lua_scripts = {} /\ fifo = <<>> /\ replstate = [r \in Replicas |-> "none"] /\ link = [r \in Replicas |-> <<>>]
    /\ known = [r \in Replicas |-> {}] /\ aof = [on |-> FALSE, log |-> <<>>, rewriting |-> FALSE, buf |-> <<>>] /\ commands = 0
Next ==
    \/ \E s \in Scripts, dirty \in BOOLEAN : evalCommand(s, dirty) \/ evalShaCommand(s, dirty)
    \/ \E s \in Scripts : scriptLoad(s)
    \/ scriptFlush \/ startBgsaveForReplication \/ updateSlavesWaitingBgsave \/ replicationCron
    \/ \E r \in Replicas : syncCommand(r) \/ replicaRuns(r) \/ replicaGone(r) \/ replicaBack(r) \/ flushAtReplica(r)
    \/ rewriteAppendOnlyFileBackground \/ stopAppendOnly \/ \E ok \in BOOLEAN : backgroundRewriteDoneHandler(ok)
Spec == Init /\ [][Next]_vars

-----------------------------------------------------------------------------
TypeOK ==
    /\ Len(fifo) <= repl_scriptcache_size /\ IsInjective(fifo) /\ ToSet(fifo) \subseteq lua_scripts
    /\ replstate \in [Replicas -> {"none", "wait", "bgsave", "online", "gone"}] /\ known \in [Replicas -> SUBSET Scripts]

\* Started with the scripts k, a server knows s before it runs cmds[i]: it knew it or was told, and
\* there was no flush since.
Tells(cmd, s) == cmd[1] \in {"eval", "load"} /\ cmd[2] = s
KnownBefore(k, cmds, i, s) ==
    \/ s \in k /\ \A f \in 1..(i - 1) : cmds[f][1] # "flush"
    \/ \E j \in 1..(i - 1) : Tells(cmds[j], s) /\ \A f \in j..(i - 1) : cmds[f][1] # "flush"
\* Running cmds with the scripts k never meets an EVALSHA of a script that is not known.
Replays(k, cmds) == \A i \in 1..Len(cmds) : cmds[i][1] = "evalsha" => KnownBefore(k, cmds, i, cmds[i][2])

\* No replica is sent an EVALSHA it cannot run, whenever it attached and whatever was evicted or flushed
\* ("all the slaves are aware of this script SHA1", replicationScriptCacheExists).
ReplicasKnow == \A r \in Fed : Replays(known[r], link[r])

\* The append only file, and the one that is being written, can be replayed by a server that knows no script.
FileReplays == (aof.on => Replays({}, aof.log)) /\ (aof.rewriting => Replays({}, aof.buf))
=============================================================================
